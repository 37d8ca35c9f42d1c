--------------------------- MODULE ManagerProofs ---------------------------
(***************************************************************************)
(* Proofs about the manager's transactions: no process is lost, a relaunch *)
(* never meets an earlier process of its epoch, the file of a live core is *)
(* the one its plan says, the status names the core in the slot, and a     *)
(* reconcile that fails leaves what it found.  They hold for any set of    *)
(* configurations and any number of epochs and generations.                *)
(*                                                                         *)
(* None of these is inductive alone.  What carries them is which slots a   *)
(* transaction has filled at each of its steps (Slots), whose plans they   *)
(* hold (Targets), that a transaction other than a stop runs without a     *)
(* quarantine (Guarded), and what the files (Files) and the status (Shown) *)
(* say at each step.                                                       *)
(*                                                                         *)
(* The last part is about what clients of the service are told of it: the  *)
(* status feed, the legacy stream and the echo of the core's type.         *)
(***************************************************************************)
EXTENDS MCCoreManager, TLAPS

EpochPlans == [epoch: 0 .. MaxEpochs, gen: 0 .. MaxGeneration, cfg: Configs \union {"none"}]
Instances == [plan: EpochPlans, alive: BOOLEAN, fwd: BOOLEAN]
Steps == {"idle", "discard", "prepare", "launch", "spawn", "ready", "install", "stopping",
          "sprepare", "hretire", "gspawn", "gready", "gdns", "gretire", "gcommit", "gverify",
          "cleanold", "adns", "averify", "cprepare", "cretire", "replace", "repready",
          "rinstall", "rpublish", "rollback", "tail"}
Transactions ==
  [pc: Steps, kind: {"none", "start", "stop", "shutdown", "switch", "reconcile", "recover"},
   plan: EpochPlans, old: EpochPlans, begin: Instances, backup: Contents, graceful: BOOLEAN,
   result: {"none", "ok", "err", "RolledBack"}, dnsFailed: BOOLEAN, died: BOOLEAN]
Statuses ==
  [state: {"Stopped", "Starting", "Running", "Stopping", "Switching", "Restarting"},
   rev: EpochPlans, note: {"none", "latched", "dropped"}]
Entries == [epoch: Epochs, proven: BOOLEAN]

SlotsTyped == epochs \in 0 .. MaxEpochs /\ current \in Instances /\ cand \in Instances
HostTyped ==
  /\ strays \subseteq Epochs /\ quarantine \subseteq Entries /\ disk \in [Epochs -> Contents]
TxTyped == tx \in Transactions /\ status \in Statuses
Typed == SlotsTyped /\ HostTyped /\ TxTyped

(* The steps at which the transaction holds an instance of its own; at     *)
(* which the slot is full; at which it is empty.                           *)
WithCand == {"ready", "install", "stopping", "gready", "gdns", "gretire", "gcommit", "gverify",
             "repready", "rinstall"}
OldInSlot == {"discard", "sprepare", "hretire", "gspawn", "gready", "gdns", "gretire", "adns",
              "averify", "cprepare", "cretire"}
NewInSlot == {"cleanold", "rpublish"}
SlotEmpty == {"prepare", "launch", "spawn", "ready", "install", "stopping", "gcommit", "gverify",
              "replace", "repready", "rinstall", "rollback"}

Allocated(p) == p.epoch \in 1 .. epochs

Slots ==
  /\ current = None \/ Allocated(current.plan)
  /\ IF tx.pc \in WithCand THEN Allocated(cand.plan) ELSE cand = None
  /\ tx.pc \in OldInSlot => Allocated(current.plan) /\ current.plan = tx.old
  /\ tx.pc \in NewInSlot => Allocated(current.plan) /\ current.plan = tx.plan
  /\ tx.pc \in SlotEmpty => current = None

(* The steps after which a plan has its epoch.                             *)
Planned == {"launch", "spawn", "ready", "install", "hretire", "gspawn", "gready", "gdns",
            "gretire", "gcommit", "gverify", "cleanold", "adns", "averify", "cretire", "replace",
            "repready", "rinstall", "rpublish", "rollback"}
GracefulOnly == {"gspawn", "gready", "gdns", "gretire", "gcommit", "gverify", "cleanold"}
Compensated == {"adns", "averify", "cretire", "replace", "repready", "rollback"}
ReconcileOnly == {"adns", "averify", "cprepare", "cretire", "rinstall", "rpublish", "rollback"}
OneSided == {"discard", "prepare", "launch", "spawn", "ready", "hretire"}

Targets ==
  /\ tx.pc \in Planned => Allocated(tx.plan)
  /\ tx.pc \in WithCand \ {"stopping"} => cand.plan = tx.plan
  /\ tx.pc # "idle" => tx.old = tx.begin.plan
  /\ tx.pc \in GracefulOnly => tx.graceful
  /\ tx.pc \in OneSided \union ReconcileOnly => ~tx.graceful
  /\ tx.pc \in ReconcileOnly => tx.kind = "reconcile"
  /\ tx.pc \in {"replace", "repready"} /\ ~tx.graceful => tx.kind = "reconcile"
  /\ tx.pc \notin {"idle", "tail"} /\ tx.graceful => tx.kind = "switch"
  /\ tx.pc \in Planned /\ tx.graceful => tx.plan.epoch # tx.old.epoch
  /\ tx.pc = "hretire" => tx.plan.epoch # tx.old.epoch
  /\ tx.pc \in ReconcileOnly \union {"replace", "repready"} /\ tx.kind = "reconcile" =>
       tx.old.epoch \in 1 .. epochs
  /\ tx.pc = "rollback" => tx.plan # tx.old

(* Only a stop runs under a quarantine, and no entry is about an instance  *)
(* that is still held.                                                     *)
Guarded ==
  /\ tx.pc \notin {"idle", "tail", "stopping"} => quarantine = {}
  /\ \A q \in quarantine : /\ q.epoch \in 1 .. epochs
                           /\ q.epoch # current.plan.epoch /\ q.epoch # cand.plan.epoch

(* The steps at which the file of the target plan has its full config.     *)
Written == {"launch", "spawn", "ready", "install", "hretire", "gverify", "averify", "cretire",
            "replace", "repready", "rinstall", "rollback"}

(* The file of the slot is right but while a hot apply has replaced it;    *)
(* until a compensation is over the old config can be had again.           *)
Files ==
  /\ current # None /\ tx.pc \notin {"averify", "cretire"} =>
       disk[current.plan.epoch] = current.plan.cfg
  /\ tx.pc \in Written => disk[tx.plan.epoch] = tx.plan.cfg
  /\ tx.pc \in Compensated /\ tx.kind = "reconcile" /\ tx.plan # tx.old =>
       IF tx.plan.epoch = tx.old.epoch THEN tx.backup = tx.old.cfg
       ELSE disk[tx.old.epoch] = tx.old.cfg

(* The steps at which no frame of a transaction is on show.                *)
Resting == {"idle", "tail", "discard", "sprepare", "adns", "averify", "cprepare", "cretire",
            "cleanold"}

Shown ==
  /\ tx.pc \in Resting =>
       /\ status.state = "Running" =>
            status.note = "dropped" \/ (current # None /\ status.rev = current.plan)
       /\ Running /\ status.note # "latched" =>
            status.state = "Running" /\ status.rev = current.plan
       /\ status.state \in {"Running", "Stopped"}
  /\ tx.pc = "install" => status.state = "Running" /\ status.rev = tx.plan
  /\ tx.pc = "stopping" /\ tx.kind = "stop" /\ ~tx.begin.alive => status.state = "Stopped"

ManagerIInv ==
  Typed /\ Slots /\ Targets /\ Guarded /\ NoLostProcess /\ Files /\ Shown /\ CleanAbort

(***************************************************************************)
(* The records a step writes                                               *)
(***************************************************************************)
(* What an empty slot looks like.                                          *)
LEMMA NoneFields ==
  /\ None \in Instances /\ None.plan = NoPlan /\ None.alive = FALSE /\ None.fwd = FALSE
  /\ NoPlan \in EpochPlans /\ NoPlan.epoch = 0 /\ NoPlan.cfg = "none"
BY ManagerAssumption DEF None, NoPlan, Instances, EpochPlans

(* A plan has its three fields, and nothing else tells plans apart.        *)
LEMMA PlanFields ==
  ASSUME NEW e \in 0 .. MaxEpochs, NEW g \in 0 .. MaxGeneration, NEW c \in Configs
  PROVE  /\ Plan(e, g, c) \in EpochPlans
         /\ Plan(e, g, c).epoch = e /\ Plan(e, g, c).gen = g /\ Plan(e, g, c).cfg = c
BY DEF Plan, EpochPlans

(* A launched instance lives and has no forwarder yet.                     *)
LEMMA LaunchedFields ==
  ASSUME NEW p \in EpochPlans
  PROVE  /\ Launched(p) \in Instances /\ Launched(p).plan = p
         /\ Launched(p).alive = TRUE /\ Launched(p).fwd = FALSE
BY DEF Launched, Instances

(* install changes nothing but the forwarder.                              *)
LEMMA InstalledFields ==
  ASSUME NEW i \in Instances
  PROVE  /\ Installed(i) \in Instances /\ Installed(i).plan = i.plan
         /\ Installed(i).alive = i.alive
BY DEF Installed, Instances

(* What a step of a transaction does not touch.                            *)
Carries(r) ==
  /\ r.kind = tx.kind /\ r.old = tx.old /\ r.begin = tx.begin
  /\ r.backup = tx.backup /\ r.graceful = tx.graceful

(* At moves the transaction and keeps all else.                            *)
LEMMA AtFields ==
  ASSUME tx \in Transactions, NEW p \in Steps
  PROVE  /\ At(p) \in Transactions /\ At(p).pc = p /\ Carries(At(p))
         /\ At(p).plan = tx.plan /\ At(p).result = tx.result
BY DEF At, Transactions, Carries

(* A failure goes to the tail with an error.                               *)
LEMMA FailsFields ==
  ASSUME tx \in Transactions, NEW b \in BOOLEAN
  PROVE  /\ Fails(b) \in Transactions /\ Fails(b).pc = "tail" /\ Carries(Fails(b))
         /\ Fails(b).plan = tx.plan /\ Fails(b).result = "err"
<1>1. PICK d \in BOOLEAN : Fails(b) = [tx EXCEPT !.pc = "tail", !.result = "err", !.dnsFailed = d]
  <2>1. (tx.dnsFailed \/ ~b) \in BOOLEAN
    BY Zenon
  <2>2. Fails(b) = [tx EXCEPT !.pc = "tail", !.result = "err", !.dnsFailed = (tx.dnsFailed \/ ~b)]
    BY DEF Fails, Transactions
  <2> QED
    BY <2>1, <2>2, Zenon
<1> QED
  BY ZenonT(40), <1>1 DEF Transactions, Carries, Steps

(* A success goes to the tail with its result.                             *)
LEMMA SucceedsFields ==
  ASSUME tx \in Transactions, NEW r \in {"ok", "RolledBack"}
  PROVE  /\ Succeeds(r) \in Transactions /\ Succeeds(r).pc = "tail" /\ Carries(Succeeds(r))
         /\ Succeeds(r).plan = tx.plan /\ Succeeds(r).result = r
BY DEF Succeeds, Transactions, Carries, Steps

Calls == {"start", "stop", "shutdown", "switch", "reconcile"}
Targetable == Configs \union {"none"}

(* A transaction begins with what it finds in the slot.                    *)
LEMMA BeginFields ==
  ASSUME current \in Instances, NEW k \in Calls, NEW c \in Targetable, NEW p \in Steps
  PROVE  /\ Begin(k, c, p) \in Transactions
         /\ Begin(k, c, p).pc = p /\ Begin(k, c, p).kind = k
         /\ Begin(k, c, p).plan.cfg = c /\ Begin(k, c, p).old = current.plan
         /\ Begin(k, c, p).begin = current /\ ~Begin(k, c, p).graceful
         /\ Begin(k, c, p).result = "none"
<1>1. Plan(0, 1, c) \in EpochPlans /\ Plan(0, 1, c).cfg = c
  BY ManagerAssumption DEF Plan, EpochPlans, Targetable
<1>2. "none" \in Contents /\ current.plan \in EpochPlans
  BY DEF Contents, Instances
<1> QED
  BY <1>1, <1>2, NoneFields DEF Begin, Idle, Transactions, Calls

(* Between transactions nothing is left of the last but its outcome.       *)
LEMMA IdleFields ==
  /\ Idle \in Transactions /\ Idle.pc = "idle" /\ Idle.plan = NoPlan /\ Idle.begin = None
BY NoneFields DEF Idle, Transactions, Steps, Contents

(* A file that goes, and a file that is written.                           *)
LEMMA CleanedFields ==
  ASSUME disk \in [Epochs -> Contents], NEW e
  PROVE  /\ Cleaned(disk, e) \in [Epochs -> Contents]
         /\ \A x \in Epochs : x # e => Cleaned(disk, e)[x] = disk[x]
BY DEF Cleaned, Contents

(* The file that is written has its content, the others are as they were.  *)
LEMMA WrittenFields ==
  ASSUME disk \in [Epochs -> Contents], NEW e \in Epochs, NEW c \in Contents
  PROVE  /\ [disk EXCEPT ![e] = c] \in [Epochs -> Contents]
         /\ [disk EXCEPT ![e] = c][e] = c
         /\ \A x \in Epochs : x # e => [disk EXCEPT ![e] = c][x] = disk[x]
OBVIOUS

(* A step that also settles the target plan.                               *)
LEMMA TargetFields ==
  ASSUME tx \in Transactions, NEW p \in Steps, NEW q \in EpochPlans
  PROVE  /\ [tx EXCEPT !.pc = p, !.plan = q] \in Transactions
         /\ [tx EXCEPT !.pc = p, !.plan = q].pc = p /\ [tx EXCEPT !.pc = p, !.plan = q].plan = q
         /\ Carries([tx EXCEPT !.pc = p, !.plan = q])
         /\ [tx EXCEPT !.pc = p, !.plan = q].result = tx.result
BY DEF Transactions, Carries

(* What a publication puts on show.                                        *)
LEMMA PublishFields ==
  ASSUME NEW p \in EpochPlans, NEW s \in {"Stopped", "Starting", "Running", "Stopping",
                                      "Switching", "Restarting"}, Publish(s, p)
  PROVE  /\ status' \in Statuses /\ status'.state = s /\ status'.rev = p
         /\ status'.note = "none"
BY DEF Publish, Statuses

(* The terminal frames name no revision.                                   *)
LEMMA TerminalFields ==
  /\ PublishTerminalError => status' \in Statuses /\ status'.state = "Stopped"
  /\ LatchedStatus => status' \in Statuses /\ status'.state = "Stopped"
BY NoneFields DEF PublishTerminalError, LatchedStatus, Publish, Statuses

(* republish_retained shows the core in the slot as it is.                 *)
LEMMA RetainedFields ==
  ASSUME Typed, current # None, RepublishRetained
  PROVE  /\ status' \in Statuses /\ status'.rev = current.plan
         /\ status'.state = IF current.alive THEN "Running" ELSE "Stopped"
<1>1. current.plan \in EpochPlans /\ Publish(IF current.alive THEN "Running" ELSE "Stopped", current.plan)
  BY DEF Typed, SlotsTyped, Instances, RepublishRetained
<1> QED
  BY <1>1, PublishFields

(* An epoch that was allocated is one of the epochs.                       *)
LEMMA AllocatedEpoch ==
  ASSUME epochs \in 0 .. MaxEpochs, NEW p, Allocated(p)
  PROVE  p.epoch \in Epochs
BY ManagerAssumption DEF Allocated, Epochs

(* A stop whose outcome is known loses nothing.                            *)
LEMMA StopFields ==
  ASSUME NEW i, NEW o, StopInstance(i, o)
  PROVE  \/ strays' = strays
         \/ o = "unconfirmed" /\ strays' = strays \union {i.plan.epoch}
BY DEF StopInstance

(* A quarantine takes in whatever a stop may have lost.                    *)
LEMMA RecordFields ==
  ASSUME NEW q \in SUBSET Entries, NEW e \in Epochs, \A x \in q : x.epoch # e
  PROVE  /\ Record(q, e) \subseteq Entries /\ q \subseteq Record(q, e)
         /\ \A x \in Record(q, e) : x \in q \/ x.epoch = e
         /\ \E x \in Record(q, e) : x.epoch = e /\ ~x.proven
<1>1. Record(q, e) = q \union {[epoch |-> e, proven |-> FALSE]}
  BY DEF Record
<1>2. [epoch |-> e, proven |-> FALSE] \in Entries
  BY DEF Entries
<1>3. [epoch |-> e, proven |-> FALSE].epoch = e /\ ~[epoch |-> e, proven |-> FALSE].proven
  OBVIOUS
<1> HIDE DEF Record
<1>4. \E x \in Record(q, e) : x.epoch = e /\ ~x.proven
  BY <1>1, <1>3, Zenon
<1> QED
  BY <1>1, <1>2, <1>3, <1>4, Zenon

(* What Guarded says of an entry.                                          *)
Elsewhere(q) ==
  q.epoch \in 1 .. epochs /\ q.epoch # current.plan.epoch /\ q.epoch # cand.plan.epoch

(* Latching an epoch that may have been lost.                              *)
LEMMA LatchFields ==
  ASSUME HostTyped, NoLostProcess, NEW e \in Epochs, \A q \in quarantine : q.epoch # e,
         strays' = strays \/ strays' = strays \union {e}, quarantine' = Record(quarantine, e)
  PROVE  /\ strays' \subseteq Epochs /\ quarantine' \subseteq Entries /\ NoLostProcess'
         /\ \A q \in quarantine' : q \in quarantine \/ q.epoch = e
BY RecordFields DEF HostTyped, NoLostProcess

(* Retiring an instance: what may have been lost is latched.               *)
LEMMA RetireFields ==
  ASSUME HostTyped, NoLostProcess, NEW i, NEW o, StopInstance(i, o), i.plan.epoch \in Epochs,
         \A q \in quarantine : q.epoch # i.plan.epoch,
         \/ o # "unconfirmed" /\ quarantine' = quarantine
         \/ quarantine' = Record(quarantine, i.plan.epoch)
  PROVE  /\ strays' \subseteq Epochs /\ quarantine' \subseteq Entries /\ NoLostProcess'
         /\ \A q \in quarantine' : q \in quarantine \/ q.epoch = i.plan.epoch
<1>1. CASE o # "unconfirmed" /\ quarantine' = quarantine
  BY <1>1, StopFields DEF HostTyped, NoLostProcess
<1>2. CASE quarantine' = Record(quarantine, i.plan.epoch)
  BY <1>2, StopFields, LatchFields
<1> QED
  BY <1>1, <1>2

(* Where the plans in hand have their files.                               *)
LEMMA EpochFacts ==
  ASSUME ManagerIInv
  PROVE  /\ current # None => current.plan.epoch \in Epochs
         /\ tx.pc \in OldInSlot \union NewInSlot => current # None /\ current.plan.epoch \in Epochs
         /\ tx.pc \in WithCand => cand.plan.epoch \in Epochs
         /\ tx.pc \in Planned => tx.plan.epoch \in Epochs
<1>1. epochs \in 0 .. MaxEpochs
  BY DEF ManagerIInv, Typed, SlotsTyped
<1>2. \A p : Allocated(p) => p.epoch \in Epochs /\ p.epoch # 0
  BY <1>1, ManagerAssumption DEF Allocated, Epochs
<1>3. ~Allocated(None.plan)
  BY <1>2, NoneFields
<1> QED
  BY <1>2, <1>3 DEF ManagerIInv, Slots, Targets

(***************************************************************************)
(* start, and a switch or reconcile with nothing running                   *)
(***************************************************************************)
(* EnterStart begins with an empty slot, or a dead core to discard.        *)
LEMMA EnterStartKeeps ==
  ASSUME ManagerIInv, NEW k \in {"start", "switch", "reconcile"}, NEW c \in Configs, EnterStart(k, c)
  PROVE  ManagerIInv'
<1>1. PICK p \in {"prepare", "discard"} :
        tx' = Begin(k, c, p) /\ (p = "prepare" <=> current = None)
  BY DEF EnterStart
<1>2. /\ tx' \in Transactions /\ tx'.pc = p /\ tx'.kind = k /\ tx'.old = current.plan
      /\ tx'.begin = current /\ ~tx'.graceful
  <2>1. p \in Steps /\ k \in Calls /\ c \in Targetable /\ current \in Instances
    BY DEF Calls, Targetable, ManagerIInv, Typed, SlotsTyped, Steps
  <2> QED
    <3> DEFINE r == Begin(k, c, p)
    <3>1. /\ r \in Transactions /\ r.pc = p /\ r.kind = k /\ r.old = current.plan
          /\ r.begin = current /\ ~r.graceful
      BY <2>1, BeginFields
    <3> HIDE DEF r
    <3> QED
      BY <3>1, <1>1 DEF r
<1>3. Typed'
  BY <1>1, <1>2, NoneFields
  DEF ManagerIInv, Typed, SlotsTyped, HostTyped, TxTyped, Epochs, EnterStart
<1>4. Slots'
  BY <1>1, <1>2, NoneFields
  DEF ManagerIInv, Typed, SlotsTyped, Slots, Allocated, SlotEmpty, OldInSlot, NewInSlot,
      WithCand, Targets, Planned, Carries, EnterStart
<1>5. Targets'
  BY <1>1, <1>2, NoneFields
  DEF ManagerIInv, Typed, SlotsTyped, Slots, Allocated, Targets, Planned, WithCand,
      GracefulOnly, OneSided, ReconcileOnly, OldInSlot, NewInSlot, Carries, EnterStart
<1>6. Guarded' /\ NoLostProcess'
  BY <1>1, <1>2, NoneFields
  DEF ManagerIInv, Typed, Guarded, NoLostProcess, Slots, Targets, Allocated, WithCand,
      SlotEmpty, OldInSlot, NewInSlot, EnterStart
<1>7. Files'
  BY <1>1, <1>2, NoneFields
  DEF ManagerIInv, Typed, SlotsTyped, HostTyped, Epochs, Slots, Targets, Allocated, OldInSlot,
      NewInSlot, SlotEmpty, Planned, Written, Compensated, ReconcileOnly, Files, Carries,
      WithCand, EnterStart
<1>8. Shown' /\ CleanAbort'
  BY <1>1, <1>2, NoneFields
  DEF ManagerIInv, Typed, SlotsTyped, Slots, Targets, Resting, Shown, CleanAbort, Running,
      Carries, OldInSlot, NewInSlot, SlotEmpty, WithCand, Allocated, Planned, EnterStart
<1> QED
  BY <1>3, <1>4, <1>5, <1>6, <1>7, <1>8 DEF ManagerIInv

(* Prepare takes a fresh epoch.                                            *)
LEMMA PrepareKeeps ==
  ASSUME ManagerIInv, NEW ok \in BOOLEAN, Prepare(ok)
  PROVE  ManagerIInv'
<1>1. epochs' = epochs + 1 /\ epochs + 1 \in Epochs /\ epochs \in Nat /\ tx.plan \in EpochPlans
  BY ManagerAssumption
  DEF Prepare, ManagerIInv, Typed, SlotsTyped, TxTyped, Transactions, Epochs
<1>2. ok => /\ tx' \in Transactions /\ tx'.pc = "launch" /\ tx'.plan.epoch = epochs + 1
            /\ tx'.plan.cfg = tx.plan.cfg /\ Carries(tx')
  <2> DEFINE q == [tx.plan EXCEPT !.epoch = epochs + 1]
  <2>1. ok => tx' = [tx EXCEPT !.pc = "launch", !.plan = q]
    BY DEF Prepare, ManagerIInv, Typed, TxTyped, Transactions
  <2>2. q \in EpochPlans /\ q.epoch = epochs + 1 /\ q.cfg = tx.plan.cfg
    BY <1>1 DEF EpochPlans, Epochs
  <2>3. "launch" \in Steps /\ tx \in Transactions
    BY DEF Steps, ManagerIInv, Typed, TxTyped
  <2> HIDE DEF q
  <2> QED
    <3> DEFINE r == [tx EXCEPT !.pc = "launch", !.plan = q]
    <3>1. r \in Transactions /\ r.pc = "launch" /\ r.plan = q /\ Carries(r)
      BY <2>2, <2>3, TargetFields, Zenon
    <3> HIDE DEF r
    <3>2. ok => tx' = r
      BY <2>1 DEF r
    <3> QED
      BY <2>2, <3>1, <3>2
<1>3. ~ok => tx' \in Transactions /\ tx'.pc = "tail" /\ tx'.result = "err" /\ Carries(tx')
  BY FailsFields DEF Prepare, ManagerIInv, Typed, TxTyped
<1>4. IF ok THEN /\ disk' \in [Epochs -> Contents] /\ disk'[epochs + 1] = tx.plan.cfg
                 /\ \A x \in Epochs : x # epochs + 1 => disk'[x] = disk[x]
              ELSE disk' = disk
  <2>1. tx.plan.cfg \in Contents
    BY <1>1 DEF EpochPlans, Contents
  <2>2. ok => disk' = [disk EXCEPT ![epochs + 1] = tx.plan.cfg]
    BY DEF Prepare
  <2>3. ~ok => disk' = disk
    BY DEF Prepare
  <2>4. disk \in [Epochs -> Contents]
    BY DEF ManagerIInv, Typed, HostTyped
  <2>5. CASE ok
    BY <1>1, <2>1, <2>2, <2>4, <2>5, WrittenFields
  <2>6. CASE ~ok
    BY <2>3, <2>6
  <2> QED
    BY <2>5, <2>6
<1>5. IF ok THEN status' = status ELSE status' \in Statuses /\ status'.state = "Stopped"
  BY TerminalFields DEF Prepare
<1>6. Typed'
  BY <1>1, <1>2, <1>3, <1>4, <1>5, NoneFields
  DEF ManagerIInv, Typed, SlotsTyped, HostTyped, TxTyped, Epochs, Prepare
<1>7. Slots'
  BY <1>1, <1>2, <1>3, <1>4, <1>5, NoneFields
  DEF ManagerIInv, Typed, SlotsTyped, Slots, Allocated, SlotEmpty, OldInSlot, NewInSlot,
      WithCand, Targets, Planned, Carries, Prepare
<1>8. Targets'
  BY <1>1, <1>2, <1>3, <1>4, <1>5, NoneFields
  DEF ManagerIInv, Typed, SlotsTyped, Slots, Allocated, Targets, Planned, WithCand,
      GracefulOnly, OneSided, ReconcileOnly, OldInSlot, NewInSlot, Carries, Prepare
<1>9. Guarded' /\ NoLostProcess'
  BY <1>1, <1>2, <1>3, <1>4, <1>5, NoneFields
  DEF ManagerIInv, Typed, Guarded, NoLostProcess, Slots, Targets, Allocated, WithCand,
      SlotEmpty, OldInSlot, NewInSlot, Prepare
<1>10. Files'
  BY <1>1, <1>2, <1>3, <1>4, <1>5, NoneFields
  DEF ManagerIInv, Typed, SlotsTyped, HostTyped, Epochs, Slots, Targets, Allocated, OldInSlot,
      NewInSlot, SlotEmpty, Planned, Written, Compensated, ReconcileOnly, Files, Carries,
      WithCand, Prepare
<1>11. Shown' /\ CleanAbort'
  BY <1>1, <1>2, <1>3, <1>4, <1>5, NoneFields
  DEF ManagerIInv, Typed, SlotsTyped, Slots, Targets, Resting, Shown, CleanAbort, Running,
      Carries, OldInSlot, NewInSlot, SlotEmpty, WithCand, Allocated, Planned, Prepare
<1> QED
  BY <1>6, <1>7, <1>8, <1>9, <1>10, <1>11 DEF ManagerIInv

(* The override, and the Starting frame.                                   *)
LEMMA LaunchPlanKeeps ==
  ASSUME ManagerIInv, NEW ok \in BOOLEAN, LaunchPlan(ok)
  PROVE  ManagerIInv'
<1>1. /\ tx' \in Transactions /\ Carries(tx') /\ tx'.plan = tx.plan
      /\ IF ok THEN tx'.pc = "spawn" ELSE tx'.pc = "tail" /\ tx'.result = "err"
  <2>1. tx \in Transactions /\ "spawn" \in Steps
    BY DEF ManagerIInv, Typed, TxTyped, Steps
  <2>2. ok => tx' = At("spawn")
    BY DEF LaunchPlan
  <2>3. ~ok => tx' \in {Fails(FALSE), Fails(TRUE)}
    BY DEF LaunchPlan
  <2> QED
    BY <2>1, <2>2, <2>3, AtFields, FailsFields
<1>2. disk' \in [Epochs -> Contents] /\ (ok => disk' = disk)
  BY CleanedFields DEF LaunchPlan, ManagerIInv, Typed, HostTyped
<1>3. status' \in Statuses /\ (~ok => status'.state = "Stopped")
  BY TerminalFields, PublishFields DEF LaunchPlan, ManagerIInv, Typed, TxTyped, Transactions
<1>4. Typed'
  BY <1>1, <1>2, <1>3, NoneFields
  DEF ManagerIInv, Typed, SlotsTyped, HostTyped, TxTyped, Epochs, LaunchPlan
<1>5. Slots'
  BY <1>1, <1>2, <1>3, NoneFields
  DEF ManagerIInv, Typed, SlotsTyped, Slots, Allocated, SlotEmpty, OldInSlot, NewInSlot,
      WithCand, Targets, Planned, Carries, LaunchPlan
<1>6. Targets'
  BY <1>1, <1>2, <1>3, NoneFields
  DEF ManagerIInv, Typed, SlotsTyped, Slots, Allocated, Targets, Planned, WithCand,
      GracefulOnly, OneSided, ReconcileOnly, OldInSlot, NewInSlot, Carries, LaunchPlan
<1>7. Guarded' /\ NoLostProcess'
  BY <1>1, <1>2, <1>3, NoneFields
  DEF ManagerIInv, Typed, Guarded, NoLostProcess, Slots, Targets, Allocated, WithCand,
      SlotEmpty, OldInSlot, NewInSlot, LaunchPlan
<1>8. Files'
  BY <1>1, <1>2, <1>3, NoneFields
  DEF ManagerIInv, Typed, SlotsTyped, HostTyped, Epochs, Slots, Targets, Allocated, OldInSlot,
      NewInSlot, SlotEmpty, Planned, Written, Compensated, ReconcileOnly, Files, Carries,
      WithCand, LaunchPlan
<1>9. Shown' /\ CleanAbort'
  BY <1>1, <1>2, <1>3, NoneFields
  DEF ManagerIInv, Typed, SlotsTyped, Slots, Targets, Resting, Shown, CleanAbort, Running,
      Carries, OldInSlot, NewInSlot, SlotEmpty, WithCand, Allocated, Planned, LaunchPlan
<1> QED
  BY <1>4, <1>5, <1>6, <1>7, <1>8, <1>9 DEF ManagerIInv

(* A dead core goes before a start.                                        *)
LEMMA DiscardKeeps ==
  ASSUME ManagerIInv, NEW outcome \in StopOutcomes, NEW cleaned \in BOOLEAN, Discard(outcome, cleaned)
  PROVE  ManagerIInv'
<1>1. /\ tx' \in Transactions
      /\ IF outcome = "dead" /\ cleaned THEN tx'.pc = "prepare" /\ Carries(tx')
         ELSE \/ tx'.pc = "idle"
              \/ tx'.pc = "tail" /\ tx'.result = "err" /\ Carries(tx')
  <2>1. [Idle EXCEPT !.kind = "start", !.result = "err"] \in Transactions
    BY IdleFields DEF Transactions
  <2>2. [Idle EXCEPT !.kind = "start", !.result = "err"].pc = "idle"
    BY DEF Idle
  <2> QED
    BY ZenonT(40), <2>1, <2>2, AtFields, FailsFields DEF Discard, ManagerIInv, Typed, TxTyped, Steps
<1>2. /\ strays' \subseteq Epochs /\ quarantine' \subseteq Entries /\ NoLostProcess'
      /\ \A q \in quarantine' : q.epoch = current.plan.epoch
      /\ outcome = "dead" => quarantine' = {}
  <2>1. /\ current.plan.epoch \in Epochs /\ quarantine = {}
        /\ \/ outcome # "unconfirmed" /\ quarantine' = quarantine
           \/ quarantine' = Record(quarantine, current.plan.epoch)
        /\ outcome = "dead" => quarantine' = {}
    <3>1. tx.pc \notin {"idle", "tail", "stopping"} /\ Allocated(current.plan)
      BY DEF Discard, ManagerIInv, Slots, OldInSlot, WithCand
    <3>2. current.plan.epoch \in Epochs /\ quarantine = {}
      BY <3>1, AllocatedEpoch DEF ManagerIInv, Typed, SlotsTyped, Guarded
    <3> QED
      BY <3>2 DEF Discard, Latch, ManagerIInv, Targets, WithCand, Slots, OldInSlot
  <2> QED
    BY <2>1, RetireFields DEF Discard, ManagerIInv, Typed
<1>3. disk' \in [Epochs -> Contents]
  BY CleanedFields DEF Discard, ManagerIInv, Typed, SlotsTyped, HostTyped, TxTyped
<1>4. /\ status' \in Statuses
      /\ \/ status'.state = status.state
         \/ status'.state = "Stopped"
      /\ (outcome = "dead" /\ cleaned) \/ status'.state = "Stopped" \/ status'.note = "dropped"
  BY TerminalFields
  DEF Discard, Latch, Statuses, ManagerIInv, Typed, SlotsTyped, HostTyped, TxTyped
<1>5. Typed'
  BY <1>1, <1>2, <1>3, <1>4, NoneFields
  DEF ManagerIInv, Typed, SlotsTyped, HostTyped, TxTyped, Epochs, Discard
<1>6. Slots'
  BY <1>1, <1>2, <1>3, <1>4, NoneFields
  DEF ManagerIInv, Typed, SlotsTyped, Slots, Allocated, SlotEmpty, OldInSlot, NewInSlot,
      WithCand, Targets, Planned, Carries, Discard
<1>7. Targets'
  BY <1>1, <1>2, <1>3, <1>4, NoneFields
  DEF ManagerIInv, Typed, SlotsTyped, Slots, Allocated, Targets, Planned, WithCand,
      GracefulOnly, OneSided, ReconcileOnly, OldInSlot, NewInSlot, Carries, Discard
<1>8. Guarded' /\ NoLostProcess'
  <2>1. /\ current' = None /\ cand' = None /\ epochs' = epochs /\ current.plan.epoch \in 1 .. epochs
        /\ current.plan.epoch # 0
    BY DEF Discard, ManagerIInv, Typed, SlotsTyped, Slots, Allocated, OldInSlot, WithCand
  <2> QED
    BY <1>1, <1>2, <2>1, NoneFields DEF Guarded
<1>9. Files'
  BY <1>1, <1>2, <1>3, <1>4, NoneFields
  DEF ManagerIInv, Typed, SlotsTyped, HostTyped, Epochs, Slots, Targets, Allocated, OldInSlot,
      NewInSlot, SlotEmpty, Planned, Written, Compensated, ReconcileOnly, Files, Carries,
      WithCand, Discard
<1>10. Shown' /\ CleanAbort'
  BY <1>1, <1>2, <1>3, <1>4, NoneFields
  DEF ManagerIInv, Typed, SlotsTyped, Slots, Targets, Resting, Shown, CleanAbort, Running,
      Carries, OldInSlot, NewInSlot, SlotEmpty, WithCand, Allocated, Planned, Discard
<1> QED
  BY <1>5, <1>6, <1>7, <1>8, <1>9, <1>10 DEF ManagerIInv

(* The process starts, or nothing of the plan stays.                       *)
LEMMA SpawnKeeps ==
  ASSUME ManagerIInv, NEW ok \in BOOLEAN, NEW restored \in BOOLEAN, Spawn(ok, restored)
  PROVE  ManagerIInv'
<1>1. /\ tx' \in Transactions /\ Carries(tx') /\ tx'.plan = tx.plan
      /\ IF ok THEN tx'.pc = "ready" ELSE tx'.pc = "tail" /\ tx'.result = "err"
  BY AtFields, FailsFields DEF Spawn, ManagerIInv, Typed, TxTyped, Steps
<1>2. IF ok THEN cand' \in Instances /\ cand'.plan = tx.plan ELSE cand' = cand
  BY LaunchedFields DEF Spawn, ManagerIInv, Typed, TxTyped, Transactions
<1>3. disk' \in [Epochs -> Contents] /\ (ok => disk' = disk)
  BY CleanedFields DEF Spawn, ManagerIInv, Typed, SlotsTyped, HostTyped, TxTyped
<1>4. status' \in Statuses /\ (~ok => status'.state = "Stopped")
  BY TerminalFields DEF Spawn, ManagerIInv, Typed, SlotsTyped, HostTyped, TxTyped
<1>5. Typed'
  BY <1>1, <1>2, <1>3, <1>4, NoneFields
  DEF ManagerIInv, Typed, SlotsTyped, HostTyped, TxTyped, Epochs, Spawn
<1>6. Slots'
  BY <1>1, <1>2, <1>3, <1>4, NoneFields
  DEF ManagerIInv, Typed, SlotsTyped, Slots, Allocated, SlotEmpty, OldInSlot, NewInSlot,
      WithCand, Targets, Planned, Carries, Spawn
<1>7. Targets'
  BY <1>1, <1>2, <1>3, <1>4, NoneFields
  DEF ManagerIInv, Typed, SlotsTyped, Slots, Allocated, Targets, Planned, WithCand,
      GracefulOnly, OneSided, ReconcileOnly, OldInSlot, NewInSlot, Carries, Spawn
<1>8. Guarded' /\ NoLostProcess'
  BY <1>1, <1>2, <1>3, <1>4, NoneFields
  DEF ManagerIInv, Typed, Guarded, NoLostProcess, Slots, Targets, Allocated, WithCand,
      SlotEmpty, OldInSlot, NewInSlot, Spawn
<1>9. Files'
  BY <1>1, <1>2, <1>3, <1>4, NoneFields
  DEF ManagerIInv, Typed, SlotsTyped, HostTyped, Epochs, Slots, Targets, Allocated, OldInSlot,
      NewInSlot, SlotEmpty, Planned, Written, Compensated, ReconcileOnly, Files, Carries,
      WithCand, Spawn
<1>10. Shown' /\ CleanAbort'
  BY <1>1, <1>2, <1>3, <1>4, NoneFields
  DEF ManagerIInv, Typed, SlotsTyped, Slots, Targets, Resting, Shown, CleanAbort, Running,
      Carries, OldInSlot, NewInSlot, SlotEmpty, WithCand, Allocated, Planned, Spawn
<1> QED
  BY <1>5, <1>6, <1>7, <1>8, <1>9, <1>10 DEF ManagerIInv

(* Running is published before the candidate is installed.                 *)
LEMMA ReadyKeeps ==
  ASSUME ManagerIInv, Ready
  PROVE  ManagerIInv'
<1>1. tx' \in Transactions /\ Carries(tx') /\ tx'.plan = tx.plan /\ tx'.pc = "install"
  BY AtFields DEF Ready, ManagerIInv, Typed, TxTyped, Steps
<1>2. status' \in Statuses /\ status'.state = "Running" /\ status'.rev = tx.plan
  BY PublishFields DEF Ready, Transactions, ManagerIInv, Typed, SlotsTyped, HostTyped, TxTyped
<1>3. Typed'
  BY <1>1, <1>2, NoneFields
  DEF ManagerIInv, Typed, SlotsTyped, HostTyped, TxTyped, Epochs, Ready
<1>4. Slots'
  BY <1>1, <1>2, NoneFields
  DEF ManagerIInv, Typed, SlotsTyped, Slots, Allocated, SlotEmpty, OldInSlot, NewInSlot,
      WithCand, Targets, Planned, Carries, Ready
<1>5. Targets'
  BY <1>1, <1>2, NoneFields
  DEF ManagerIInv, Typed, SlotsTyped, Slots, Allocated, Targets, Planned, WithCand,
      GracefulOnly, OneSided, ReconcileOnly, OldInSlot, NewInSlot, Carries, Ready
<1>6. Guarded' /\ NoLostProcess'
  BY <1>1, <1>2, NoneFields
  DEF ManagerIInv, Typed, Guarded, NoLostProcess, Slots, Targets, Allocated, WithCand,
      SlotEmpty, OldInSlot, NewInSlot, Ready
<1>7. Files'
  BY <1>1, <1>2, NoneFields
  DEF ManagerIInv, Typed, SlotsTyped, HostTyped, Epochs, Slots, Targets, Allocated, OldInSlot,
      NewInSlot, SlotEmpty, Planned, Written, Compensated, ReconcileOnly, Files, Carries,
      WithCand, Ready
<1>8. Shown' /\ CleanAbort'
  BY <1>1, <1>2, NoneFields
  DEF ManagerIInv, Typed, SlotsTyped, Slots, Targets, Resting, Shown, CleanAbort, Running,
      Carries, OldInSlot, NewInSlot, SlotEmpty, WithCand, Allocated, Planned, Ready
<1> QED
  BY <1>3, <1>4, <1>5, <1>6, <1>7, <1>8 DEF ManagerIInv

(* A candidate that is not ready is stopped, and latched if in doubt.      *)
LEMMA NotReadyKeeps ==
  ASSUME ManagerIInv, NEW outcome \in StopOutcomes, NEW restored \in BOOLEAN, NotReady(outcome, restored)
  PROVE  ManagerIInv'
<1>1. tx' \in Transactions /\ Carries(tx') /\ tx'.pc = "tail" /\ tx'.result = "err"
  BY FailsFields DEF NotReady, ManagerIInv, Typed, SlotsTyped, HostTyped, TxTyped
<1>2. /\ strays' \subseteq Epochs /\ quarantine' \subseteq Entries /\ NoLostProcess'
      /\ \A q \in quarantine' : q.epoch = cand.plan.epoch
      /\ outcome = "dead" => quarantine' = {}
  <2>1. /\ cand.plan.epoch \in Epochs /\ quarantine = {}
        /\ \/ outcome # "unconfirmed" /\ quarantine' = quarantine
           \/ quarantine' = Record(quarantine, cand.plan.epoch)
        /\ outcome = "dead" => quarantine' = {}
    <3>1. tx.pc \notin {"idle", "tail", "stopping"} /\ Allocated(cand.plan)
      BY DEF NotReady, ManagerIInv, Slots, OldInSlot, WithCand
    <3>2. cand.plan.epoch \in Epochs /\ quarantine = {}
      BY <3>1, AllocatedEpoch DEF ManagerIInv, Typed, SlotsTyped, Guarded
    <3> QED
      BY <3>2
      DEF NotReady, Latch, ManagerIInv, Targets, WithCand, Slots, OldInSlot, StopOutcomes
  <2> QED
    BY <2>1, RetireFields DEF NotReady, ManagerIInv, Typed
<1>3. disk' \in [Epochs -> Contents]
  BY CleanedFields DEF NotReady, ManagerIInv, Typed, SlotsTyped, HostTyped, TxTyped
<1>4. status' \in Statuses /\ status'.state = "Stopped"
  BY TerminalFields DEF NotReady, Latch
<1>5. Typed'
  BY <1>1, <1>2, <1>3, <1>4, NoneFields
  DEF ManagerIInv, Typed, SlotsTyped, HostTyped, TxTyped, Epochs, NotReady
<1>6. Slots'
  BY <1>1, <1>2, <1>3, <1>4, NoneFields
  DEF ManagerIInv, Typed, SlotsTyped, Slots, Allocated, SlotEmpty, OldInSlot, NewInSlot,
      WithCand, Targets, Planned, Carries, NotReady
<1>7. Targets'
  BY <1>1, <1>2, <1>3, <1>4, NoneFields
  DEF ManagerIInv, Typed, SlotsTyped, Slots, Allocated, Targets, Planned, WithCand,
      GracefulOnly, OneSided, ReconcileOnly, OldInSlot, NewInSlot, Carries, NotReady
<1>8. Guarded' /\ NoLostProcess'
  BY <1>1, <1>2, <1>3, <1>4, NoneFields
  DEF ManagerIInv, Typed, Guarded, NoLostProcess, Slots, Targets, Allocated, WithCand,
      SlotEmpty, OldInSlot, NewInSlot, NotReady
<1>9. Files'
  BY <1>1, <1>2, <1>3, <1>4, NoneFields
  DEF ManagerIInv, Typed, SlotsTyped, HostTyped, Epochs, Slots, Targets, Allocated, OldInSlot,
      NewInSlot, SlotEmpty, Planned, Written, Compensated, ReconcileOnly, Files, Carries,
      WithCand, NotReady
<1>10. Shown' /\ CleanAbort'
  BY <1>1, <1>2, <1>3, <1>4, NoneFields
  DEF ManagerIInv, Typed, SlotsTyped, Slots, Targets, Resting, Shown, CleanAbort, Running,
      Carries, OldInSlot, NewInSlot, SlotEmpty, WithCand, Allocated, Planned, NotReady
<1> QED
  BY <1>5, <1>6, <1>7, <1>8, <1>9, <1>10 DEF ManagerIInv

(* The candidate takes the slot it was launched for.                       *)
LEMMA InstallKeeps ==
  ASSUME ManagerIInv, Install
  PROVE  ManagerIInv'
<1>1. current' \in Instances /\ current'.plan = cand.plan /\ cand' = None
  BY InstalledFields DEF Install, ManagerIInv, Typed, SlotsTyped, HostTyped, TxTyped
<1>2. /\ tx' \in Transactions /\ Carries(tx') /\ tx'.plan = tx.plan
      /\ IF tx.graceful THEN tx'.pc = "cleanold"
         ELSE /\ tx'.pc = "tail" /\ tx'.result \in {"ok", "RolledBack"}
              /\ tx'.result = "RolledBack" => tx.plan = tx.old
  BY AtFields, SucceedsFields
  DEF Install, Outcome, Steps, ManagerIInv, Typed, SlotsTyped, HostTyped, TxTyped
<1>3. Typed'
  BY <1>1, <1>2, NoneFields
  DEF ManagerIInv, Typed, SlotsTyped, HostTyped, TxTyped, Epochs, Install
<1>4. Slots'
  BY <1>1, <1>2, NoneFields
  DEF ManagerIInv, Typed, SlotsTyped, Slots, Allocated, SlotEmpty, OldInSlot, NewInSlot,
      WithCand, Targets, Planned, Carries, Install
<1>5. Targets'
  BY <1>1, <1>2, NoneFields
  DEF ManagerIInv, Typed, SlotsTyped, Slots, Allocated, Targets, Planned, WithCand,
      GracefulOnly, OneSided, ReconcileOnly, OldInSlot, NewInSlot, Carries, Install
<1>6. Guarded' /\ NoLostProcess'
  BY <1>1, <1>2, NoneFields
  DEF ManagerIInv, Typed, Guarded, NoLostProcess, Slots, Targets, Allocated, WithCand,
      SlotEmpty, OldInSlot, NewInSlot, Install
<1>7. Files'
  BY <1>1, <1>2, NoneFields
  DEF ManagerIInv, Typed, SlotsTyped, HostTyped, Epochs, Slots, Targets, Allocated, OldInSlot,
      NewInSlot, SlotEmpty, Planned, Written, Compensated, ReconcileOnly, Files, Carries,
      WithCand, Install
<1>8. Shown' /\ CleanAbort'
  BY <1>1, <1>2, NoneFields
  DEF ManagerIInv, Typed, SlotsTyped, Slots, Targets, Resting, Shown, CleanAbort, Running,
      Carries, OldInSlot, NewInSlot, SlotEmpty, WithCand, Allocated, Planned, Install
<1> QED
  BY <1>3, <1>4, <1>5, <1>6, <1>7, <1>8 DEF ManagerIInv

(***************************************************************************)
(* stop and shutdown                                                       *)
(***************************************************************************)
(* The slot is emptied into the transaction; or DNS refused, and it is not.*)
LEMMA StopCurrentKeeps ==
  ASSUME ManagerIInv, NEW kind \in {"stop", "shutdown"}, NEW ok \in BOOLEAN, StopCurrent(kind, ok)
  PROVE  ManagerIInv'
<1>1. /\ tx' \in Transactions /\ tx'.kind = kind /\ tx'.begin = current /\ tx'.old = current.plan
      /\ ~tx'.graceful /\ tx'.pc = IF ok THEN "stopping" ELSE "idle"
  <2> DEFINE c == current.plan.cfg
             r(p) == Begin(kind, c, p)
             e == [r("idle") EXCEPT !.result = "err", !.dnsFailed = TRUE]
  <2>1. kind \in Calls /\ c \in Targetable /\ current \in Instances /\ {"idle", "stopping"} \subseteq Steps
    BY DEF Calls, Targetable, Steps, Instances, EpochPlans, ManagerIInv, Typed, SlotsTyped
  <2> HIDE DEF c
  <2>2. \A p \in {"idle", "stopping"} :
          /\ r(p) \in Transactions /\ r(p).pc = p /\ r(p).kind = kind /\ r(p).old = current.plan
          /\ r(p).begin = current /\ ~r(p).graceful
    BY <2>1, BeginFields
  <2>3. /\ r("idle") \in Transactions /\ r("idle").pc = "idle" /\ r("idle").kind = kind
        /\ r("idle").old = current.plan /\ r("idle").begin = current /\ ~r("idle").graceful
    BY <2>2
  <2>4. tx' = IF ok THEN r("stopping") ELSE e
    BY DEF StopCurrent, c
  <2> HIDE DEF r
  <2>5. /\ e \in Transactions /\ e.pc = "idle" /\ e.kind = kind /\ e.old = current.plan
        /\ e.begin = current /\ ~e.graceful
    BY <2>3 DEF Transactions
  <2> HIDE DEF e
  <2> QED
    BY <2>2, <2>4, <2>5
<1>2. IF ok THEN /\ current' = None /\ cand' \in Instances /\ cand'.plan = current.plan
            ELSE current' = current /\ cand' = cand
  BY DEF StopCurrent, Instances, ManagerIInv, Typed, SlotsTyped, HostTyped, TxTyped
<1>3. IF ok THEN /\ status' \in Statuses
                 /\ kind = "stop" /\ ~current.alive => status'.state = "Stopped"
            ELSE status' = status
  <2>1. current.plan \in EpochPlans
    BY DEF ManagerIInv, Typed, SlotsTyped, Instances
  <2> QED
    BY <2>1, PublishFields DEF StopCurrent
<1>4. Typed'
  BY <1>1, <1>2, <1>3, NoneFields
  DEF ManagerIInv, Typed, SlotsTyped, HostTyped, TxTyped, Epochs, StopCurrent
<1>5. Slots'
  BY <1>1, <1>2, <1>3, NoneFields
  DEF ManagerIInv, Typed, SlotsTyped, Slots, Allocated, SlotEmpty, OldInSlot, NewInSlot,
      WithCand, Targets, Planned, Carries, StopCurrent
<1>6. Targets'
  BY <1>1, <1>2, <1>3, NoneFields
  DEF ManagerIInv, Typed, SlotsTyped, Slots, Allocated, Targets, Planned, WithCand,
      GracefulOnly, OneSided, ReconcileOnly, OldInSlot, NewInSlot, Carries, StopCurrent
<1>7. Guarded' /\ NoLostProcess'
  BY <1>1, <1>2, <1>3, NoneFields
  DEF ManagerIInv, Typed, Guarded, NoLostProcess, Slots, Targets, Allocated, WithCand,
      SlotEmpty, OldInSlot, NewInSlot, StopCurrent
<1>8. Files'
  BY <1>1, <1>2, <1>3, NoneFields
  DEF ManagerIInv, Typed, SlotsTyped, HostTyped, Epochs, Slots, Targets, Allocated, OldInSlot,
      NewInSlot, SlotEmpty, Planned, Written, Compensated, ReconcileOnly, Files, Carries,
      WithCand, StopCurrent
<1>9. Shown' /\ CleanAbort'
  BY <1>1, <1>2, <1>3, NoneFields
  DEF ManagerIInv, Typed, SlotsTyped, Slots, Targets, Resting, Shown, CleanAbort, Running,
      Carries, OldInSlot, NewInSlot, SlotEmpty, WithCand, Allocated, Planned, StopCurrent
<1> QED
  BY <1>4, <1>5, <1>6, <1>7, <1>8, <1>9 DEF ManagerIInv

(* With an empty slot only the override is touched.                        *)
LEMMA StopNothingKeeps ==
  ASSUME ManagerIInv, NEW ok \in BOOLEAN, StopNothing(ok)
  PROVE  ManagerIInv'
<1>1. Typed'
  BY NoneFields
  DEF ManagerIInv, Typed, SlotsTyped, HostTyped, TxTyped, Epochs, StopNothing
<1>2. Slots'
  BY NoneFields
  DEF ManagerIInv, Typed, SlotsTyped, Slots, Allocated, SlotEmpty, OldInSlot, NewInSlot,
      WithCand, Targets, Planned, Carries, StopNothing
<1>3. Targets'
  BY NoneFields
  DEF ManagerIInv, Typed, SlotsTyped, Slots, Allocated, Targets, Planned, WithCand,
      GracefulOnly, OneSided, ReconcileOnly, OldInSlot, NewInSlot, Carries, StopNothing
<1>4. Guarded' /\ NoLostProcess'
  BY NoneFields
  DEF ManagerIInv, Typed, Guarded, NoLostProcess, Slots, Targets, Allocated, WithCand,
      SlotEmpty, OldInSlot, NewInSlot, StopNothing
<1>5. Files'
  BY NoneFields
  DEF ManagerIInv, Typed, SlotsTyped, HostTyped, Epochs, Slots, Targets, Allocated, OldInSlot,
      NewInSlot, SlotEmpty, Planned, Written, Compensated, ReconcileOnly, Files, Carries,
      WithCand, StopNothing
<1>6. Shown' /\ CleanAbort'
  BY NoneFields
  DEF ManagerIInv, Typed, SlotsTyped, Slots, Targets, Resting, Shown, CleanAbort, Running,
      Carries, OldInSlot, NewInSlot, SlotEmpty, WithCand, Allocated, Planned, StopNothing
<1> QED
  BY <1>1, <1>2, <1>3, <1>4, <1>5, <1>6 DEF ManagerIInv

(* The end of a stop.  It may run under a quarantine, which is never about  *)
(* the epoch it stops.                                                     *)
LEMMA StoppingKeeps ==
  ASSUME ManagerIInv, NEW outcome \in StopOutcomes, NEW cleaned \in BOOLEAN, Stopping(outcome, cleaned)
  PROVE  ManagerIInv'
<1>1. tx' \in Transactions /\ tx'.pc = "idle"
  <2>1. PICK r \in {"ok", "err"} :
          tx' = [Idle EXCEPT !.kind = tx.kind, !.died = tx.died, !.result = r]
    BY DEF Stopping
  <2> QED
    BY <2>1, IdleFields DEF Transactions, ManagerIInv, Typed, SlotsTyped, HostTyped, TxTyped
<1>2. /\ strays' \subseteq Epochs /\ quarantine' \subseteq Entries /\ NoLostProcess'
      /\ \A q \in quarantine' : q \in quarantine \/ q.epoch = cand.plan.epoch
  <2>1. /\ cand.plan.epoch \in Epochs /\ \A q \in quarantine : q.epoch # cand.plan.epoch
        /\ \/ outcome # "unconfirmed" /\ quarantine' = quarantine
           \/ quarantine' = Record(quarantine, cand.plan.epoch)
    <3>1. Allocated(cand.plan) /\ epochs \in 0 .. MaxEpochs
      BY DEF Stopping, ManagerIInv, Typed, SlotsTyped, Slots, WithCand
    <3> QED
      BY <3>1, AllocatedEpoch DEF Stopping, Latch, ManagerIInv, Guarded
  <2> QED
    BY <2>1, RetireFields DEF Stopping, ManagerIInv, Typed
<1>3. disk' \in [Epochs -> Contents]
  BY CleanedFields DEF Stopping, ManagerIInv, Typed, SlotsTyped, HostTyped, TxTyped
<1>4. status' \in Statuses /\ status'.state = "Stopped"
  <2>1. CASE outcome = "unconfirmed"
    BY <2>1, TerminalFields DEF Stopping, Latch
  <2>2. CASE outcome # "unconfirmed"
    BY <2>2, TerminalFields
    DEF Stopping, Shown, ManagerIInv, Typed, SlotsTyped, HostTyped, TxTyped
  <2> QED
    BY <2>1, <2>2
<1>5. Typed'
  BY <1>1, <1>2, <1>3, <1>4, NoneFields
  DEF ManagerIInv, Typed, SlotsTyped, HostTyped, TxTyped, Epochs, Stopping
<1>6. Slots'
  BY <1>1, <1>2, <1>3, <1>4, NoneFields
  DEF ManagerIInv, Typed, SlotsTyped, Slots, Allocated, SlotEmpty, OldInSlot, NewInSlot,
      WithCand, Targets, Planned, Carries, Stopping
<1>7. Targets'
  BY <1>1, <1>2, <1>3, <1>4, NoneFields
  DEF ManagerIInv, Typed, SlotsTyped, Slots, Allocated, Targets, Planned, WithCand,
      GracefulOnly, OneSided, ReconcileOnly, OldInSlot, NewInSlot, Carries, Stopping
<1>8. Guarded' /\ NoLostProcess'
  BY <1>1, <1>2, <1>3, <1>4, NoneFields
  DEF ManagerIInv, Typed, Guarded, NoLostProcess, Slots, Targets, Allocated, WithCand,
      SlotEmpty, OldInSlot, NewInSlot, Stopping
<1>9. Files'
  BY <1>1, <1>2, <1>3, <1>4, NoneFields
  DEF ManagerIInv, Typed, SlotsTyped, HostTyped, Epochs, Slots, Targets, Allocated, OldInSlot,
      NewInSlot, SlotEmpty, Planned, Written, Compensated, ReconcileOnly, Files, Carries,
      WithCand, Stopping
<1>10. Shown' /\ CleanAbort'
  BY <1>1, <1>2, <1>3, <1>4, NoneFields
  DEF ManagerIInv, Typed, SlotsTyped, Slots, Targets, Resting, Shown, CleanAbort, Running,
      Carries, OldInSlot, NewInSlot, SlotEmpty, WithCand, Allocated, Planned, Stopping
<1> QED
  BY <1>5, <1>6, <1>7, <1>8, <1>9, <1>10 DEF ManagerIInv

(***************************************************************************)
(* switch_locked with a running core                                       *)
(***************************************************************************)
(* EnterSwitch begins with the running core in the slot.                   *)
LEMMA EnterSwitchKeeps ==
  ASSUME ManagerIInv, NEW c \in Configs, NEW graceful \in BOOLEAN, EnterSwitch(c, graceful)
  PROVE  ManagerIInv'
<1>1. /\ tx' \in Transactions /\ tx'.pc = "sprepare" /\ tx'.kind = "switch"
      /\ tx'.old = current.plan /\ tx'.begin = current
  <2> DEFINE r == Begin("switch", c, "sprepare")
  <2>1. "switch" \in Calls /\ c \in Targetable /\ current \in Instances /\ "sprepare" \in Steps
    BY DEF Calls, Targetable, Steps, ManagerIInv, Typed, SlotsTyped
  <2>2. /\ r \in Transactions /\ r.pc = "sprepare" /\ r.kind = "switch"
        /\ r.old = current.plan /\ r.begin = current
    BY <2>1, BeginFields
  <2>3. tx' = [r EXCEPT !.graceful = graceful]
    BY DEF EnterSwitch
  <2> HIDE DEF r
  <2> QED
    BY <2>2, <2>3 DEF Transactions
<1>2. Allocated(current.plan)
  BY DEF EnterSwitch, ManagerIInv, Slots, Running
<1>3. Typed'
  BY <1>1, <1>2, NoneFields
  DEF ManagerIInv, Typed, SlotsTyped, HostTyped, TxTyped, Epochs, EnterSwitch
<1>4. Slots'
  BY <1>1, <1>2, NoneFields
  DEF ManagerIInv, Typed, SlotsTyped, Slots, Allocated, SlotEmpty, OldInSlot, NewInSlot,
      WithCand, Targets, Planned, Carries, EnterSwitch
<1>5. Targets'
  BY <1>1, <1>2, NoneFields
  DEF ManagerIInv, Typed, SlotsTyped, Slots, Allocated, Targets, Planned, WithCand,
      GracefulOnly, OneSided, ReconcileOnly, OldInSlot, NewInSlot, Carries, EnterSwitch
<1>6. Guarded' /\ NoLostProcess'
  BY <1>1, <1>2, NoneFields
  DEF ManagerIInv, Typed, Guarded, NoLostProcess, Slots, Targets, Allocated, WithCand,
      SlotEmpty, OldInSlot, NewInSlot, EnterSwitch
<1>7. Files'
  BY <1>1, <1>2, NoneFields
  DEF ManagerIInv, Typed, SlotsTyped, HostTyped, Epochs, Slots, Targets, Allocated, OldInSlot,
      NewInSlot, SlotEmpty, Planned, Written, Compensated, ReconcileOnly, Files, Carries,
      WithCand, EnterSwitch
<1>8. Shown' /\ CleanAbort'
  BY <1>1, <1>2, NoneFields
  DEF ManagerIInv, Typed, SlotsTyped, Slots, Targets, Resting, Shown, CleanAbort, Running,
      Carries, OldInSlot, NewInSlot, SlotEmpty, WithCand, Allocated, Planned, EnterSwitch
<1> QED
  BY <1>3, <1>4, <1>5, <1>6, <1>7, <1>8 DEF ManagerIInv

(* The epoch is allocated; what fails here leaves the old core on show.    *)
LEMMA SwitchPrepareKeeps ==
  ASSUME ManagerIInv, NEW prepared \in BOOLEAN, NEW ok \in BOOLEAN, NEW undone \in BOOLEAN, SwitchPrepare(prepared, ok, undone)
  PROVE  ManagerIInv'
<1>1. epochs' = epochs + 1 /\ epochs + 1 \in Epochs /\ epochs \in Nat /\ tx.plan \in EpochPlans
  BY ManagerAssumption
  DEF SwitchPrepare, Transactions, Epochs, ManagerIInv, Typed, SlotsTyped, HostTyped, TxTyped
<1>2. /\ tx' \in Transactions /\ Carries(tx')
      /\ IF prepared /\ ok THEN /\ tx'.pc = IF tx.graceful THEN "gspawn" ELSE "hretire"
                                /\ tx'.plan.epoch = epochs + 1 /\ tx'.plan.cfg = tx.plan.cfg
                                /\ status' \in Statuses
         ELSE tx'.pc = "tail" /\ tx'.result = "err" 
  <2> DEFINE q == Plan(epochs + 1, 1, tx.plan.cfg)
             p == IF tx.graceful THEN "gspawn" ELSE "hretire"
             r == [tx EXCEPT !.pc = p, !.plan = q]
  <2>1. q \in EpochPlans /\ q.epoch = epochs + 1 /\ q.cfg = tx.plan.cfg
    BY <1>1, ManagerAssumption DEF Plan, EpochPlans, Epochs
  <2>2. p \in Steps /\ tx \in Transactions
    BY DEF Steps, ManagerIInv, Typed, TxTyped
  <2>3. prepared /\ ok => tx' = r /\ Publish("Switching", q)
    BY DEF SwitchPrepare
  <2>4. ~(prepared /\ ok) => \E b \in BOOLEAN : tx' = Fails(b)
    <3>1. (ok /\ undone) \in BOOLEAN
      BY Zenon
    <3> QED
      BY <3>1 DEF SwitchPrepare
  <2>5. CASE prepared /\ ok
    <3> HIDE DEF q
    <3>1. status' \in Statuses
      BY <2>1, <2>3, <2>5, PublishFields
    <3> HIDE DEF p
    <3>2. r \in Transactions /\ r.pc = p /\ r.plan = q /\ Carries(r)
      BY <2>1, <2>2, TargetFields
    <3> HIDE DEF r
    <3> QED
      BY <2>1, <2>3, <2>5, <3>1, <3>2 DEF p
  <2>6. CASE ~(prepared /\ ok)
    BY <2>2, <2>4, <2>6, FailsFields
  <2> QED
    BY <2>5, <2>6
<1>3. IF prepared /\ ok THEN /\ disk' \in [Epochs -> Contents]
                             /\ ~tx.graceful => disk'[epochs + 1] = tx.plan.cfg
                             /\ \A x \in Epochs : x # epochs + 1 => disk'[x] = disk[x]
                        ELSE disk' = disk
  <2>1. CASE prepared /\ ok
    <3>1. Plan(epochs + 1, 1, tx.plan.cfg).epoch = epochs + 1 /\ Plan(epochs + 1, 1, tx.plan.cfg).cfg = tx.plan.cfg
      BY DEF Plan
    <3>2. PICK c \in Contents : disk' = [disk EXCEPT ![epochs + 1] = c] /\ (~tx.graceful => c = tx.plan.cfg)
      BY <1>1, <2>1, <3>1 DEF SwitchPrepare, EpochPlans, Contents
    <3> QED
      BY <1>1, <2>1, <3>2, WrittenFields DEF ManagerIInv, Typed, HostTyped
  <2>2. CASE ~(prepared /\ ok)
    BY <2>2 DEF SwitchPrepare
  <2> QED
    BY <2>1, <2>2
<1>4. ~(prepared /\ ok) =>
        /\ status' \in Statuses /\ status'.rev = current.plan
        /\ status'.state = IF current.alive THEN "Running" ELSE "Stopped"
  <2>1. current # None
    BY NoneFields DEF SwitchPrepare, ManagerIInv, Slots, Allocated, OldInSlot
  <2> QED
    BY <2>1, RetainedFields DEF SwitchPrepare, ManagerIInv
<1>5. /\ current' = current /\ cand' = None /\ current.plan = tx.old /\ tx.old = tx.begin.plan
      /\ current # None /\ tx.old.epoch \in 1 .. epochs /\ tx.old.epoch \in 1 .. epochs + 1
      /\ tx.old.epoch # epochs + 1 /\ tx.old.epoch \in Epochs
  <2>1. tx.pc = "sprepare" /\ current' = current /\ cand' = cand
    BY DEF SwitchPrepare
  <2>2. /\ cand = None /\ current.plan = tx.old /\ tx.old = tx.begin.plan /\ current # None
        /\ tx.old.epoch \in 1 .. epochs /\ tx.old.epoch \in Epochs
    BY <2>1, EpochFacts DEF ManagerIInv, Slots, Targets, OldInSlot, WithCand, Allocated
  <2> QED
    BY <1>1, <2>1, <2>2
<1>6. Typed'
  BY <1>1, <1>2, <1>3, <1>4, <1>5, NoneFields
  DEF ManagerIInv, Typed, SlotsTyped, HostTyped, TxTyped, Epochs, SwitchPrepare
<1>7. Slots'
  BY <1>1, <1>2, <1>5, NoneFields
  DEF Slots, Allocated, WithCand, OldInSlot, NewInSlot, SlotEmpty, Carries
<1>8. Targets'
  BY <1>1, <1>2, <1>3, <1>4, <1>5, NoneFields
  DEF ManagerIInv, Typed, SlotsTyped, Slots, Allocated, Targets, Planned, WithCand,
      GracefulOnly, OneSided, ReconcileOnly, OldInSlot, NewInSlot, Carries, SwitchPrepare
<1>9. Guarded' /\ NoLostProcess'
  BY <1>1, <1>2, <1>3, <1>4, <1>5, NoneFields
  DEF ManagerIInv, Typed, Guarded, NoLostProcess, Slots, Targets, Allocated, WithCand,
      SlotEmpty, OldInSlot, NewInSlot, SwitchPrepare
<1>10. Files'
  <2>1. disk[tx.old.epoch] = tx.old.cfg
    BY <1>5 DEF SwitchPrepare, ManagerIInv, Files
  <2>2. disk'[tx.old.epoch] = tx.old.cfg
    BY <2>1, <1>3, <1>5
  <2> QED
    BY <1>1, <1>2, <1>3, <1>5, <2>2 DEF Files, Written, Compensated, Carries
<1>11. Shown' /\ CleanAbort'
  BY <1>1, <1>2, <1>3, <1>4, <1>5, NoneFields
  DEF ManagerIInv, Typed, SlotsTyped, Slots, Targets, Resting, Shown, CleanAbort, Running,
      Carries, OldInSlot, NewInSlot, SlotEmpty, WithCand, Allocated, Planned, SwitchPrepare
<1> QED
  BY <1>6, <1>7, <1>8, <1>9, <1>10, <1>11 DEF ManagerIInv

(* The old core goes first.                                                *)
LEMMA HardRetireKeeps ==
  ASSUME ManagerIInv, NEW outcome \in StopOutcomes, NEW cleaned \in BOOLEAN, HardRetire(outcome, cleaned)
  PROVE  ManagerIInv'
<1>1. /\ tx' \in Transactions /\ Carries(tx') /\ tx'.plan = tx.plan
      /\ IF outcome = "dead" /\ cleaned THEN tx'.pc = "launch"
         ELSE tx'.pc = "tail" /\ tx'.result = "err"
  <2>1. CASE outcome = "dead" /\ cleaned
    BY <2>1, AtFields DEF HardRetire, Steps, ManagerIInv, Typed, TxTyped
  <2>2. CASE ~(outcome = "dead" /\ cleaned)
    <3>1. tx' = Fails(TRUE)
      BY <2>2 DEF HardRetire, StopOutcomes
    <3> QED
      BY <2>2, <3>1, FailsFields DEF ManagerIInv, Typed, TxTyped
  <2> QED
    BY <2>1, <2>2
<1>2. /\ strays' \subseteq Epochs /\ quarantine' \subseteq Entries /\ NoLostProcess'
      /\ \A q \in quarantine' : q.epoch = current.plan.epoch
      /\ outcome = "dead" => quarantine' = {}
  <2>1. /\ current.plan.epoch \in Epochs /\ quarantine = {}
        /\ \/ outcome # "unconfirmed" /\ quarantine' = quarantine
           \/ quarantine' = Record(quarantine, current.plan.epoch)
        /\ outcome = "dead" => quarantine' = {}
    <3>1. tx.pc \notin {"idle", "tail", "stopping"} /\ Allocated(current.plan)
      BY DEF HardRetire, ManagerIInv, Slots, OldInSlot, WithCand
    <3>2. current.plan.epoch \in Epochs /\ quarantine = {}
      BY <3>1, AllocatedEpoch DEF ManagerIInv, Typed, SlotsTyped, Guarded
    <3> QED
      BY <3>2
      DEF HardRetire, Latch, ManagerIInv, Targets, WithCand, Slots, OldInSlot, StopOutcomes
  <2> QED
    BY <2>1, RetireFields DEF HardRetire, ManagerIInv, Typed
<1>3. /\ disk' \in [Epochs -> Contents]
      /\ outcome = "dead" /\ cleaned => \A x \in Epochs : x # tx.old.epoch => disk'[x] = disk[x]
  <2>1. CASE outcome = "dead" /\ cleaned
    BY <2>1, CleanedFields DEF HardRetire, ManagerIInv, Typed, HostTyped
  <2>2. CASE ~(outcome = "dead" /\ cleaned)
    <3>1. disk' = disk \/ disk' = Cleaned(disk, tx.plan.epoch)
      BY <2>2 DEF HardRetire, StopOutcomes
    <3> QED
      BY <2>2, <3>1, CleanedFields DEF ManagerIInv, Typed, HostTyped
  <2> QED
    BY <2>1, <2>2
<1>4. IF outcome = "dead" /\ cleaned THEN status' = status
      ELSE status' \in Statuses /\ status'.state = "Stopped"
  BY TerminalFields DEF HardRetire, Latch, StopOutcomes
<1>5. Typed'
  BY <1>1, <1>2, <1>3, <1>4, NoneFields
  DEF ManagerIInv, Typed, SlotsTyped, HostTyped, TxTyped, Epochs, HardRetire
<1>6. Slots'
  BY <1>1, <1>2, <1>3, <1>4, NoneFields
  DEF ManagerIInv, Typed, SlotsTyped, Slots, Allocated, SlotEmpty, OldInSlot, NewInSlot,
      WithCand, Targets, Planned, Carries, HardRetire
<1>7. Targets'
  BY <1>1, <1>2, <1>3, <1>4, NoneFields
  DEF ManagerIInv, Typed, SlotsTyped, Slots, Allocated, Targets, Planned, WithCand,
      GracefulOnly, OneSided, ReconcileOnly, OldInSlot, NewInSlot, Carries, HardRetire
<1>8. Guarded' /\ NoLostProcess'
  BY <1>1, <1>2, <1>3, <1>4, NoneFields
  DEF ManagerIInv, Typed, Guarded, NoLostProcess, Slots, Targets, Allocated, WithCand,
      SlotEmpty, OldInSlot, NewInSlot, HardRetire
<1>9. Files'
  <2>1. tx.plan.epoch \in Epochs /\ tx.plan.epoch # tx.old.epoch /\ disk[tx.plan.epoch] = tx.plan.cfg
    BY EpochFacts DEF HardRetire, ManagerIInv, Targets, Files, Planned, Written
  <2> QED
    BY <1>1, <1>3, <2>1 DEF HardRetire, Files, Written, Compensated
<1>10. Shown' /\ CleanAbort'
  BY <1>1, <1>2, <1>3, <1>4, NoneFields
  DEF ManagerIInv, Typed, SlotsTyped, Slots, Targets, Resting, Shown, CleanAbort, Running,
      Carries, OldInSlot, NewInSlot, SlotEmpty, WithCand, Allocated, Planned, HardRetire
<1> QED
  BY <1>5, <1>6, <1>7, <1>8, <1>9, <1>10 DEF ManagerIInv

(* The newcomer starts next to the old core.                               *)
LEMMA GracefulSpawnKeeps ==
  ASSUME ManagerIInv, NEW ok \in BOOLEAN, GracefulSpawn(ok)
  PROVE  ManagerIInv'
<1>1. /\ tx' \in Transactions /\ Carries(tx') /\ tx'.plan = tx.plan
      /\ IF ok THEN tx'.pc = "gready" ELSE tx'.pc = "tail" /\ tx'.result = "err"
  <2>1. tx \in Transactions /\ "gready" \in Steps
    BY DEF ManagerIInv, Typed, TxTyped, Steps
  <2>2. ok => tx' = At("gready")
    BY DEF GracefulSpawn
  <2>3. ~ok => tx' \in {Fails(FALSE), Fails(TRUE)}
    BY DEF GracefulSpawn
  <2> QED
    BY <2>1, <2>2, <2>3, AtFields, FailsFields
<1>2. IF ok THEN cand' \in Instances /\ cand'.plan = tx.plan ELSE cand' = cand
  BY LaunchedFields
  DEF GracefulSpawn, Transactions, ManagerIInv, Typed, SlotsTyped, HostTyped, TxTyped
<1>3. /\ disk' \in [Epochs -> Contents]
      /\ \A x \in Epochs : x # tx.plan.epoch => disk'[x] = disk[x]
  <2>1. disk' = disk \/ disk' = Cleaned(disk, tx.plan.epoch)
    BY DEF GracefulSpawn
  <2> QED
    BY <2>1, CleanedFields DEF ManagerIInv, Typed, HostTyped
<1>4. IF ok THEN status' = status
      ELSE /\ status' \in Statuses /\ status'.rev = current.plan
           /\ status'.state = IF current.alive THEN "Running" ELSE "Stopped"
  <2>1. current # None
    BY NoneFields DEF GracefulSpawn, ManagerIInv, Slots, Allocated, OldInSlot
  <2> QED
    BY <2>1, RetainedFields DEF GracefulSpawn, ManagerIInv
<1>5. /\ tx.pc = "gspawn" /\ current' = current /\ epochs' = epochs /\ cand = None
      /\ current.plan = tx.old /\ Allocated(current.plan) /\ current.plan.epoch \in Epochs
      /\ Allocated(tx.plan) /\ tx.plan.epoch # tx.old.epoch
  BY EpochFacts
  DEF GracefulSpawn, ManagerIInv, Slots, Targets, OldInSlot, WithCand, Planned, GracefulOnly
<1>6. Typed'
  BY <1>1, <1>2, <1>3, <1>4, <1>5, NoneFields
  DEF ManagerIInv, Typed, SlotsTyped, HostTyped, TxTyped, Epochs, GracefulSpawn
<1>7. Slots'
  BY <1>1, <1>2, <1>5, NoneFields
  DEF Slots, Allocated, WithCand, OldInSlot, NewInSlot, SlotEmpty, Carries
<1>8. Targets'
  BY <1>1, <1>2, <1>3, <1>4, <1>5, NoneFields
  DEF ManagerIInv, Typed, SlotsTyped, Slots, Allocated, Targets, Planned, WithCand,
      GracefulOnly, OneSided, ReconcileOnly, OldInSlot, NewInSlot, Carries, GracefulSpawn
<1>9. Guarded' /\ NoLostProcess'
  BY <1>1, <1>2, <1>3, <1>4, <1>5, NoneFields
  DEF ManagerIInv, Typed, Guarded, NoLostProcess, Slots, Targets, Allocated, WithCand,
      SlotEmpty, OldInSlot, NewInSlot, GracefulSpawn
<1>10. Files'
  <2>1. disk[current.plan.epoch] = current.plan.cfg
    BY <1>5, NoneFields DEF ManagerIInv, Files, Allocated
  <2> QED
    BY <1>1, <1>3, <1>5, <2>1 DEF Files, Written, Compensated
<1>11. Shown' /\ CleanAbort'
  BY <1>1, <1>2, <1>3, <1>4, <1>5, NoneFields
  DEF ManagerIInv, Typed, SlotsTyped, Slots, Targets, Resting, Shown, CleanAbort, Running,
      Carries, OldInSlot, NewInSlot, SlotEmpty, WithCand, Allocated, Planned, GracefulSpawn
<1> QED
  BY <1>6, <1>7, <1>8, <1>9, <1>10, <1>11 DEF ManagerIInv

(* The newcomer is rejected at gready or gdns: the old core keeps the slot *)
(* and is shown again, unless a quarantine hides it.                       *)
LEMMA RejectKeeps ==
  ASSUME ManagerIInv, tx.pc \in {"gready", "gdns"}, NEW outcome \in StopOutcomes,
         NEW b \in BOOLEAN, RejectNewcomer(outcome, b), UNCHANGED <<epochs, current>>
  PROVE  ManagerIInv'
<1>1. tx' \in Transactions /\ Carries(tx') /\ tx'.pc = "tail" /\ tx'.result = "err"
  BY FailsFields DEF RejectNewcomer, ManagerIInv, Typed, TxTyped
<1>2. /\ Allocated(current.plan) /\ Allocated(cand.plan) /\ cand.plan = tx.plan
      /\ current.plan = tx.old /\ tx.plan.epoch # tx.old.epoch /\ quarantine = {}
  BY DEF ManagerIInv, Slots, Targets, Guarded, WithCand, OldInSlot, GracefulOnly, Planned
<1>3. /\ strays' \subseteq Epochs /\ quarantine' \subseteq Entries /\ NoLostProcess'
      /\ \A q \in quarantine' : q.epoch = tx.plan.epoch
  <2>1. /\ cand.plan.epoch \in Epochs
        /\ \/ outcome # "unconfirmed" /\ quarantine' = quarantine
           \/ quarantine' = Record(quarantine, cand.plan.epoch)
    BY <1>2, AllocatedEpoch
    DEF RejectNewcomer, Latch, ManagerIInv, Typed, SlotsTyped, StopOutcomes
  <2> QED
    BY <1>2, <2>1, RetireFields DEF RejectNewcomer, ManagerIInv, Typed
<1>4. /\ disk' \in [Epochs -> Contents]
      /\ \A x \in Epochs : x # tx.plan.epoch => disk'[x] = disk[x]
  BY CleanedFields DEF RejectNewcomer, ManagerIInv, Typed, HostTyped
<1>5. /\ status' \in Statuses
      /\ \/ status'.state = "Stopped" /\ status'.note = "latched"
         \/ /\ status'.rev = current.plan
            /\ status'.state = IF current.alive THEN "Running" ELSE "Stopped"
  <2>1. CASE outcome = "dead"
    BY <1>2, <2>1, NoneFields, RetainedFields DEF RejectNewcomer, ManagerIInv, Allocated
  <2>2. CASE outcome # "dead"
    BY <2>2, NoneFields DEF RejectNewcomer, Latch, LatchedStatus, Statuses
  <2> QED
    BY <2>1, <2>2
<1>6. Typed'
  BY <1>1, <1>3, <1>4, <1>5, NoneFields
  DEF RejectNewcomer, ManagerIInv, Typed, SlotsTyped, HostTyped, TxTyped
<1>7. Slots' /\ Targets'
  BY <1>1, <1>2, NoneFields
  DEF RejectNewcomer, ManagerIInv, Slots, Targets, Allocated, WithCand, OldInSlot, NewInSlot,
      SlotEmpty, Planned,
      GracefulOnly, OneSided, ReconcileOnly, Carries
<1>8. Guarded'
  BY <1>1, <1>2, <1>3, NoneFields
  DEF RejectNewcomer, Guarded, Allocated, ManagerIInv, Typed, SlotsTyped
<1>9. Files'
  <2>1. current.plan.epoch \in Epochs
    BY <1>2, AllocatedEpoch DEF ManagerIInv, Typed, SlotsTyped
  <2> QED
    BY <1>1, <1>2, <1>4, <2>1 DEF ManagerIInv, Files, Written, Compensated
<1>10. Shown' /\ CleanAbort'
  BY <1>1, <1>2, <1>5, NoneFields
  DEF ManagerIInv, Shown, CleanAbort, Running, Resting, Carries, Allocated, Targets, Typed,
      SlotsTyped
<1> QED
  BY <1>3, <1>6, <1>7, <1>8, <1>9, <1>10 DEF ManagerIInv

(* The newcomer is up on its bootstrap config, or rejected.                *)
LEMMA GracefulReadyKeeps ==
  ASSUME ManagerIInv, NEW ok \in BOOLEAN, NEW outcome \in StopOutcomes, GracefulReady(ok, outcome)
  PROVE  ManagerIInv'
<1>1. CASE ok
  <2>1. tx' \in Transactions /\ Carries(tx') /\ tx'.plan = tx.plan /\ tx'.pc = "gdns"
    BY <1>1, AtFields DEF GracefulReady, Steps, ManagerIInv, Typed, TxTyped
  <2>2. UNCHANGED <<epochs, current, cand, strays, quarantine, disk, status>>
    BY <1>1 DEF GracefulReady
  <2>3. Typed' /\ Guarded' /\ NoLostProcess'
    BY <1>1, <2>1, <2>2
    DEF GracefulReady, ManagerIInv, Typed, SlotsTyped, HostTyped, TxTyped, Guarded,
        NoLostProcess
  <2>4. Slots' /\ Targets'
    BY <1>1, <2>1, <2>2
    DEF GracefulReady, ManagerIInv, Slots, Targets, Allocated, WithCand, OldInSlot, NewInSlot,
        SlotEmpty, Planned,
        GracefulOnly, OneSided, ReconcileOnly, Carries
  <2>5. Files' /\ Shown' /\ CleanAbort'
    BY <1>1, <2>1, <2>2
    DEF GracefulReady, ManagerIInv, Files, Written, Compensated, Shown, Resting, CleanAbort
  <2> QED
    BY <2>3, <2>4, <2>5 DEF ManagerIInv
<1>2. CASE ~ok
  BY <1>2, RejectKeeps DEF GracefulReady
<1> QED
  BY <1>1, <1>2

(* The override is given up for the newcomer, or the newcomer for it.      *)
LEMMA GracefulDnsKeeps ==
  ASSUME ManagerIInv, NEW ok \in BOOLEAN, NEW outcome \in StopOutcomes, GracefulDns(ok, outcome)
  PROVE  ManagerIInv'
<1>1. CASE ok
  <2>1. tx' \in Transactions /\ Carries(tx') /\ tx'.plan = tx.plan /\ tx'.pc = "gretire"
    BY <1>1, AtFields DEF GracefulDns, Steps, ManagerIInv, Typed, TxTyped
  <2>2. UNCHANGED <<epochs, current, cand, strays, quarantine, disk, status>>
    BY <1>1 DEF GracefulDns
  <2>3. Typed' /\ Guarded' /\ NoLostProcess'
    BY <1>1, <2>1, <2>2
    DEF GracefulDns, ManagerIInv, Typed, SlotsTyped, HostTyped, TxTyped, Guarded, NoLostProcess
  <2>4. Slots' /\ Targets'
    BY <1>1, <2>1, <2>2
    DEF GracefulDns, ManagerIInv, Slots, Targets, Allocated, WithCand, OldInSlot, NewInSlot,
        SlotEmpty, Planned,
        GracefulOnly, OneSided, ReconcileOnly, Carries
  <2>5. Files' /\ Shown' /\ CleanAbort'
    BY <1>1, <2>1, <2>2
    DEF GracefulDns, ManagerIInv, Files, Written, Compensated, Shown, Resting, CleanAbort
  <2> QED
    BY <2>3, <2>4, <2>5 DEF ManagerIInv
<1>2. CASE ~ok
  BY <1>2, RejectKeeps DEF GracefulDns
<1> QED
  BY <1>1, <1>2

(* The old core goes, and if its end is in doubt the newcomer goes too: up *)
(* to two epochs are latched at once.                                      *)
LEMMA GracefulRetireKeeps ==
  ASSUME ManagerIInv, NEW outcome \in StopOutcomes, NEW new \in StopOutcomes,
         GracefulRetire(outcome, new)
  PROVE  ManagerIInv'
<1>1. /\ Allocated(current.plan) /\ Allocated(cand.plan) /\ cand.plan = tx.plan /\ tx.graceful
      /\ current.plan = tx.old /\ tx.plan.epoch # tx.old.epoch /\ quarantine = {}
      /\ tx.kind = "switch" /\ tx.old = tx.begin.plan
  BY
  DEF GracefulRetire, ManagerIInv, Slots, Targets, Guarded, WithCand, OldInSlot, GracefulOnly,
      Planned
<1>2. CASE outcome = "dead"
  <2>1. tx' \in Transactions /\ Carries(tx') /\ tx'.plan = tx.plan /\ tx'.pc = "gcommit"
    BY <1>2, AtFields DEF GracefulRetire, Steps, ManagerIInv, Typed, TxTyped
  <2>2. UNCHANGED <<epochs, cand, strays, quarantine, disk, status>> /\ current' = None
    BY <1>2 DEF GracefulRetire
  <2>3. Typed' /\ Guarded' /\ NoLostProcess'
    BY <1>1, <2>1, <2>2, NoneFields
    DEF ManagerIInv, Typed, SlotsTyped, HostTyped, TxTyped, Guarded, NoLostProcess
  <2>4. Slots' /\ Targets'
    BY <1>1, <2>1, <2>2
    DEF Slots, Targets, Allocated, WithCand, OldInSlot, NewInSlot, SlotEmpty, Planned,
        GracefulOnly, OneSided, ReconcileOnly, Carries
  <2>5. Files' /\ Shown' /\ CleanAbort'
    BY <2>1, <2>2 DEF Files, Written, Compensated, Shown, Resting, CleanAbort
  <2> QED
    BY <2>3, <2>4, <2>5 DEF ManagerIInv
<1>3. CASE outcome # "dead"
  <2>1. tx' \in Transactions /\ Carries(tx') /\ tx'.pc = "tail" /\ tx'.result = "err"
    BY <1>3, FailsFields DEF GracefulRetire, ManagerIInv, Typed, TxTyped
  <2>2. epochs' = epochs /\ cand' = None /\ current' = None
    BY <1>3 DEF GracefulRetire
  <2>3. /\ \A e \in strays' :
             \/ e \in strays
             \/ e = tx.old.epoch /\ outcome = "unconfirmed"
             \/ e = tx.plan.epoch /\ new = "unconfirmed"
        /\ quarantine' = Uncertain(outcome, new)
    <3> DEFINE old == {i \in {current} : i.alive /\ outcome = "unconfirmed"}
               fresh == {i \in {cand} : i.alive /\ new = "unconfirmed"}
               gone == {c.plan.epoch : c \in old \union fresh}
    <3>1. \A e \in gone : \/ e = tx.old.epoch /\ outcome = "unconfirmed"
                          \/ e = tx.plan.epoch /\ new = "unconfirmed"
      BY <1>1
    <3>2. PICK l \in SUBSET gone : strays' = strays \union l
      BY <1>3 DEF GracefulRetire
    <3>3. quarantine' = Uncertain(outcome, new)
      BY <1>3 DEF GracefulRetire
    <3> HIDE DEF gone
    <3> QED
      BY <3>1, <3>2, <3>3
  <2>4. tx.old.epoch \in Epochs /\ tx.plan.epoch \in Epochs
    BY <1>1, AllocatedEpoch DEF ManagerIInv, Typed, SlotsTyped
  <2>5. strays = {}
    BY <1>1 DEF ManagerIInv, NoLostProcess
  <2>6. /\ quarantine' \subseteq Entries
        /\ \A q \in quarantine' : q.epoch \in {tx.old.epoch, tx.plan.epoch}
        /\ outcome = "unconfirmed" => \E q \in quarantine' : q.epoch = tx.old.epoch /\ ~q.proven
        /\ new = "unconfirmed" => \E q \in quarantine' : q.epoch = tx.plan.epoch /\ ~q.proven
    <3> DEFINE one == IF outcome = "unconfirmed" THEN Record({}, tx.old.epoch) ELSE {}
    <3>1. /\ one \subseteq Entries /\ \A q \in one : q.epoch = tx.old.epoch
          /\ outcome = "unconfirmed" => \E q \in one : q.epoch = tx.old.epoch /\ ~q.proven
      BY <2>4, RecordFields
    <3>2. quarantine' = IF new # "dead" THEN Record(one, tx.plan.epoch) ELSE one
      BY <1>1, <2>3 DEF Uncertain
    <3>3. \A q \in one : q.epoch # tx.plan.epoch
      BY <1>1, <3>1
    <3> HIDE DEF one
    <3>4. CASE new # "dead"
      <4>1. /\ Record(one, tx.plan.epoch) \subseteq Entries /\ one \subseteq Record(one, tx.plan.epoch)
            /\ \A q \in Record(one, tx.plan.epoch) : q \in one \/ q.epoch = tx.plan.epoch
            /\ \E q \in Record(one, tx.plan.epoch) : q.epoch = tx.plan.epoch /\ ~q.proven
        BY <2>4, <3>1, <3>3, RecordFields
      <4> QED
        BY <3>1, <3>2, <3>4, <4>1
    <3>5. CASE new = "dead"
      BY <3>1, <3>2, <3>5
    <3> QED
      BY <3>4, <3>5
  <2>7. disk' \in [Epochs -> Contents]
    BY <1>3, CleanedFields DEF GracefulRetire, ManagerIInv, Typed, HostTyped
  <2>8. status' \in Statuses /\ status'.state = "Stopped"
    BY <1>3, TerminalFields DEF GracefulRetire
  <2>9. Typed'
    BY <2>1, <2>2, <2>3, <2>4, <2>5, <2>6, <2>7, <2>8, NoneFields
    DEF ManagerIInv, Typed, SlotsTyped, HostTyped, TxTyped
  <2>10. Slots' /\ Targets'
    BY <1>1, <2>1, <2>2, NoneFields
    DEF Slots, Targets, WithCand, OldInSlot, NewInSlot, SlotEmpty, Planned,
        GracefulOnly, OneSided, ReconcileOnly, Carries
  <2>11. Guarded'
    BY <1>1, <2>1, <2>2, <2>6, NoneFields DEF Guarded, Allocated, ManagerIInv, Typed, SlotsTyped
  <2>12. NoLostProcess'
    BY <2>3, <2>5, <2>6 DEF NoLostProcess
  <2>13. Files' /\ Shown' /\ CleanAbort'
    BY <1>1, <2>1, <2>2, <2>8, NoneFields
    DEF Files, Written, Compensated, Shown, Resting, Running, CleanAbort, Carries
  <2> QED
    BY <2>9, <2>10, <2>11, <2>12, <2>13 DEF ManagerIInv
<1> QED
  BY <1>2, <1>3

(* The full config replaces the bootstrap one, or the newcomer goes.       *)
LEMMA GracefulCommitKeeps ==
  ASSUME ManagerIInv, NEW ok \in BOOLEAN, NEW outcome \in StopOutcomes, GracefulCommit(ok, outcome)
  PROVE  ManagerIInv'
<1>1. /\ tx' \in Transactions /\ Carries(tx') /\ tx'.plan = tx.plan
      /\ IF ok THEN tx'.pc = "gverify" ELSE tx'.pc = "tail" /\ tx'.result = "err"
  <2>1. CASE ok
    BY <2>1, AtFields DEF GracefulCommit, Steps, ManagerIInv, Typed, TxTyped
  <2>2. CASE ~ok
    BY <2>2, FailsFields DEF GracefulCommit, ManagerIInv, Typed, TxTyped
  <2> QED
    BY <2>1, <2>2
<1>2. ~ok =>
        /\ strays' \subseteq Epochs /\ quarantine' \subseteq Entries /\ NoLostProcess'
        /\ \A q \in quarantine' : q.epoch = cand.plan.epoch
        /\ outcome = "dead" => quarantine' = {}
  <2> HAVE ~ok
  <2>1. /\ cand.plan.epoch \in Epochs /\ quarantine = {}
        /\ \/ outcome # "unconfirmed" /\ quarantine' = quarantine
           \/ quarantine' = Record(quarantine, cand.plan.epoch)
        /\ outcome = "dead" => quarantine' = {}
    <3>1. tx.pc \notin {"idle", "tail", "stopping"} /\ Allocated(cand.plan)
      BY DEF GracefulCommit, ManagerIInv, Slots, OldInSlot, WithCand
    <3>2. cand.plan.epoch \in Epochs /\ quarantine = {}
      BY <3>1, AllocatedEpoch DEF ManagerIInv, Typed, SlotsTyped, Guarded
    <3> QED
      BY <3>2
      DEF GracefulCommit, Latch, ManagerIInv, Targets, WithCand, Slots, OldInSlot,
          StopOutcomes, ReplaceFailed
  <2> QED
    BY <2>1, RetireFields DEF GracefulCommit, ManagerIInv, Typed
<1>3. disk' \in [Epochs -> Contents] /\ (ok => disk'[tx.plan.epoch] = tx.plan.cfg)
  <2>1. tx.plan.epoch \in Epochs /\ tx.plan.cfg \in Contents
    BY EpochFacts
    DEF GracefulCommit, Planned, Contents, EpochPlans, Transactions, ManagerIInv, Typed, TxTyped
  <2>2. CASE ok
    BY <2>1, <2>2, WrittenFields DEF GracefulCommit, ManagerIInv, Typed, HostTyped
  <2>3. CASE ~ok
    BY <2>3, CleanedFields DEF GracefulCommit, ManagerIInv, Typed, HostTyped
  <2> QED
    BY <2>2, <2>3
<1>4. /\ IF ok THEN status' = status ELSE status' \in Statuses /\ status'.state = "Stopped"
      /\ IF ok THEN cand' = cand ELSE cand' = None
      /\ ok => strays' = strays /\ quarantine' = quarantine
  BY TerminalFields DEF GracefulCommit, Latch
<1>5. Typed'
  BY <1>1, <1>2, <1>3, <1>4, NoneFields
  DEF ManagerIInv, Typed, SlotsTyped, HostTyped, TxTyped, Epochs, GracefulCommit
<1>6. Slots'
  BY <1>1, <1>2, <1>3, <1>4, NoneFields
  DEF ManagerIInv, Typed, SlotsTyped, Slots, Allocated, SlotEmpty, OldInSlot, NewInSlot,
      WithCand, Targets, Planned, Carries, GracefulCommit
<1>7. Targets'
  BY <1>1, <1>2, <1>3, <1>4, NoneFields
  DEF ManagerIInv, Typed, SlotsTyped, Slots, Allocated, Targets, Planned, WithCand,
      GracefulOnly, OneSided, ReconcileOnly, OldInSlot, NewInSlot, Carries, GracefulCommit
<1>8. Guarded' /\ NoLostProcess'
  BY <1>1, <1>2, <1>3, <1>4, NoneFields
  DEF ManagerIInv, Typed, Guarded, NoLostProcess, Slots, Targets, Allocated, WithCand,
      SlotEmpty, OldInSlot, NewInSlot, GracefulCommit
<1>9. Files'
  BY <1>1, <1>2, <1>3, <1>4, NoneFields
  DEF ManagerIInv, Typed, SlotsTyped, HostTyped, Epochs, Slots, Targets, Allocated, OldInSlot,
      NewInSlot, SlotEmpty, Planned, Written, Compensated, ReconcileOnly, Files, Carries,
      WithCand, GracefulCommit
<1>10. Shown' /\ CleanAbort'
  BY <1>1, <1>2, <1>3, <1>4, NoneFields
  DEF ManagerIInv, Typed, SlotsTyped, Slots, Targets, Resting, Shown, CleanAbort, Running,
      Carries, OldInSlot, NewInSlot, SlotEmpty, WithCand, Allocated, Planned, GracefulCommit
<1> QED
  BY <1>5, <1>6, <1>7, <1>8, <1>9, <1>10 DEF ManagerIInv

(* Verified, or replaced by a process that reads the file.                 *)
LEMMA GracefulVerifyKeeps ==
  ASSUME ManagerIInv, NEW ok \in BOOLEAN, NEW outcome \in StopOutcomes, GracefulVerify(ok, outcome)
  PROVE  ManagerIInv'
<1>1. /\ tx' \in Transactions /\ Carries(tx') /\ tx'.plan = tx.plan
      /\ IF ok THEN tx'.pc = "install"
         ELSE IF outcome = "dead" THEN tx'.pc = "replace" ELSE tx'.pc = "tail" /\ tx'.result = "err"
  <2>1. CASE ok
    BY <2>1, AtFields DEF GracefulVerify, Steps, ManagerIInv, Typed, TxTyped
  <2>2. CASE ~ok /\ outcome = "dead"
    BY <2>2, AtFields DEF GracefulVerify, Steps, ManagerIInv, Typed, TxTyped
  <2>3. CASE ~ok /\ outcome # "dead"
    BY <2>3, FailsFields DEF GracefulVerify, StopOutcomes, ManagerIInv, Typed, TxTyped
  <2> QED
    BY <2>1, <2>2, <2>3
<1>2. ~ok =>
        /\ strays' \subseteq Epochs /\ quarantine' \subseteq Entries /\ NoLostProcess'
        /\ \A q \in quarantine' : q.epoch = cand.plan.epoch
        /\ outcome = "dead" => quarantine' = {}
  <2> HAVE ~ok
  <2>1. /\ cand.plan.epoch \in Epochs /\ quarantine = {}
        /\ \/ outcome # "unconfirmed" /\ quarantine' = quarantine
           \/ quarantine' = Record(quarantine, cand.plan.epoch)
        /\ outcome = "dead" => quarantine' = {}
    <3>1. tx.pc \notin {"idle", "tail", "stopping"} /\ Allocated(cand.plan)
      BY DEF GracefulVerify, ManagerIInv, Slots, OldInSlot, WithCand
    <3>2. cand.plan.epoch \in Epochs /\ quarantine = {}
      BY <3>1, AllocatedEpoch DEF ManagerIInv, Typed, SlotsTyped, Guarded
    <3> QED
      BY <3>2
      DEF GracefulVerify, Latch, ManagerIInv, Targets, WithCand, Slots, OldInSlot,
          StopOutcomes, ReplaceFailed
  <2> QED
    BY <2>1, RetireFields DEF GracefulVerify, ManagerIInv, Typed
<1>3. ok => /\ status' \in Statuses /\ status'.state = "Running" /\ status'.rev = tx.plan
            /\ cand' = cand /\ strays' = strays /\ quarantine' = quarantine
  BY PublishFields DEF GracefulVerify, Transactions, ManagerIInv, Typed, TxTyped
<1>4. ~ok => /\ cand' = None /\ status' \in Statuses
             /\ outcome # "dead" => status'.state = "Stopped"
  BY TerminalFields DEF GracefulVerify, Latch, StopOutcomes, ManagerIInv, Typed, TxTyped
<1>5. Typed'
  BY <1>1, <1>2, <1>3, <1>4, NoneFields
  DEF ManagerIInv, Typed, SlotsTyped, HostTyped, TxTyped, Epochs, GracefulVerify
<1>6. Slots'
  BY <1>1, <1>2, <1>3, <1>4, NoneFields
  DEF ManagerIInv, Typed, SlotsTyped, Slots, Allocated, SlotEmpty, OldInSlot, NewInSlot,
      WithCand, Targets, Planned, Carries, GracefulVerify
<1>7. Targets'
  BY <1>1, <1>2, <1>3, <1>4, NoneFields
  DEF ManagerIInv, Typed, SlotsTyped, Slots, Allocated, Targets, Planned, WithCand,
      GracefulOnly, OneSided, ReconcileOnly, OldInSlot, NewInSlot, Carries, GracefulVerify
<1>8. Guarded' /\ NoLostProcess'
  BY <1>1, <1>2, <1>3, <1>4, NoneFields
  DEF ManagerIInv, Typed, Guarded, NoLostProcess, Slots, Targets, Allocated, WithCand,
      SlotEmpty, OldInSlot, NewInSlot, GracefulVerify
<1>9. Files'
  <2>1. /\ tx.graceful /\ tx.kind = "switch" /\ disk[tx.plan.epoch] = tx.plan.cfg
        /\ current' = None /\ disk' = disk
    BY DEF GracefulVerify, ManagerIInv, Slots, SlotEmpty, Targets, GracefulOnly, Files, Written
  <2> QED
    BY <1>1, <2>1 DEF Files, Written, Compensated, Carries
<1>10. Shown' /\ CleanAbort'
  BY <1>1, <1>2, <1>3, <1>4, NoneFields
  DEF ManagerIInv, Typed, SlotsTyped, Slots, Targets, Resting, Shown, CleanAbort, Running,
      Carries, OldInSlot, NewInSlot, SlotEmpty, WithCand, Allocated, Planned, GracefulVerify
<1> QED
  BY <1>5, <1>6, <1>7, <1>8, <1>9, <1>10 DEF ManagerIInv

(* The old epoch's files go last.                                          *)
LEMMA CleanOldKeeps ==
  ASSUME ManagerIInv, NEW ok \in BOOLEAN, CleanOld(ok)
  PROVE  ManagerIInv'
<1>1. /\ tx' \in Transactions /\ Carries(tx') /\ tx'.plan = tx.plan
      /\ tx'.pc = "tail" /\ tx'.result \in {"ok", "err"}
  BY SucceedsFields, FailsFields
  DEF CleanOld, Steps, ManagerIInv, Typed, SlotsTyped, HostTyped, TxTyped
<1>2. /\ disk' \in [Epochs -> Contents]
      /\ \A x \in Epochs : x # tx.old.epoch => disk'[x] = disk[x]
  <2>1. disk' = disk \/ disk' = Cleaned(disk, tx.old.epoch)
    BY DEF CleanOld
  <2> QED
    BY <2>1, CleanedFields DEF ManagerIInv, Typed, HostTyped
<1>3. /\ current.plan = tx.plan /\ tx.plan.epoch # tx.old.epoch /\ tx.plan.epoch \in Epochs
      /\ tx.kind = "switch"
  BY EpochFacts DEF CleanOld, ManagerIInv, Slots, NewInSlot, Targets, GracefulOnly, Planned
<1>4. Typed'
  BY <1>1, <1>2, <1>3, NoneFields
  DEF ManagerIInv, Typed, SlotsTyped, HostTyped, TxTyped, Epochs, CleanOld
<1>5. Slots'
  BY <1>1, <1>2, <1>3, NoneFields
  DEF ManagerIInv, Typed, SlotsTyped, Slots, Allocated, SlotEmpty, OldInSlot, NewInSlot,
      WithCand, Targets, Planned, Carries, CleanOld
<1>6. Targets'
  BY <1>1, <1>2, <1>3, NoneFields
  DEF ManagerIInv, Typed, SlotsTyped, Slots, Allocated, Targets, Planned, WithCand,
      GracefulOnly, OneSided, ReconcileOnly, OldInSlot, NewInSlot, Carries, CleanOld
<1>7. Guarded' /\ NoLostProcess'
  BY <1>1, <1>2, <1>3, NoneFields
  DEF ManagerIInv, Typed, Guarded, NoLostProcess, Slots, Targets, Allocated, WithCand,
      SlotEmpty, OldInSlot, NewInSlot, CleanOld
<1>8. Files'
  BY <1>1, <1>2, <1>3, NoneFields
  DEF ManagerIInv, Typed, SlotsTyped, HostTyped, Epochs, Slots, Targets, Allocated, OldInSlot,
      NewInSlot, SlotEmpty, Planned, Written, Compensated, ReconcileOnly, Files, Carries,
      WithCand, CleanOld
<1>9. Shown' /\ CleanAbort'
  BY <1>1, <1>2, <1>3, NoneFields
  DEF ManagerIInv, Typed, SlotsTyped, Slots, Targets, Resting, Shown, CleanAbort, Running,
      Carries, OldInSlot, NewInSlot, SlotEmpty, WithCand, Allocated, Planned, CleanOld
<1> QED
  BY <1>4, <1>5, <1>6, <1>7, <1>8, <1>9 DEF ManagerIInv

(***************************************************************************)
(* reconcile with a running core: apply_locked                             *)
(***************************************************************************)
(* A reconcile looks at what changed, and backs the file up.               *)
LEMMA BeginApplyKeeps ==
  ASSUME ManagerIInv, NEW c \in Configs, NEW change \in {"noop", "hot", "switch"}, BeginApply(c, change)
  PROVE  ManagerIInv'
<1>1. /\ Allocated(current.plan) /\ current.plan.epoch \in Epochs /\ current # None
      /\ current.plan \in EpochPlans /\ disk[current.plan.epoch] = current.plan.cfg
  BY EpochFacts
  DEF BeginApply, Running, Slots, Files, Instances, ManagerIInv, Typed, SlotsTyped, HostTyped,
      TxTyped
<1>2. /\ tx' \in Transactions /\ tx'.kind = "reconcile" /\ tx'.old = current.plan
      /\ tx'.begin = current /\ ~tx'.graceful /\ tx'.pc \in {"tail", "adns", "cprepare"}
      /\ tx'.pc = "adns" => /\ tx'.plan.epoch = current.plan.epoch
                            /\ tx'.backup = current.plan.cfg
      /\ tx'.pc = "tail" => tx'.result \in {"ok", "err"}
  <2> DEFINE r == Begin("reconcile", c, "tail")
             q == Plan(current.plan.epoch, current.plan.gen + 1, c)
  <2>1. "reconcile" \in Calls /\ c \in Targetable /\ current \in Instances /\ "tail" \in Steps
    BY DEF Calls, Targetable, Steps, ManagerIInv, Typed, SlotsTyped
  <2>2. /\ r \in Transactions /\ r.pc = "tail" /\ r.kind = "reconcile"
        /\ r.old = current.plan /\ r.begin = current /\ ~r.graceful
    BY <2>1, BeginFields
  <2>3. \/ tx' = [r EXCEPT !.result = "err"]
        \/ tx' = [r EXCEPT !.result = "ok"]
        \/ /\ current.plan.gen < MaxGeneration
           /\ tx' = [r EXCEPT !.pc = "adns", !.backup = disk[current.plan.epoch], !.plan = q]
        \/ tx' = [r EXCEPT !.pc = "cprepare"]
    BY DEF BeginApply
  <2>4. current.plan.gen < MaxGeneration => q \in EpochPlans /\ q.epoch = current.plan.epoch
    BY <1>1, ManagerAssumption DEF Plan, EpochPlans
  <2>5. current.plan.cfg \in Contents
    BY <1>1 DEF EpochPlans, Contents
  <2> HIDE DEF r, q
  <2>6. CASE tx' = [r EXCEPT !.result = "err"] \/ tx' = [r EXCEPT !.result = "ok"]
    BY <2>2, <2>6 DEF Transactions
  <2>7. CASE /\ current.plan.gen < MaxGeneration
             /\ tx' = [r EXCEPT !.pc = "adns", !.backup = disk[current.plan.epoch], !.plan = q]
    BY <1>1, <2>2, <2>4, <2>5, <2>7 DEF Transactions, Steps
  <2>8. CASE tx' = [r EXCEPT !.pc = "cprepare"]
    BY <2>2, <2>8 DEF Transactions, Steps
  <2> QED
    BY <2>3, <2>6, <2>7, <2>8
<1>3. Typed'
  BY <1>1, <1>2, NoneFields
  DEF ManagerIInv, Typed, SlotsTyped, HostTyped, TxTyped, Epochs, BeginApply
<1>4. Slots'
  BY <1>1, <1>2, NoneFields
  DEF ManagerIInv, Typed, SlotsTyped, Slots, Allocated, SlotEmpty, OldInSlot, NewInSlot,
      WithCand, Targets, Planned, Carries, BeginApply
<1>5. Targets'
  BY <1>1, <1>2, NoneFields
  DEF ManagerIInv, Typed, SlotsTyped, Slots, Allocated, Targets, Planned, WithCand,
      GracefulOnly, OneSided, ReconcileOnly, OldInSlot, NewInSlot, Carries, BeginApply
<1>6. Guarded' /\ NoLostProcess'
  BY <1>1, <1>2, NoneFields
  DEF ManagerIInv, Typed, Guarded, NoLostProcess, Slots, Targets, Allocated, WithCand,
      SlotEmpty, OldInSlot, NewInSlot, BeginApply
<1>7. Files'
  BY <1>1, <1>2, NoneFields
  DEF ManagerIInv, Typed, SlotsTyped, HostTyped, Epochs, Slots, Targets, Allocated, OldInSlot,
      NewInSlot, SlotEmpty, Planned, Written, Compensated, ReconcileOnly, Files, Carries,
      WithCand, BeginApply
<1>8. Shown' /\ CleanAbort'
  BY <1>1, <1>2, NoneFields
  DEF ManagerIInv, Typed, SlotsTyped, Slots, Targets, Resting, Shown, CleanAbort, Running,
      Carries, OldInSlot, NewInSlot, SlotEmpty, WithCand, Allocated, Planned, BeginApply
<1> QED
  BY <1>3, <1>4, <1>5, <1>6, <1>7, <1>8 DEF ManagerIInv

(* The gates of a hot apply: the file is replaced, or nothing is.          *)
LEMMA ApplyCommitKeeps ==
  ASSUME ManagerIInv, NEW dnsOk \in BOOLEAN, NEW ok \in BOOLEAN, NEW undone \in BOOLEAN, ApplyCommit(dnsOk, ok, undone)
  PROVE  ManagerIInv'
<1>1. /\ tx' \in Transactions /\ Carries(tx') /\ tx'.plan = tx.plan
      /\ IF dnsOk /\ ok THEN tx'.pc = "averify" ELSE tx'.pc = "tail" /\ tx'.result = "err"
  <2>1. CASE dnsOk /\ ok
    BY <2>1, AtFields DEF ApplyCommit, Steps, ManagerIInv, Typed, TxTyped
  <2>2. CASE ~(dnsOk /\ ok)
    <3>1. (dnsOk /\ undone) \in BOOLEAN
      BY Zenon
    <3> QED
      BY <2>2, <3>1, FailsFields DEF ApplyCommit, ManagerIInv, Typed, TxTyped
  <2> QED
    BY <2>1, <2>2
<1>2. IF dnsOk /\ ok THEN disk' \in [Epochs -> Contents] /\ disk'[tx.plan.epoch] = tx.plan.cfg
                        /\ \A x \in Epochs : x # tx.plan.epoch => disk'[x] = disk[x]
      ELSE disk' = disk
  <2>1. tx.plan.epoch \in Epochs /\ tx.plan.cfg \in Contents
    BY EpochFacts
    DEF ApplyCommit, Planned, Contents, EpochPlans, Transactions, ManagerIInv, Typed, TxTyped
  <2>2. CASE dnsOk /\ ok
    BY <2>1, <2>2, WrittenFields DEF ApplyCommit, ManagerIInv, Typed, HostTyped
  <2>3. CASE ~(dnsOk /\ ok)
    BY <2>3 DEF ApplyCommit
  <2> QED
    BY <2>2, <2>3
<1>3. /\ UNCHANGED <<epochs, current, cand, strays, quarantine, status>> /\ tx.pc = "adns"
      /\ current.plan = tx.old /\ tx.old.epoch \in Epochs
  BY EpochFacts DEF ApplyCommit, ManagerIInv, Slots, OldInSlot
<1>4. Typed'
  BY <1>1, <1>2, <1>3, NoneFields
  DEF ManagerIInv, Typed, SlotsTyped, HostTyped, TxTyped, Epochs, ApplyCommit
<1>5. Slots'
  BY <1>1, <1>2, <1>3, NoneFields
  DEF ManagerIInv, Typed, SlotsTyped, Slots, Allocated, SlotEmpty, OldInSlot, NewInSlot,
      WithCand, Targets, Planned, Carries, ApplyCommit
<1>6. Targets'
  BY <1>1, <1>2, <1>3, NoneFields
  DEF ManagerIInv, Typed, SlotsTyped, Slots, Allocated, Targets, Planned, WithCand,
      GracefulOnly, OneSided, ReconcileOnly, OldInSlot, NewInSlot, Carries, ApplyCommit
<1>7. Guarded' /\ NoLostProcess'
  BY <1>1, <1>2, <1>3, NoneFields
  DEF ManagerIInv, Typed, Guarded, NoLostProcess, Slots, Targets, Allocated, WithCand,
      SlotEmpty, OldInSlot, NewInSlot, ApplyCommit
<1>8. Files'
  <2>1. /\ tx.plan.epoch \in Epochs /\ disk[tx.old.epoch] = tx.old.cfg
        /\ tx.kind = "reconcile"
        /\ tx.plan # tx.old => IF tx.plan.epoch = tx.old.epoch THEN tx.backup = tx.old.cfg
                               ELSE disk[tx.old.epoch] = tx.old.cfg
    BY <1>3, EpochFacts
    DEF ManagerIInv, Targets, ReconcileOnly, Planned, Files, Compensated, OldInSlot
  <2> QED
    BY <1>1, <1>2, <1>3, <2>1 DEF Files, Written, Compensated, Carries
<1>9. Shown' /\ CleanAbort'
  BY <1>1, <1>2, <1>3, NoneFields
  DEF ManagerIInv, Typed, SlotsTyped, Slots, Targets, Resting, Shown, CleanAbort, Running,
      Carries, OldInSlot, NewInSlot, SlotEmpty, WithCand, Allocated, Planned, ApplyCommit
<1> QED
  BY <1>4, <1>5, <1>6, <1>7, <1>8, <1>9 DEF ManagerIInv

(* Verified: the slot takes the plan, and shows it.                        *)
LEMMA ApplyVerifiedKeeps ==
  ASSUME ManagerIInv, ApplyVerified
  PROVE  ManagerIInv'
<1>1. tx' \in Transactions /\ Carries(tx') /\ tx'.plan = tx.plan /\ tx'.pc = "tail" /\ tx'.result = "ok"
  BY SucceedsFields DEF ApplyVerified, ManagerIInv, Typed, TxTyped
<1>2. /\ current' \in Instances /\ current'.plan = tx.plan /\ current'.alive = current.alive
      /\ status' \in Statuses /\ status'.state = "Running" /\ status'.rev = tx.plan
  <2>1. tx.plan \in EpochPlans
    BY DEF Transactions, ManagerIInv, Typed, TxTyped
  <2> QED
    BY <2>1, PublishFields DEF ApplyVerified, Instances, ManagerIInv, Typed, SlotsTyped
<1>3. Typed'
  BY <1>1, <1>2, NoneFields
  DEF ManagerIInv, Typed, SlotsTyped, HostTyped, TxTyped, Epochs, ApplyVerified
<1>4. Slots'
  BY <1>1, <1>2, NoneFields
  DEF ManagerIInv, Typed, SlotsTyped, Slots, Allocated, SlotEmpty, OldInSlot, NewInSlot,
      WithCand, Targets, Planned, Carries, ApplyVerified
<1>5. Targets'
  BY <1>1, <1>2, NoneFields
  DEF ManagerIInv, Typed, SlotsTyped, Slots, Allocated, Targets, Planned, WithCand,
      GracefulOnly, OneSided, ReconcileOnly, OldInSlot, NewInSlot, Carries, ApplyVerified
<1>6. Guarded' /\ NoLostProcess'
  BY <1>1, <1>2, NoneFields
  DEF ManagerIInv, Typed, Guarded, NoLostProcess, Slots, Targets, Allocated, WithCand,
      SlotEmpty, OldInSlot, NewInSlot, ApplyVerified
<1>7. Files'
  BY <1>1, <1>2, NoneFields
  DEF ManagerIInv, Typed, SlotsTyped, HostTyped, Epochs, Slots, Targets, Allocated, OldInSlot,
      NewInSlot, SlotEmpty, Planned, Written, Compensated, ReconcileOnly, Files, Carries,
      WithCand, ApplyVerified
<1>8. Shown' /\ CleanAbort'
  <2>1. tx.plan.epoch \in Epochs /\ tx.plan.epoch # 0
    BY EpochFacts DEF ApplyVerified, Planned, Epochs
  <2>2. current' # None
    BY <1>2, <2>1, NoneFields
  <2> QED
    BY <1>1, <1>2, <2>2 DEF Shown, Resting, CleanAbort, Running
<1> QED
  BY <1>3, <1>4, <1>5, <1>6, <1>7, <1>8 DEF ManagerIInv

(* Not verified: the core is restarted on the new file.                    *)
LEMMA ApplyRestartKeeps ==
  ASSUME ManagerIInv, ApplyRestart
  PROVE  ManagerIInv'
<1>1. tx' \in Transactions /\ Carries(tx') /\ tx'.plan = tx.plan /\ tx'.pc = "cretire"
  BY AtFields DEF ApplyRestart, Steps, ManagerIInv, Typed, TxTyped
<1>2. Typed'
  BY <1>1, NoneFields
  DEF ManagerIInv, Typed, SlotsTyped, HostTyped, TxTyped, Epochs, ApplyRestart
<1>3. Slots'
  BY <1>1, NoneFields
  DEF ManagerIInv, Typed, SlotsTyped, Slots, Allocated, SlotEmpty, OldInSlot, NewInSlot,
      WithCand, Targets, Planned, Carries, ApplyRestart
<1>4. Targets'
  BY <1>1, NoneFields
  DEF ManagerIInv, Typed, SlotsTyped, Slots, Allocated, Targets, Planned, WithCand,
      GracefulOnly, OneSided, ReconcileOnly, OldInSlot, NewInSlot, Carries, ApplyRestart
<1>5. Guarded' /\ NoLostProcess'
  BY <1>1, NoneFields
  DEF ManagerIInv, Typed, Guarded, NoLostProcess, Slots, Targets, Allocated, WithCand,
      SlotEmpty, OldInSlot, NewInSlot, ApplyRestart
<1>6. Files'
  BY <1>1, NoneFields
  DEF ManagerIInv, Typed, SlotsTyped, HostTyped, Epochs, Slots, Targets, Allocated, OldInSlot,
      NewInSlot, SlotEmpty, Planned, Written, Compensated, ReconcileOnly, Files, Carries,
      WithCand, ApplyRestart
<1>7. Shown' /\ CleanAbort'
  BY <1>1, NoneFields
  DEF ManagerIInv, Typed, SlotsTyped, Slots, Targets, Resting, Shown, CleanAbort, Running,
      Carries, OldInSlot, NewInSlot, SlotEmpty, WithCand, Allocated, Planned, ApplyRestart
<1> QED
  BY <1>2, <1>3, <1>4, <1>5, <1>6, <1>7 DEF ManagerIInv

(* A switch with compensation takes a fresh epoch.                         *)
LEMMA ApplySwitchKeeps ==
  ASSUME ManagerIInv, NEW prepared \in BOOLEAN, NEW ok \in BOOLEAN, ApplySwitch(prepared, ok)
  PROVE  ManagerIInv'
<1>1. epochs' = epochs + 1 /\ epochs + 1 \in Epochs /\ epochs \in Nat /\ tx.plan \in EpochPlans
  BY ManagerAssumption
  DEF ApplySwitch, Transactions, Epochs, ManagerIInv, Typed, SlotsTyped, HostTyped, TxTyped
<1>2. /\ tx' \in Transactions /\ Carries(tx')
      /\ IF prepared /\ ok THEN /\ tx'.pc = "cretire" /\ tx'.plan.epoch = epochs + 1
                                /\ tx'.plan.cfg = tx.plan.cfg
         ELSE tx'.pc = "tail" /\ tx'.result = "err" 
  <2> DEFINE q == Plan(epochs + 1, 1, tx.plan.cfg)
             r == [tx EXCEPT !.pc = "cretire", !.plan = q]
  <2>1. q \in EpochPlans /\ q.epoch = epochs + 1 /\ q.cfg = tx.plan.cfg
    BY <1>1, ManagerAssumption DEF Plan, EpochPlans, Epochs
  <2>2. "cretire" \in Steps /\ tx \in Transactions
    BY DEF Steps, ManagerIInv, Typed, TxTyped
  <2>3. IF prepared /\ ok THEN tx' = r ELSE tx' = Fails(TRUE) \/ tx' = Fails(FALSE)
    BY DEF ApplySwitch
  <2> HIDE DEF q
  <2>4. r \in Transactions /\ r.pc = "cretire" /\ r.plan = q /\ Carries(r)
    BY <2>1, <2>2, TargetFields
  <2> HIDE DEF r
  <2>5. CASE prepared /\ ok
    BY <2>1, <2>3, <2>4, <2>5
  <2>6. CASE ~(prepared /\ ok)
    BY <2>2, <2>3, <2>6, FailsFields
  <2> QED
    BY <2>5, <2>6
<1>3. IF prepared /\ ok THEN /\ disk' \in [Epochs -> Contents] /\ disk'[epochs + 1] = tx.plan.cfg
                             /\ \A x \in Epochs : x # epochs + 1 => disk'[x] = disk[x]
                        ELSE disk' = disk
  <2>1. CASE prepared /\ ok
    <3>1. /\ Plan(epochs + 1, 1, tx.plan.cfg).epoch = epochs + 1
          /\ Plan(epochs + 1, 1, tx.plan.cfg).cfg = tx.plan.cfg /\ tx.plan.cfg \in Contents
      BY <1>1 DEF Plan, EpochPlans, Contents
    <3>2. disk' = [disk EXCEPT ![epochs + 1] = tx.plan.cfg]
      BY <2>1, <3>1 DEF ApplySwitch
    <3> QED
      BY <1>1, <2>1, <3>1, <3>2, WrittenFields DEF ManagerIInv, Typed, HostTyped
  <2>2. CASE ~(prepared /\ ok)
    BY <2>2 DEF ApplySwitch
  <2> QED
    BY <2>1, <2>2
<1>4. /\ UNCHANGED <<current, strays, quarantine, status>> /\ cand' = None /\ tx.pc = "cprepare"
      /\ current.plan = tx.old /\ tx.old = tx.begin.plan /\ tx.kind = "reconcile"
      /\ current # None /\ tx.old.epoch \in 1 .. epochs /\ tx.old.epoch \in 1 .. epochs + 1
      /\ tx.old.epoch # epochs + 1 /\ tx.old.epoch \in Epochs
  <2>1. tx.pc = "cprepare" /\ UNCHANGED <<current, cand, strays, quarantine, status>>
    BY DEF ApplySwitch
  <2>2. /\ cand = None /\ current.plan = tx.old /\ tx.old = tx.begin.plan /\ current # None
        /\ tx.old.epoch \in 1 .. epochs /\ tx.old.epoch \in Epochs /\ tx.kind = "reconcile"
    BY <2>1, EpochFacts
    DEF ManagerIInv, Slots, Targets, OldInSlot, WithCand, Allocated, ReconcileOnly
  <2> QED
    BY <1>1, <2>1, <2>2
<1>5. Typed'
  BY <1>1, <1>2, <1>3, <1>4, NoneFields
  DEF ManagerIInv, Typed, SlotsTyped, HostTyped, TxTyped, Epochs, ApplySwitch
<1>6. Slots'
  BY <1>1, <1>2, <1>4, NoneFields
  DEF Slots, Allocated, WithCand, OldInSlot, NewInSlot, SlotEmpty, Carries
<1>7. Targets'
  BY <1>1, <1>2, <1>3, <1>4, NoneFields
  DEF ManagerIInv, Typed, SlotsTyped, Slots, Allocated, Targets, Planned, WithCand,
      GracefulOnly, OneSided, ReconcileOnly, OldInSlot, NewInSlot, Carries, ApplySwitch
<1>8. Guarded' /\ NoLostProcess'
  BY <1>1, <1>2, <1>3, <1>4, NoneFields
  DEF ManagerIInv, Typed, Guarded, NoLostProcess, Slots, Targets, Allocated, WithCand,
      SlotEmpty, OldInSlot, NewInSlot, ApplySwitch
<1>9. Files'
  <2>1. disk[tx.old.epoch] = tx.old.cfg
    BY <1>4 DEF ApplySwitch, ManagerIInv, Files
  <2>2. disk'[tx.old.epoch] = tx.old.cfg
    BY <2>1, <1>3, <1>4
  <2> QED
    BY <1>1, <1>2, <1>3, <1>4, <2>2 DEF Files, Written, Compensated, Carries
<1>10. Shown' /\ CleanAbort'
  BY <1>1, <1>2, <1>3, <1>4, NoneFields
  DEF ManagerIInv, Typed, SlotsTyped, Slots, Targets, Resting, Shown, CleanAbort, Running,
      Carries, OldInSlot, NewInSlot, SlotEmpty, WithCand, Allocated, Planned, ApplySwitch
<1> QED
  BY <1>5, <1>6, <1>7, <1>8, <1>9, <1>10 DEF ManagerIInv

(* The old core goes for its replacement; the old config stays within      *)
(* reach.                                                                  *)
LEMMA CompensatedRetireKeeps ==
  ASSUME ManagerIInv, NEW outcome \in StopOutcomes, CompensatedRetire(outcome)
  PROVE  ManagerIInv'
<1>1. /\ tx' \in Transactions /\ Carries(tx') /\ tx'.plan = tx.plan
      /\ IF outcome = "dead" THEN tx'.pc = "replace" ELSE tx'.pc = "tail" /\ tx'.result = "err"
  <2>1. CASE outcome = "dead"
    BY <2>1, AtFields DEF CompensatedRetire, Steps, ManagerIInv, Typed, TxTyped
  <2>2. CASE outcome # "dead"
    BY <2>2, FailsFields DEF CompensatedRetire, ManagerIInv, Typed, TxTyped
  <2> QED
    BY <2>1, <2>2
<1>2. /\ strays' \subseteq Epochs /\ quarantine' \subseteq Entries /\ NoLostProcess'
      /\ \A q \in quarantine' : q.epoch = current.plan.epoch
      /\ outcome = "dead" => quarantine' = {}
  <2>1. /\ current.plan.epoch \in Epochs /\ quarantine = {}
        /\ \/ outcome # "unconfirmed" /\ quarantine' = quarantine
           \/ quarantine' = Record(quarantine, current.plan.epoch)
        /\ outcome = "dead" => quarantine' = {}
    <3>1. tx.pc \notin {"idle", "tail", "stopping"} /\ Allocated(current.plan)
      BY DEF CompensatedRetire, ManagerIInv, Slots, OldInSlot, WithCand
    <3>2. current.plan.epoch \in Epochs /\ quarantine = {}
      BY <3>1, AllocatedEpoch DEF ManagerIInv, Typed, SlotsTyped, Guarded
    <3> QED
      BY <3>2
      DEF CompensatedRetire, Latch, ManagerIInv, Targets, WithCand, Slots, OldInSlot,
          StopOutcomes
  <2> QED
    BY <2>1, RetireFields DEF CompensatedRetire, ManagerIInv, Typed
<1>3. disk' \in [Epochs -> Contents] /\ (outcome = "dead" => disk' = disk)
  <2>1. disk' = disk \/ (outcome # "dead" /\ disk' = Cleaned(disk, tx.plan.epoch))
    BY DEF CompensatedRetire
  <2> QED
    BY <2>1, CleanedFields DEF ManagerIInv, Typed, HostTyped
<1>4. status' \in Statuses /\ (outcome # "dead" => status'.state = "Stopped")
  <2>1. tx.plan \in EpochPlans
    BY DEF Transactions, ManagerIInv, Typed, TxTyped
  <2>2. CASE outcome = "dead"
    BY <2>1, <2>2, PublishFields DEF CompensatedRetire
  <2>3. CASE outcome # "dead"
    BY <2>3, TerminalFields DEF CompensatedRetire, Latch
  <2> QED
    BY <2>2, <2>3
<1>5. Typed'
  BY <1>1, <1>2, <1>3, <1>4, NoneFields
  DEF ManagerIInv, Typed, SlotsTyped, HostTyped, TxTyped, Epochs, CompensatedRetire
<1>6. Slots'
  BY <1>1, <1>2, <1>3, <1>4, NoneFields
  DEF ManagerIInv, Typed, SlotsTyped, Slots, Allocated, SlotEmpty, OldInSlot, NewInSlot,
      WithCand, Targets, Planned, Carries, CompensatedRetire
<1>7. Targets'
  BY <1>1, <1>2, <1>3, <1>4, NoneFields
  DEF ManagerIInv, Typed, SlotsTyped, Slots, Allocated, Targets, Planned, WithCand,
      GracefulOnly, OneSided, ReconcileOnly, OldInSlot, NewInSlot, Carries, CompensatedRetire
<1>8. Guarded' /\ NoLostProcess'
  BY <1>1, <1>2, <1>3, <1>4, NoneFields
  DEF ManagerIInv, Typed, Guarded, NoLostProcess, Slots, Targets, Allocated, WithCand,
      SlotEmpty, OldInSlot, NewInSlot, CompensatedRetire
<1>9. Files'
  <2>1. /\ current' = None /\ tx.kind = "reconcile" /\ disk[tx.plan.epoch] = tx.plan.cfg
        /\ tx.plan # tx.old => IF tx.plan.epoch = tx.old.epoch THEN tx.backup = tx.old.cfg
                               ELSE disk[tx.old.epoch] = tx.old.cfg
    BY DEF CompensatedRetire, ManagerIInv, Targets, ReconcileOnly, Files, Written, Compensated
  <2> QED
    BY <1>1, <1>3, <2>1 DEF Files, Written, Compensated, Carries
<1>10. Shown' /\ CleanAbort'
  BY <1>1, <1>2, <1>3, <1>4, NoneFields
  DEF ManagerIInv, Typed, SlotsTyped, Slots, Targets, Resting, Shown, CleanAbort, Running,
      Carries, OldInSlot, NewInSlot, SlotEmpty, WithCand, Allocated, Planned, CompensatedRetire
<1> QED
  BY <1>5, <1>6, <1>7, <1>8, <1>9, <1>10 DEF ManagerIInv

(***************************************************************************)
(* spawn_replacement and the rollback                                      *)
(***************************************************************************)
(* A replacement that left nothing behind: roll back once, or end.         *)
LEMMA ReplaceFailedFields ==
  ASSUME Typed, tx.pc \in {"replace", "repready"}, NEW b \in BOOLEAN, ReplaceFailed(b)
  PROVE  /\ tx' \in Transactions /\ Carries(tx') /\ tx'.plan = tx.plan
         /\ disk' \in [Epochs -> Contents] /\ status' \in Statuses
         /\ \/ /\ tx'.pc = "rollback" /\ disk' = disk /\ tx.kind = "reconcile" /\ tx.plan # tx.old
            \/ tx'.pc = "tail" /\ tx'.result = "err" /\ status'.state = "Stopped"
<1>1. CASE tx.kind = "reconcile" /\ tx.plan # tx.old
  <2>1. (tx.dnsFailed \/ ~b) \in BOOLEAN
    BY Zenon
  <2>2. PICK d \in BOOLEAN : tx' = [tx EXCEPT !.pc = "rollback", !.dnsFailed = d]
    <3>1. tx' = [tx EXCEPT !.pc = "rollback", !.dnsFailed = (tx.dnsFailed \/ ~b)]
      BY <1>1 DEF ReplaceFailed, Typed, TxTyped, Transactions
    <3> QED
      BY <2>1, <3>1, Zenon
  <2>3. tx' \in Transactions /\ Carries(tx') /\ tx'.plan = tx.plan /\ tx'.pc = "rollback"
    BY <2>2 DEF Typed, TxTyped, Transactions, Steps, Carries
  <2> QED
    BY <1>1, <2>3 DEF ReplaceFailed, Typed, HostTyped, TxTyped
<1>2. CASE ~(tx.kind = "reconcile" /\ tx.plan # tx.old)
  <2>1. /\ tx' = Fails(b) /\ PublishTerminalError
        /\ disk' = disk \/ disk' = Cleaned(disk, tx.plan.epoch)
    BY <1>2 DEF ReplaceFailed
  <2> QED
    BY <2>1, FailsFields, TerminalFields, CleanedFields DEF Typed, HostTyped, TxTyped
<1> QED
  BY <1>1, <1>2

(* The replacement starts, or its failure leads to the rollback.           *)
LEMMA ReplaceKeeps ==
  ASSUME ManagerIInv, NEW dnsOk \in BOOLEAN, NEW ok \in BOOLEAN, Replace(dnsOk, ok)
  PROVE  ManagerIInv'
<1>1. /\ tx' \in Transactions /\ Carries(tx') /\ tx'.plan = tx.plan
      /\ disk' \in [Epochs -> Contents] /\ status' \in Statuses
      /\ IF dnsOk /\ ok THEN tx'.pc = "repready" /\ disk' = disk
         ELSE \/ /\ tx'.pc = "rollback" /\ disk' = disk /\ tx.kind = "reconcile"
                 /\ tx.plan # tx.old
              \/ tx'.pc = "tail" /\ tx'.result = "err" /\ status'.state = "Stopped"
  <2>1. CASE dnsOk /\ ok
    BY <2>1, AtFields DEF Replace, Steps, ManagerIInv, Typed, TxTyped, HostTyped
  <2>2. CASE ~(dnsOk /\ ok)
    BY <2>2, ReplaceFailedFields DEF Replace, ManagerIInv
  <2> QED
    BY <2>1, <2>2
<1>2. IF dnsOk /\ ok THEN cand' \in Instances /\ cand'.plan = tx.plan ELSE cand' = cand
  BY LaunchedFields DEF Replace, Transactions, ManagerIInv, Typed, TxTyped
<1>3. Typed'
  BY <1>1, <1>2, NoneFields
  DEF ManagerIInv, Typed, SlotsTyped, HostTyped, TxTyped, Epochs, Replace
<1>4. Slots'
  BY <1>1, <1>2, NoneFields
  DEF ManagerIInv, Typed, SlotsTyped, Slots, Allocated, SlotEmpty, OldInSlot, NewInSlot,
      WithCand, Targets, Planned, Carries, Replace
<1>5. Targets'
  BY <1>1, <1>2, NoneFields
  DEF ManagerIInv, Typed, SlotsTyped, Slots, Allocated, Targets, Planned, WithCand,
      GracefulOnly, OneSided, ReconcileOnly, OldInSlot, NewInSlot, Carries, Replace
<1>6. Guarded' /\ NoLostProcess'
  BY <1>1, <1>2, NoneFields
  DEF ManagerIInv, Typed, Guarded, NoLostProcess, Slots, Targets, Allocated, WithCand,
      SlotEmpty, OldInSlot, NewInSlot, Replace
<1>7. Files'
  <2>1. /\ current' = None /\ disk[tx.plan.epoch] = tx.plan.cfg
        /\ tx.kind = "reconcile" /\ tx.plan # tx.old =>
             IF tx.plan.epoch = tx.old.epoch THEN tx.backup = tx.old.cfg
             ELSE disk[tx.old.epoch] = tx.old.cfg
    BY DEF Replace, ManagerIInv, Slots, SlotEmpty, Files, Written, Compensated
  <2> QED
    BY <1>1, <2>1 DEF Files, Written, Compensated, Carries
<1>8. Shown' /\ CleanAbort'
  BY <1>1, <1>2, NoneFields
  DEF ManagerIInv, Typed, SlotsTyped, Slots, Targets, Resting, Shown, CleanAbort, Running,
      Carries, OldInSlot, NewInSlot, SlotEmpty, WithCand, Allocated, Planned, Replace
<1> QED
  BY <1>3, <1>4, <1>5, <1>6, <1>7, <1>8 DEF ManagerIInv

(* The replacement is ready; or stopped, and latched if in doubt.          *)
LEMMA ReplaceReadyKeeps ==
  ASSUME ManagerIInv, NEW ok \in BOOLEAN, NEW outcome \in StopOutcomes, ReplaceReady(ok, outcome)
  PROVE  ManagerIInv'
<1>1. /\ tx' \in Transactions /\ Carries(tx') /\ tx'.plan = tx.plan
      /\ disk' \in [Epochs -> Contents] /\ status' \in Statuses
      /\ IF ok THEN /\ tx'.pc = (IF tx.graceful THEN "install" ELSE "rinstall") /\ disk' = disk
                    /\ tx.graceful => status'.state = "Running" /\ status'.rev = tx.plan
         ELSE \/ /\ tx'.pc = "rollback" /\ disk' = disk /\ tx.kind = "reconcile"
                 /\ tx.plan # tx.old /\ outcome = "dead"
              \/ tx'.pc = "tail" /\ tx'.result = "err" /\ status'.state = "Stopped"
  <2>1. CASE ok
    <3>1. tx.plan \in EpochPlans /\ {"install", "rinstall"} \subseteq Steps
      BY DEF Transactions, Steps, ManagerIInv, Typed, TxTyped
    <3>2. tx.graceful => status' \in Statuses /\ status'.state = "Running" /\ status'.rev = tx.plan
      BY <2>1, <3>1, PublishFields DEF ReplaceReady, Replaced
    <3>3. ~tx.graceful => status' = status
      BY <2>1 DEF ReplaceReady, Replaced
    <3> QED
      BY <2>1, <3>1, <3>2, <3>3, AtFields
      DEF ReplaceReady, ManagerIInv, Typed, TxTyped, HostTyped
  <2>2. CASE ~ok /\ outcome = "dead"
    BY <2>2, ReplaceFailedFields DEF ReplaceReady, ManagerIInv
  <2>3. CASE ~ok /\ outcome # "dead"
    BY <2>3, FailsFields, TerminalFields
    DEF ReplaceReady, Latch, ManagerIInv, Typed, TxTyped, HostTyped
  <2> QED
    BY <2>1, <2>2, <2>3
<1>2. ~ok =>
        /\ strays' \subseteq Epochs /\ quarantine' \subseteq Entries /\ NoLostProcess'
        /\ \A q \in quarantine' : q.epoch = cand.plan.epoch
        /\ outcome = "dead" => quarantine' = {}
  <2> HAVE ~ok
  <2>1. /\ cand.plan.epoch \in Epochs /\ quarantine = {}
        /\ \/ outcome # "unconfirmed" /\ quarantine' = quarantine
           \/ quarantine' = Record(quarantine, cand.plan.epoch)
        /\ outcome = "dead" => quarantine' = {}
    <3>1. tx.pc \notin {"idle", "tail", "stopping"} /\ Allocated(cand.plan)
      BY DEF ReplaceReady, ManagerIInv, Slots, OldInSlot, WithCand
    <3>2. cand.plan.epoch \in Epochs /\ quarantine = {}
      BY <3>1, AllocatedEpoch DEF ManagerIInv, Typed, SlotsTyped, Guarded
    <3> QED
      BY <3>2
      DEF ReplaceReady, Latch, ManagerIInv, Targets, WithCand, Slots, OldInSlot, StopOutcomes,
          ReplaceFailed
  <2> QED
    BY <2>1, RetireFields DEF ReplaceReady, ManagerIInv, Typed
<1>3. IF ok THEN cand' = cand /\ strays' = strays /\ quarantine' = quarantine ELSE cand' = None
  BY DEF ReplaceReady
<1>4. Typed'
  BY <1>1, <1>2, <1>3, NoneFields
  DEF ManagerIInv, Typed, SlotsTyped, HostTyped, TxTyped, Epochs, ReplaceReady
<1>5. Slots'
  BY <1>1, <1>2, <1>3, NoneFields
  DEF ManagerIInv, Typed, SlotsTyped, Slots, Allocated, SlotEmpty, OldInSlot, NewInSlot,
      WithCand, Targets, Planned, Carries, ReplaceReady
<1>6. Targets'
  BY <1>1, <1>2, <1>3, NoneFields
  DEF ManagerIInv, Typed, SlotsTyped, Slots, Allocated, Targets, Planned, WithCand,
      GracefulOnly, OneSided, ReconcileOnly, OldInSlot, NewInSlot, Carries, ReplaceReady
<1>7. Guarded' /\ NoLostProcess'
  BY <1>1, <1>2, <1>3, NoneFields
  DEF ManagerIInv, Typed, Guarded, NoLostProcess, Slots, Targets, Allocated, WithCand,
      SlotEmpty, OldInSlot, NewInSlot, ReplaceReady
<1>8. Files'
  <2>1. /\ current' = None /\ disk[tx.plan.epoch] = tx.plan.cfg
        /\ tx.kind = "reconcile" /\ tx.plan # tx.old =>
             IF tx.plan.epoch = tx.old.epoch THEN tx.backup = tx.old.cfg
             ELSE disk[tx.old.epoch] = tx.old.cfg
    BY DEF ReplaceReady, ManagerIInv, Slots, SlotEmpty, Files, Written, Compensated
  <2> QED
    BY <1>1, <2>1 DEF Files, Written, Compensated, Carries
<1>9. Shown' /\ CleanAbort'
  BY <1>1, <1>2, <1>3, NoneFields
  DEF ManagerIInv, Typed, SlotsTyped, Slots, Targets, Resting, Shown, CleanAbort, Running,
      Carries, OldInSlot, NewInSlot, SlotEmpty, WithCand, Allocated, Planned, ReplaceReady
<1> QED
  BY <1>4, <1>5, <1>6, <1>7, <1>8, <1>9 DEF ManagerIInv

(* The replacement takes the slot.                                         *)
LEMMA ReplaceInstallKeeps ==
  ASSUME ManagerIInv, ReplaceInstall
  PROVE  ManagerIInv'
<1>1. current' \in Instances /\ current'.plan = cand.plan /\ cand' = None
  BY InstalledFields DEF ReplaceInstall, ManagerIInv, Typed, SlotsTyped, HostTyped, TxTyped
<1>2. tx' \in Transactions /\ Carries(tx') /\ tx'.plan = tx.plan /\ tx'.pc = "rpublish"
  BY AtFields DEF ReplaceInstall, Steps, ManagerIInv, Typed, SlotsTyped, HostTyped, TxTyped
<1>3. Typed'
  BY <1>1, <1>2, NoneFields
  DEF ManagerIInv, Typed, SlotsTyped, HostTyped, TxTyped, Epochs, ReplaceInstall
<1>4. Slots'
  BY <1>1, <1>2, NoneFields
  DEF ManagerIInv, Typed, SlotsTyped, Slots, Allocated, SlotEmpty, OldInSlot, NewInSlot,
      WithCand, Targets, Planned, Carries, ReplaceInstall
<1>5. Targets'
  BY <1>1, <1>2, NoneFields
  DEF ManagerIInv, Typed, SlotsTyped, Slots, Allocated, Targets, Planned, WithCand,
      GracefulOnly, OneSided, ReconcileOnly, OldInSlot, NewInSlot, Carries, ReplaceInstall
<1>6. Guarded' /\ NoLostProcess'
  BY <1>1, <1>2, NoneFields
  DEF ManagerIInv, Typed, Guarded, NoLostProcess, Slots, Targets, Allocated, WithCand,
      SlotEmpty, OldInSlot, NewInSlot, ReplaceInstall
<1>7. Files'
  BY <1>1, <1>2, NoneFields
  DEF ManagerIInv, Typed, SlotsTyped, HostTyped, Epochs, Slots, Targets, Allocated, OldInSlot,
      NewInSlot, SlotEmpty, Planned, Written, Compensated, ReconcileOnly, Files, Carries,
      WithCand, ReplaceInstall
<1>8. Shown' /\ CleanAbort'
  BY <1>1, <1>2, NoneFields
  DEF ManagerIInv, Typed, SlotsTyped, Slots, Targets, Resting, Shown, CleanAbort, Running,
      Carries, OldInSlot, NewInSlot, SlotEmpty, WithCand, Allocated, Planned, ReplaceInstall
<1> QED
  BY <1>3, <1>4, <1>5, <1>6, <1>7, <1>8 DEF ManagerIInv

(* Running is shown, and the epoch that was left goes.                     *)
LEMMA ReplacePublishKeeps ==
  ASSUME ManagerIInv, ReplacePublish
  PROVE  ManagerIInv'
<1>1. /\ tx' \in Transactions /\ Carries(tx') /\ tx'.plan = tx.plan
      /\ tx'.pc = "tail" /\ tx'.result \in {"ok", "RolledBack"}
      /\ tx'.result = "RolledBack" => tx.plan = tx.old
  BY SucceedsFields DEF ReplacePublish, Outcome, ManagerIInv, Typed, TxTyped
<1>2. status' \in Statuses /\ status'.state = "Running" /\ status'.rev = tx.plan
  BY PublishFields DEF ReplacePublish, Transactions, ManagerIInv, Typed, TxTyped
<1>3. disk' \in [Epochs -> Contents] /\ (tx.plan.epoch \in Epochs => disk'[tx.plan.epoch] = disk[tx.plan.epoch])
  <2>1. disk' = disk \/ (tx.plan.epoch # tx.old.epoch /\ disk' = Cleaned(disk, tx.old.epoch))
    BY DEF ReplacePublish
  <2> QED
    BY <2>1, CleanedFields DEF ManagerIInv, Typed, HostTyped
<1>4. current # None /\ current.plan = tx.plan /\ tx.plan.epoch \in Epochs /\ tx.old = tx.begin.plan
  BY EpochFacts DEF ReplacePublish, ManagerIInv, Slots, NewInSlot, Targets, Planned
<1>5. Typed'
  BY <1>1, <1>2, <1>3, <1>4, NoneFields
  DEF ManagerIInv, Typed, SlotsTyped, HostTyped, TxTyped, Epochs, ReplacePublish
<1>6. Slots'
  BY <1>1, <1>2, <1>3, <1>4, NoneFields
  DEF ManagerIInv, Typed, SlotsTyped, Slots, Allocated, SlotEmpty, OldInSlot, NewInSlot,
      WithCand, Targets, Planned, Carries, ReplacePublish
<1>7. Targets'
  BY <1>1, <1>2, <1>3, <1>4, NoneFields
  DEF ManagerIInv, Typed, SlotsTyped, Slots, Allocated, Targets, Planned, WithCand,
      GracefulOnly, OneSided, ReconcileOnly, OldInSlot, NewInSlot, Carries, ReplacePublish
<1>8. Guarded' /\ NoLostProcess'
  BY <1>1, <1>2, <1>3, <1>4, NoneFields
  DEF ManagerIInv, Typed, Guarded, NoLostProcess, Slots, Targets, Allocated, WithCand,
      SlotEmpty, OldInSlot, NewInSlot, ReplacePublish
<1>9. Files'
  BY <1>1, <1>2, <1>3, <1>4, NoneFields
  DEF ManagerIInv, Typed, SlotsTyped, HostTyped, Epochs, Slots, Targets, Allocated, OldInSlot,
      NewInSlot, SlotEmpty, Planned, Written, Compensated, ReconcileOnly, Files, Carries,
      WithCand, ReplacePublish
<1>10. Shown' /\ CleanAbort'
  BY <1>1, <1>2, <1>3, <1>4, NoneFields
  DEF ManagerIInv, Typed, SlotsTyped, Slots, Targets, Resting, Shown, CleanAbort, Running,
      Carries, OldInSlot, NewInSlot, SlotEmpty, WithCand, Allocated, Planned, ReplacePublish
<1> QED
  BY <1>5, <1>6, <1>7, <1>8, <1>9, <1>10 DEF ManagerIInv

(* The old config is put back before the old plan is launched again.       *)
LEMMA RollbackKeeps ==
  ASSUME ManagerIInv, NEW ok \in BOOLEAN, Rollback(ok)
  PROVE  ManagerIInv'
<1>1. /\ tx.pc = "rollback" /\ tx.plan # tx.old /\ tx.kind = "reconcile" /\ ~tx.graceful
      /\ tx.old \in EpochPlans /\ tx.old.epoch \in 1 .. epochs /\ tx.old.epoch \in Epochs
      /\ tx.plan.epoch \in Epochs /\ cand = None /\ current = None
  <2>1. /\ tx.pc = "rollback" /\ tx.plan # tx.old /\ tx.kind = "reconcile" /\ ~tx.graceful
        /\ tx.old.epoch \in 1 .. epochs /\ cand = None /\ current = None
    BY DEF Rollback, ManagerIInv, Slots, WithCand, SlotEmpty, Targets, ReconcileOnly, OneSided
  <2>2. Allocated(tx.old)
    BY <2>1 DEF Allocated
  <2> QED
    BY <2>1, <2>2, EpochFacts, AllocatedEpoch
    DEF Planned, Transactions, ManagerIInv, Typed, TxTyped, SlotsTyped
<1>2. /\ tx' \in Transactions /\ Carries(tx')
      /\ IF ok THEN tx'.pc = "replace" /\ tx'.plan = tx.old
         ELSE tx'.pc = "tail" /\ tx'.result = "err"
  <2> DEFINE r == [tx EXCEPT !.pc = "replace", !.plan = tx.old]
  <2>1. "replace" \in Steps /\ tx \in Transactions
    BY DEF Steps, ManagerIInv, Typed, TxTyped
  <2>2. r \in Transactions /\ r.pc = "replace" /\ r.plan = tx.old /\ Carries(r)
    BY <1>1, <2>1, TargetFields
  <2>3. IF ok THEN tx' = r ELSE tx' = Fails(TRUE)
    BY DEF Rollback
  <2> HIDE DEF r
  <2> QED
    BY <2>1, <2>2, <2>3, FailsFields
<1>3. disk' \in [Epochs -> Contents] /\ (ok => disk'[tx.old.epoch] = tx.old.cfg)
  <2>1. /\ IF tx.plan.epoch = tx.old.epoch THEN tx.backup = tx.old.cfg
           ELSE disk[tx.old.epoch] = tx.old.cfg
        /\ tx.backup \in Contents /\ disk \in [Epochs -> Contents]
    BY <1>1 DEF Transactions, ManagerIInv, Files, Compensated, Typed, TxTyped, HostTyped
  <2>2. CASE ok /\ tx.plan.epoch = tx.old.epoch
    <3>1. disk' = [disk EXCEPT ![tx.old.epoch] = tx.backup]
      BY <2>2 DEF Rollback
    <3> QED
      BY <1>1, <2>1, <2>2, <3>1, WrittenFields
  <2>3. CASE ok /\ tx.plan.epoch # tx.old.epoch
    <3>1. disk' = Cleaned(disk, tx.plan.epoch)
      BY <2>3 DEF Rollback
    <3> QED
      BY <1>1, <2>1, <2>3, <3>1, CleanedFields
  <2>4. CASE ~ok
    BY <2>1, <2>4 DEF Rollback
  <2> QED
    BY <2>2, <2>3, <2>4
<1>4. status' \in Statuses /\ (~ok => status'.state = "Stopped")
  BY <1>1, PublishFields, TerminalFields DEF Rollback
<1>5. Typed'
  BY <1>1, <1>2, <1>3, <1>4, NoneFields
  DEF ManagerIInv, Typed, SlotsTyped, HostTyped, TxTyped, Epochs, Rollback
<1>6. Slots'
  BY <1>1, <1>2, <1>3, <1>4, NoneFields
  DEF ManagerIInv, Typed, SlotsTyped, Slots, Allocated, SlotEmpty, OldInSlot, NewInSlot,
      WithCand, Targets, Planned, Carries, Rollback
<1>7. Targets'
  BY <1>1, <1>2, <1>3, <1>4, NoneFields
  DEF ManagerIInv, Typed, SlotsTyped, Slots, Allocated, Targets, Planned, WithCand,
      GracefulOnly, OneSided, ReconcileOnly, OldInSlot, NewInSlot, Carries, Rollback
<1>8. Guarded' /\ NoLostProcess'
  BY <1>1, <1>2, <1>3, <1>4, NoneFields
  DEF ManagerIInv, Typed, Guarded, NoLostProcess, Slots, Targets, Allocated, WithCand,
      SlotEmpty, OldInSlot, NewInSlot, Rollback
<1>9. Files'
  BY <1>1, <1>2, <1>3, <1>4, NoneFields
  DEF ManagerIInv, Typed, SlotsTyped, HostTyped, Epochs, Slots, Targets, Allocated, OldInSlot,
      NewInSlot, SlotEmpty, Planned, Written, Compensated, ReconcileOnly, Files, Carries,
      WithCand, Rollback
<1>10. Shown' /\ CleanAbort'
  BY <1>1, <1>2, <1>3, <1>4, NoneFields
  DEF ManagerIInv, Typed, SlotsTyped, Slots, Targets, Resting, Shown, CleanAbort, Running,
      Carries, OldInSlot, NewInSlot, SlotEmpty, WithCand, Allocated, Planned, Rollback
<1> QED
  BY <1>5, <1>6, <1>7, <1>8, <1>9, <1>10 DEF ManagerIInv

(***************************************************************************)
(* The tail, recovery, and what happens around a transaction               *)
(***************************************************************************)
(* The tail only looks at DNS.                                             *)
LEMMA ConvergeTailKeeps ==
  ASSUME ManagerIInv, NEW ok \in BOOLEAN, ConvergeTail(ok)
  PROVE  ManagerIInv'
<1>1. /\ tx' \in Transactions /\ tx'.pc = "idle"
  <2> DEFINE d == tx.dnsFailed \/ ~ok
             r == IF ok THEN tx.result ELSE "err"
  <2>1. d \in BOOLEAN
    BY Zenon
  <2>2. r \in {"none", "ok", "err", "RolledBack"}
    BY DEF Transactions, ManagerIInv, Typed, TxTyped
  <2>3. tx' = [tx EXCEPT !.pc = "idle", !.dnsFailed = d, !.result = r]
    BY DEF ConvergeTail, Transactions, ManagerIInv, Typed, TxTyped
  <2> HIDE DEF d, r
  <2> QED
    BY ZenonT(40), <2>1, <2>2, <2>3 DEF Transactions, Steps, ManagerIInv, Typed, TxTyped
<1>2. Typed'
  BY <1>1, NoneFields
  DEF ManagerIInv, Typed, SlotsTyped, HostTyped, TxTyped, Epochs, ConvergeTail
<1>3. Slots'
  BY <1>1, NoneFields
  DEF ManagerIInv, Typed, SlotsTyped, Slots, Allocated, SlotEmpty, OldInSlot, NewInSlot,
      WithCand, Targets, Planned, Carries, ConvergeTail
<1>4. Targets'
  BY <1>1, NoneFields
  DEF ManagerIInv, Typed, SlotsTyped, Slots, Allocated, Targets, Planned, WithCand,
      GracefulOnly, OneSided, ReconcileOnly, OldInSlot, NewInSlot, Carries, ConvergeTail
<1>5. Guarded' /\ NoLostProcess'
  BY <1>1, NoneFields
  DEF ManagerIInv, Typed, Guarded, NoLostProcess, Slots, Targets, Allocated, WithCand,
      SlotEmpty, OldInSlot, NewInSlot, ConvergeTail
<1>6. Files'
  BY <1>1, NoneFields
  DEF ManagerIInv, Typed, SlotsTyped, HostTyped, Epochs, Slots, Targets, Allocated, OldInSlot,
      NewInSlot, SlotEmpty, Planned, Written, Compensated, ReconcileOnly, Files, Carries,
      WithCand, ConvergeTail
<1>7. Shown' /\ CleanAbort'
  BY <1>1, NoneFields
  DEF ManagerIInv, Typed, SlotsTyped, Slots, Targets, Resting, Shown, CleanAbort, Running,
      Carries, OldInSlot, NewInSlot, SlotEmpty, WithCand, Allocated, Planned, ConvergeTail
<1> QED
  BY <1>2, <1>3, <1>4, <1>5, <1>6, <1>7 DEF ManagerIInv

(* What the pid records prove dead leaves the quarantine; nothing else     *)
(* does, and no file of a core in the slot goes with it.                   *)
LEMMA RecoverKeeps ==
  ASSUME ManagerIInv, NEW proven \in SUBSET Epochs, NEW cleaned \in SUBSET Epochs,
         NEW ok \in BOOLEAN, RecoverQuarantine(proven, cleaned, ok)
  PROVE  ManagerIInv'
<1> DEFINE dead == {q \in quarantine : q.proven \/ q.epoch \in proven}
           gone == {q \in dead : q.epoch \in cleaned}
           left(q) == [q EXCEPT !.proven = @ \/ q \in dead]
<1>1. /\ tx.pc = "idle" /\ UNCHANGED <<epochs, current, cand>>
      /\ strays' = strays \ {q.epoch : q \in dead}
      /\ disk' = [e \in Epochs |-> IF \E q \in gone : q.epoch = e THEN "none" ELSE disk[e]]
      /\ IF gone = quarantine THEN quarantine' = {}
         ELSE quarantine' = {left(q) : q \in quarantine \ gone}
  BY DEF RecoverQuarantine
<1>2. tx' \in Transactions /\ tx'.pc = "idle"
  <2>1. \/ \E r \in {"ok", "err"}, d \in BOOLEAN :
             tx' = [Idle EXCEPT !.kind = "recover", !.begin = current, !.result = r, !.dnsFailed = d]
        \/ tx' = [Idle EXCEPT !.kind = "recover", !.result = "err"]
    <3>1. (~ok) \in BOOLEAN
      BY Zenon
    <3> QED
      BY <3>1 DEF RecoverQuarantine
  <2> QED
    BY <2>1, IdleFields DEF Transactions, ManagerIInv, Typed, SlotsTyped
<1>3. \A q \in quarantine : /\ left(q) \in Entries /\ left(q).epoch = q.epoch
                            /\ q \notin dead => ~left(q).proven
  <2> SUFFICES ASSUME NEW q \in quarantine
               PROVE  /\ left(q) \in Entries /\ left(q).epoch = q.epoch
                      /\ q \notin dead => ~left(q).proven
    OBVIOUS
  <2> DEFINE b == q.proven \/ q \in dead
  <2>1. b \in BOOLEAN /\ (q \notin dead => ~b)
    <3>1. b \in BOOLEAN
      BY Zenon
    <3> QED
      BY <3>1
  <2>2. q \in Entries /\ left(q) = [q EXCEPT !.proven = b]
    BY DEF Entries, ManagerIInv, Typed, HostTyped
  <2> HIDE DEF b, left
  <2> QED
    BY <2>1, <2>2 DEF Entries
<1>4. status' \in Statuses /\ (status' = status \/ (status'.state = "Stopped" /\ status'.note = "latched"))
  BY NoneFields DEF RecoverQuarantine, LatchedStatus, Statuses, ManagerIInv, Typed, TxTyped
<1>5. quarantine' \subseteq Entries /\ \A p \in quarantine' : \E q \in quarantine : p.epoch = q.epoch
  <2> HIDE DEF left, gone
  <2> QED
    BY <1>1, <1>3
<1>6. strays' \subseteq Epochs /\ NoLostProcess'
  <2>1. strays' \subseteq Epochs
    BY <1>1 DEF ManagerIInv, Typed, HostTyped
  <2>2. ASSUME NEW e \in strays'
        PROVE  \E p \in quarantine' : p.epoch = e /\ ~p.proven
    <3>1. PICK q \in quarantine : q.epoch = e /\ ~q.proven
      BY <1>1 DEF ManagerIInv, NoLostProcess
    <3>2. q \notin dead
      BY <1>1, <3>1
    <3>3. q \notin gone /\ gone # quarantine
      BY <3>2
    <3> HIDE DEF left, gone, dead
    <3>4. left(q) \in quarantine' /\ left(q).epoch = e /\ ~left(q).proven
      BY <1>1, <1>3, <3>1, <3>2, <3>3
    <3> QED
      BY <3>4
  <2> QED
    BY <2>1, <2>2 DEF NoLostProcess
<1>7. /\ disk' \in [Epochs -> Contents]
      /\ current # None => disk'[current.plan.epoch] = disk[current.plan.epoch]
  <2>1. disk' \in [Epochs -> Contents]
    BY <1>1 DEF Contents, ManagerIInv, Typed, HostTyped
  <2>2. \A q \in gone : q.epoch # current.plan.epoch
    BY DEF ManagerIInv, Guarded
  <2>3. current # None => current.plan.epoch \in Epochs
    BY EpochFacts
  <2> HIDE DEF gone
  <2> QED
    BY <1>1, <2>1, <2>2, <2>3
<1>8. Typed'
  BY <1>1, <1>2, <1>4, <1>5, <1>6, <1>7 DEF ManagerIInv, Typed, SlotsTyped, HostTyped, TxTyped
<1> HIDE DEF dead, gone, left
<1>9. Slots' /\ Targets'
  BY <1>1, <1>2
  DEF ManagerIInv, Slots, Targets, Allocated, WithCand, OldInSlot, NewInSlot, SlotEmpty,
      Planned,
      GracefulOnly, OneSided, ReconcileOnly
<1>10. Guarded'
  BY <1>1, <1>2, <1>5 DEF ManagerIInv, Guarded
<1>11. Files' /\ Shown' /\ CleanAbort'
  BY <1>1, <1>2, <1>4, <1>7
  DEF ManagerIInv, Files, Written, Compensated, Shown, Resting, Running, CleanAbort
<1> QED
  BY <1>6, <1>8, <1>9, <1>10, <1>11 DEF ManagerIInv

(* A core that dies keeps its slot, its plan and its file.                 *)
LEMMA CurrentDiesKeeps ==
  ASSUME ManagerIInv, CurrentDies
  PROVE  ManagerIInv'
<1>1. /\ tx' \in Transactions /\ Carries(tx') /\ tx'.plan = tx.plan /\ tx'.pc = tx.pc
      /\ tx'.result = tx.result
  BY DEF CurrentDies, Transactions, Carries, ManagerIInv, Typed, TxTyped
<1>2. current' \in Instances /\ current'.plan = current.plan /\ current'.alive = FALSE
  BY DEF CurrentDies, Instances, ManagerIInv, Typed, SlotsTyped
<1>3. /\ UNCHANGED <<epochs, cand, strays, quarantine, disk, status>>
      /\ current # None /\ current' # None /\ current.plan.epoch \in Epochs /\ Allocated(current.plan)
  <2>1. current # None /\ Allocated(current.plan) /\ ~Allocated(None.plan)
    BY NoneFields DEF CurrentDies, Running, ManagerIInv, Slots, Allocated, Typed, SlotsTyped
  <2> QED
    BY <1>2, <2>1, EpochFacts DEF CurrentDies, Allocated
<1>4. Typed'
  BY <1>1, <1>2, <1>3, NoneFields
  DEF ManagerIInv, Typed, SlotsTyped, HostTyped, TxTyped, Epochs, CurrentDies
<1>5. Slots'
  BY <1>1, <1>2, <1>3, NoneFields
  DEF ManagerIInv, Typed, SlotsTyped, Slots, Allocated, SlotEmpty, OldInSlot, NewInSlot,
      WithCand, Targets, Planned, Carries, CurrentDies
<1>6. Targets'
  BY <1>1, <1>2, <1>3, NoneFields
  DEF ManagerIInv, Typed, SlotsTyped, Slots, Allocated, Targets, Planned, WithCand,
      GracefulOnly, OneSided, ReconcileOnly, OldInSlot, NewInSlot, Carries, CurrentDies
<1>7. Guarded' /\ NoLostProcess'
  BY <1>1, <1>2, <1>3, NoneFields
  DEF ManagerIInv, Typed, Guarded, NoLostProcess, Slots, Targets, Allocated, WithCand,
      SlotEmpty, OldInSlot, NewInSlot, CurrentDies
<1>8. Files'
  BY <1>1, <1>2, <1>3, NoneFields
  DEF ManagerIInv, Typed, SlotsTyped, HostTyped, Epochs, Slots, Targets, Allocated, OldInSlot,
      NewInSlot, SlotEmpty, Planned, Written, Compensated, ReconcileOnly, Files, Carries,
      WithCand, CurrentDies
<1>9. Shown' /\ CleanAbort'
  BY <1>1, <1>2, <1>3, NoneFields
  DEF ManagerIInv, Typed, SlotsTyped, Slots, Targets, Resting, Shown, CleanAbort, Running,
      Carries, OldInSlot, NewInSlot, SlotEmpty, WithCand, Allocated, Planned, CurrentDies
<1> QED
  BY <1>4, <1>5, <1>6, <1>7, <1>8, <1>9 DEF ManagerIInv

(* So does a candidate.                                                    *)
LEMMA CandidateDiesKeeps ==
  ASSUME ManagerIInv, CandidateDies
  PROVE  ManagerIInv'
<1>1. /\ tx' \in Transactions /\ Carries(tx') /\ tx'.plan = tx.plan /\ tx'.pc = tx.pc
      /\ tx'.result = tx.result
  BY DEF CandidateDies, Transactions, Carries, ManagerIInv, Typed, TxTyped
<1>2. /\ cand' \in Instances /\ cand'.plan = cand.plan
      /\ UNCHANGED <<epochs, current, strays, quarantine, disk, status>>
  BY DEF CandidateDies, Instances, ManagerIInv, Typed, SlotsTyped
<1>3. tx.pc \in WithCand
  BY NoneFields DEF CandidateDies, ManagerIInv, Slots
<1>4. Typed'
  BY <1>1, <1>2, <1>3, NoneFields
  DEF ManagerIInv, Typed, SlotsTyped, HostTyped, TxTyped, Epochs, CandidateDies
<1>5. Slots'
  BY <1>1, <1>2, <1>3, NoneFields
  DEF ManagerIInv, Typed, SlotsTyped, Slots, Allocated, SlotEmpty, OldInSlot, NewInSlot,
      WithCand, Targets, Planned, Carries, CandidateDies
<1>6. Targets'
  BY <1>1, <1>2, <1>3, NoneFields
  DEF ManagerIInv, Typed, SlotsTyped, Slots, Allocated, Targets, Planned, WithCand,
      GracefulOnly, OneSided, ReconcileOnly, OldInSlot, NewInSlot, Carries, CandidateDies
<1>7. Guarded' /\ NoLostProcess'
  BY <1>1, <1>2, <1>3, NoneFields
  DEF ManagerIInv, Typed, Guarded, NoLostProcess, Slots, Targets, Allocated, WithCand,
      SlotEmpty, OldInSlot, NewInSlot, CandidateDies
<1>8. Files'
  BY <1>1, <1>2, <1>3, NoneFields
  DEF ManagerIInv, Typed, SlotsTyped, HostTyped, Epochs, Slots, Targets, Allocated, OldInSlot,
      NewInSlot, SlotEmpty, Planned, Written, Compensated, ReconcileOnly, Files, Carries,
      WithCand, CandidateDies
<1>9. Shown' /\ CleanAbort'
  BY <1>1, <1>2, <1>3, NoneFields
  DEF ManagerIInv, Typed, SlotsTyped, Slots, Targets, Resting, Shown, CleanAbort, Running,
      Carries, OldInSlot, NewInSlot, SlotEmpty, WithCand, Allocated, Planned, CandidateDies
<1> QED
  BY <1>4, <1>5, <1>6, <1>7, <1>8, <1>9 DEF ManagerIInv

(* The forwarder shows the death of its epoch, and only that.              *)
LEMMA ForwardKeeps ==
  ASSUME ManagerIInv, Forward
  PROVE  ManagerIInv'
<1>1. /\ current' \in Instances /\ current'.plan = current.plan /\ current'.alive = current.alive
      /\ ~current.alive
  BY DEF Forward, Instances, ManagerIInv, Typed, SlotsTyped
<1>2. /\ status' \in Statuses /\ status'.rev = status.rev /\ status'.note = status.note
      /\ status'.state = status.state \/ status'.state = "Stopped"
  BY DEF Forward, Statuses, ManagerIInv, Typed, TxTyped
<1>3. /\ UNCHANGED <<epochs, cand, strays, quarantine, disk, tx>>
      /\ current # None /\ current' # None /\ current.plan.epoch \in Epochs /\ Allocated(current.plan)
  <2>1. current # None /\ Allocated(current.plan) /\ ~Allocated(None.plan)
    BY NoneFields DEF Forward, ManagerIInv, Slots, Allocated, Typed, SlotsTyped
  <2> QED
    BY <1>1, <2>1, EpochFacts DEF Forward, Allocated
<1>4. Typed'
  BY <1>1, <1>2, <1>3, NoneFields
  DEF ManagerIInv, Typed, SlotsTyped, HostTyped, TxTyped, Epochs, Forward
<1>5. Slots'
  BY <1>1, <1>2, <1>3, NoneFields
  DEF ManagerIInv, Typed, SlotsTyped, Slots, Allocated, SlotEmpty, OldInSlot, NewInSlot,
      WithCand, Targets, Planned, Carries, Forward
<1>6. Targets'
  BY <1>1, <1>2, <1>3, NoneFields
  DEF ManagerIInv, Typed, SlotsTyped, Slots, Allocated, Targets, Planned, WithCand,
      GracefulOnly, OneSided, ReconcileOnly, OldInSlot, NewInSlot, Carries, Forward
<1>7. Guarded' /\ NoLostProcess'
  BY <1>1, <1>2, <1>3, NoneFields
  DEF ManagerIInv, Typed, Guarded, NoLostProcess, Slots, Targets, Allocated, WithCand,
      SlotEmpty, OldInSlot, NewInSlot, Forward
<1>8. Files'
  BY <1>1, <1>2, <1>3, NoneFields
  DEF ManagerIInv, Typed, SlotsTyped, HostTyped, Epochs, Slots, Targets, Allocated, OldInSlot,
      NewInSlot, SlotEmpty, Planned, Written, Compensated, ReconcileOnly, Files, Carries,
      WithCand, Forward
<1>9. Shown' /\ CleanAbort'
  BY <1>1, <1>2, <1>3, NoneFields
  DEF ManagerIInv, Typed, SlotsTyped, Slots, Targets, Resting, Shown, CleanAbort, Running,
      Carries, OldInSlot, NewInSlot, SlotEmpty, WithCand, Allocated, Planned, Forward
<1> QED
  BY <1>4, <1>5, <1>6, <1>7, <1>8, <1>9 DEF ManagerIInv

(***************************************************************************)
(* The theorems                                                            *)
(***************************************************************************)
(* A manager that was just created satisfies the invariant.                *)
LEMMA ManagerInitially == ManagerInit => ManagerIInv
<1> SUFFICES ASSUME ManagerInit PROVE ManagerIInv
  OBVIOUS
<1>1. 0 \in 0 .. MaxEpochs /\ disk \in [Epochs -> Contents]
  BY ManagerAssumption DEF ManagerInit, Contents
<1>2. status \in Statuses /\ status.state = "Stopped" /\ tx \in Transactions /\ tx.pc = "idle"
  BY NoneFields, IdleFields DEF ManagerInit, Statuses
<1>3. Typed /\ Slots /\ Targets /\ Guarded /\ NoLostProcess
  BY <1>1, <1>2, NoneFields
  DEF ManagerInit, Typed, SlotsTyped, HostTyped, TxTyped, Slots, Targets, Guarded,
      NoLostProcess,
      WithCand, OldInSlot, NewInSlot, SlotEmpty, Planned, GracefulOnly, OneSided, ReconcileOnly
<1>4. Files /\ Shown /\ CleanAbort
  BY <1>2, NoneFields
  DEF ManagerInit, Files, Written, Compensated, Shown, Resting, Running, CleanAbort
<1> QED
  BY <1>3, <1>4 DEF ManagerIInv

(* Every entry into a transaction keeps the invariant.                     *)
LEMMA EnterKeeps == ManagerIInv /\ Enter => ManagerIInv'
<1> SUFFICES ASSUME ManagerIInv, Enter PROVE ManagerIInv'
  OBVIOUS
<1>1. CASE \E c \in Configs, kind \in {"start", "switch", "reconcile"} : EnterStart(kind, c)
  BY <1>1, EnterStartKeeps
<1>2. CASE \E c \in Configs, graceful \in BOOLEAN : EnterSwitch(c, graceful)
  BY <1>2, EnterSwitchKeeps
<1>3. CASE \E c \in Configs, change \in {"noop", "hot", "switch"} : BeginApply(c, change)
  BY <1>3, BeginApplyKeeps
<1>4. CASE \E ok \in BOOLEAN, kind \in {"stop", "shutdown"} : StopCurrent(kind, ok)
  BY <1>4, StopCurrentKeeps
<1>5. CASE \E ok \in BOOLEAN : StopNothing(ok)
  BY <1>5, StopNothingKeeps
<1>6. CASE \E proven, cleaned \in SUBSET Epochs, ok \in BOOLEAN :
             RecoverQuarantine(proven, cleaned, ok)
  BY <1>6, RecoverKeeps
<1> QED
  BY <1>1, <1>2, <1>3, <1>4, <1>5, <1>6 DEF Enter

(* Every step inside one does.                                             *)
LEMMA TransactionKeeps == ManagerIInv /\ TransactionStep => ManagerIInv'
<1> SUFFICES ASSUME ManagerIInv, TransactionStep PROVE ManagerIInv'
  OBVIOUS
<1>1. CASE Ready \/ Install \/ ApplyVerified \/ ApplyRestart \/ ReplaceInstall \/ ReplacePublish
  BY <1>1, ReadyKeeps, InstallKeeps, ApplyVerifiedKeeps, ApplyRestartKeeps, ReplaceInstallKeeps,
     ReplacePublishKeeps
<1>2. CASE \E ok \in BOOLEAN : \/ Prepare(ok) \/ LaunchPlan(ok) \/ GracefulSpawn(ok)
                               \/ CleanOld(ok) \/ Rollback(ok) \/ ConvergeTail(ok)
  BY <1>2, PrepareKeeps, LaunchPlanKeeps, GracefulSpawnKeeps, CleanOldKeeps, RollbackKeeps,
     ConvergeTailKeeps
<1>3. CASE \E ok, yes \in BOOLEAN : Spawn(ok, yes) \/ ApplySwitch(ok, yes) \/ Replace(ok, yes)
  BY <1>3, SpawnKeeps, ApplySwitchKeeps, ReplaceKeeps
<1>4. CASE \E ok, yes, undone \in BOOLEAN :
             SwitchPrepare(ok, yes, undone) \/ ApplyCommit(ok, yes, undone)
  BY <1>4, SwitchPrepareKeeps, ApplyCommitKeeps
<1>5. CASE \E outcome \in StopOutcomes : CompensatedRetire(outcome)
  BY <1>5, CompensatedRetireKeeps
<1>6. CASE \E outcome \in StopOutcomes, ok \in BOOLEAN :
             Discard(outcome, ok) \/ NotReady(outcome, ok) \/ Stopping(outcome, ok)
             \/ HardRetire(outcome, ok)
  BY <1>6, DiscardKeeps, NotReadyKeeps, StoppingKeeps, HardRetireKeeps
<1>7. CASE \E outcome \in StopOutcomes, ok \in BOOLEAN :
             GracefulReady(ok, outcome) \/ GracefulDns(ok, outcome) \/ GracefulCommit(ok, outcome)
             \/ GracefulVerify(ok, outcome) \/ ReplaceReady(ok, outcome)
  BY <1>7, GracefulReadyKeeps, GracefulDnsKeeps, GracefulCommitKeeps, GracefulVerifyKeeps,
     ReplaceReadyKeeps
<1>8. CASE \E outcome, new \in StopOutcomes : GracefulRetire(outcome, new)
  BY <1>8, GracefulRetireKeeps
<1> QED
  BY <1>1, <1>2, <1>3, <1>4, <1>5, <1>6, <1>7, <1>8 DEF TransactionStep

(* Nothing happens when nothing changes.                                   *)
LEMMA ManagerStutters == ManagerIInv /\ UNCHANGED mvars => ManagerIInv'
<1> SUFFICES ASSUME ManagerIInv, UNCHANGED mvars PROVE ManagerIInv'
  OBVIOUS
<1>1. UNCHANGED <<epochs, current, cand, strays, quarantine, disk, status, tx>>
  BY DEF mvars
<1>2. Typed' /\ Slots' /\ Targets' /\ Guarded' /\ NoLostProcess'
  BY <1>1
  DEF ManagerIInv, Typed, SlotsTyped, HostTyped, TxTyped, Slots, Targets, Allocated, Guarded,
              NoLostProcess
<1>3. Files' /\ Shown' /\ CleanAbort'
  BY <1>1 DEF ManagerIInv, Files, Shown, Running, CleanAbort
<1> QED
  BY <1>2, <1>3 DEF ManagerIInv

(* Every step of the manager keeps the invariant.                          *)
LEMMA ManagerSteps == ManagerIInv /\ [ManagerNext]_mvars => ManagerIInv'
  BY EnterKeeps, TransactionKeeps, CurrentDiesKeeps, CandidateDiesKeeps, ForwardKeeps,
     ManagerStutters DEF ManagerNext

(* The invariant holds along every run of the manager.                     *)
THEOREM ManagerInvariant == ManagerSpec => []ManagerIInv
  BY ManagerSteps, ManagerInitially, PTL DEF ManagerSpec

(* The invariant gives the manager its shape.                              *)
LEMMA ManagerShape == ManagerIInv => ManagerTypeOK
  BY
  DEF ManagerIInv, Typed, SlotsTyped, HostTyped, TxTyped, ManagerTypeOK, Statuses, Transactions,
         Entries, Instances, EpochPlans

(* The state of the manager keeps its shape.                               *)
THEOREM ManagerTypes == ManagerSpec => []ManagerTypeOK
  BY ManagerShape, ManagerInvariant, PTL

(* No process is lost: a live core that no instance stands for any more is *)
(* in quarantine and unproven (latch_quarantine, record_quarantine).       *)
THEOREM ProcessesAccounted == ManagerSpec => []NoLostProcess
<1>1. ManagerIInv => NoLostProcess
  BY DEF ManagerIInv
<1> QED
  BY <1>1, ManagerInvariant, PTL

(* No two live processes share an epoch: of the two slots both hold a live *)
(* core only in a graceful overlap, which has two epochs.                  *)
LEMMA EpochsApart == ManagerIInv => OneProcessPerEpoch
<1> SUFFICES ASSUME ManagerIInv PROVE OneProcessPerEpoch
  OBVIOUS
<1>1. \A e \in strays : e # current.plan.epoch /\ e # cand.plan.epoch
  BY DEF ManagerIInv, NoLostProcess, Guarded
<1>2. cand.alive /\ current.alive => tx.pc \in {"gready", "gdns", "gretire"}
  <2>1. cand.alive => tx.pc \in WithCand
    BY NoneFields DEF ManagerIInv, Slots
  <2>2. current.alive => tx.pc \notin SlotEmpty
    BY NoneFields DEF ManagerIInv, Slots
  <2> QED
    BY <2>1, <2>2 DEF WithCand, SlotEmpty
<1>3. tx.pc \in {"gready", "gdns", "gretire"} => cand.plan.epoch # current.plan.epoch
  BY DEF ManagerIInv, Slots, Targets, WithCand, OldInSlot, Planned, GracefulOnly
<1> QED
  BY <1>1, <1>2, <1>3 DEF OneProcessPerEpoch

(* A relaunch never runs next to an earlier process of its epoch.          *)
THEOREM EpochsExclusive == ManagerSpec => []OneProcessPerEpoch
  BY EpochsApart, ManagerInvariant, PTL

(* Between transactions the file of a live core is the one its plan says:  *)
(* every failed hot apply has been compensated on disk (apply_locked).     *)
THEOREM FilesCompensated == ManagerSpec => []DiskMatchesPlan
<1>1. ManagerIInv => DiskMatchesPlan
  BY DEF ManagerIInv, Files, DiskMatchesPlan, Running
<1> QED
  BY <1>1, ManagerInvariant, PTL

(* Between transactions Running is shown for the core in the slot, and a   *)
(* live core is shown unless a quarantine hid it (republish_retained).     *)
THEOREM StatusTruthful == ManagerSpec => []StatusNamesCurrent
<1>1. ManagerIInv => StatusNamesCurrent
  BY DEF ManagerIInv, Shown, Resting, StatusNamesCurrent
<1> QED
  BY <1>1, ManagerInvariant, PTL

(* A reconcile that fails or rolls back leaves the plan it found.          *)
THEOREM AbortsClean == ManagerSpec => []CleanAbort
<1>1. ManagerIInv => CleanAbort
  BY DEF ManagerIInv
<1> QED
  BY <1>1, ManagerInvariant, PTL

(***************************************************************************)
(* What clients are told.  The invariant: types, with the ring bounded     *)
(* (FeedTyped); a snapshot under way is of the status the bridge has marked*)
(* as seen (Fresh); whoever is connected, has not lagged and has not been  *)
(* told what the watches hold now will be, since the bridge has yet to look*)
(* (Telling); the same for the legacy stream (LegacyTold); and the last    *)
(* committed reconcile that is still unobserved names the core (LastWord). *)
(***************************************************************************)
Views == [1 .. 2 -> BOOLEAN]
RingEvents == [status: BOOLEAN, view: Views]
Observed ==
  {o \in [type: WireTypes, result: {"Committed", "RolledBack", "Failed"}, seen: BOOLEAN] :
     o.result = "Failed" => o.seen}
Bridges ==
  [phase: {"wait", "status", "echo"}, status: BOOLEAN, echo: BOOLEAN, raw: BOOLEAN,
   state: States, last: {"Running", "StoppedByCrash", "Stopped"}]
Connections ==
  [phase: {"off", "snapshot", "snapshotEcho", "loop"}, queue: Seq(RingEvents),
   lagged: BOOLEAN, raw: BOOLEAN, view: Views]

WatchTyped ==
  /\ manager \in [state: States, core: WireTypes \union {NoType}]
  /\ ops \in Seq(Observed) /\ v1 \in WireTypes \union {NoType}
  /\ echo \in [type: WireTypes \union {NoType}, applied: Nat] /\ echo.applied <= Len(ops)
BridgeTyped == bridge \in Bridges
ConnTyped ==
  /\ conn \in Connections /\ Len(conn.queue) <= HubCapacity
  /\ conn.lagged => conn.queue = << >>
FeedTyped == WatchTyped /\ BridgeTyped /\ ConnTyped

(* A bridge with a status in its hands read it after the last change.      *)
Fresh == bridge.phase # "wait" /\ bridge.status => bridge.raw

(* What a client holds once it has read its ring: the last status in the   *)
(* ring, or else what it has, is about to be sent, or will read.           *)
Held(c, n) ==
  CASE c.phase = "loop" -> c.view[n]
    [] c.phase = "snapshotEcho" /\ n = 1 -> c.raw
    [] OTHER -> TRUE
Told(c, n) ==
  \/ \E i \in 1 .. Len(c.queue) :
       /\ c.queue[i].status /\ c.queue[i].view[n]
       /\ \A j \in 1 .. Len(c.queue) : j > i => ~c.queue[j].status
  \/ (\A j \in 1 .. Len(c.queue) : ~c.queue[j].status) /\ Held(c, n)
Telling ==
  conn.phase # "off" /\ ~conn.lagged =>
    /\ bridge.status => bridge.phase = "status" \/ Told(conn, 1)
    /\ bridge.echo => Told(conn, 2)

LegacyHeld(last, state) ==
  last = MapCoreState(state) \/ (state \in {"Stopping", "Switching"} /\ last # "Running")
LegacyTold ==
  bridge.status =>
    IF bridge.phase = "status" THEN bridge.state = manager.state
    ELSE LegacyHeld(bridge.last, manager.state)

Awaited(c) ==
  c \in 1 .. Len(ops) /\ ops[c].result = "Committed" /\ ~ops[c].seen /\ c > echo.applied
LastWord ==
  raced = {} =>
    /\ v1 # NoType =>
         (\A i \in 1 .. Len(ops) : ops[i].seen) /\ manager.core \in {NoType, v1}
    /\ v1 = NoType /\ manager.core # NoType =>
         \/ \E c \in 1 .. Len(ops) : /\ Awaited(c) /\ ops[c].type = manager.core
                                     /\ \A d \in 1 .. Len(ops) : Awaited(d) => d <= c
         \/ (\A c \in 1 .. Len(ops) : ~Awaited(c)) /\ echo.type = manager.core

FeedIInv == FeedTyped /\ Fresh /\ Telling /\ LegacyTold /\ LastWord

(* A snapshot is a pair of answers.                                        *)
LEMMA PairView ==
  ASSUME NEW a \in BOOLEAN, NEW b \in BOOLEAN
  PROVE  <<a, b>> \in Views /\ <<a, b>>[1] = a /\ <<a, b>>[2] = b
  BY DEF Views

(* Two snapshots with the same answers are the same.                       *)
LEMMA ViewsEqual ==
  ASSUME NEW v \in Views, NEW u \in Views, v[1] = u[1], v[2] = u[2]
  PROVE  v = u
  BY DEF Views

(* A snapshot goes stale in one of its two parts.                          *)
LEMMA ViewStale ==
  ASSUME NEW v \in Views, NEW n \in {1, 2}
  PROVE  /\ [v EXCEPT ![n] = FALSE] \in Views
         /\ \A k \in {1, 2} : k # n => [v EXCEPT ![n] = FALSE][k] = v[k]
<1>1. 1 \in 1 .. 2 /\ 2 \in 1 .. 2
  OBVIOUS
<1>2. [v EXCEPT ![n] = FALSE] \in Views
  BY DEF Views
<1>3. \A k \in 1 .. 2 : k # n => [v EXCEPT ![n] = FALSE][k] = v[k]
  BY DEF Views
<1> QED BY <1>1, <1>2, <1>3

(* And so does every event in the ring.                                    *)
LEMMA QueueStale ==
  ASSUME NEW q \in Seq(RingEvents), NEW n \in {1, 2}
  PROVE  LET r == [i \in DOMAIN q |-> [q[i] EXCEPT !.view[n] = FALSE]]
         IN /\ r \in Seq(RingEvents) /\ Len(r) = Len(q) /\ (q = << >> => r = << >>)
            /\ \A i \in 1 .. Len(q) :
                 /\ r[i].status = q[i].status
                 /\ \A k \in {1, 2} : k # n => r[i].view[k] = q[i].view[k]
<1> DEFINE r == [i \in DOMAIN q |-> [q[i] EXCEPT !.view[n] = FALSE]]
<1>1. ASSUME NEW i \in 1 .. Len(q)
      PROVE  /\ r[i] \in RingEvents /\ r[i].status = q[i].status
             /\ \A k \in {1, 2} : k # n => r[i].view[k] = q[i].view[k]
  <2>1. q[i] \in RingEvents /\ i \in DOMAIN q
    OBVIOUS
  <2>2. r[i] = [q[i] EXCEPT !.view = [q[i].view EXCEPT ![n] = FALSE]]
    BY <2>1
  <2> DEFINE v == [q[i].view EXCEPT ![n] = FALSE]
  <2>3. v \in Views /\ \A k \in {1, 2} : k # n => v[k] = q[i].view[k]
    BY <2>1, ViewStale DEF RingEvents
  <2> HIDE DEF v
  <2>4. r[i] = [q[i] EXCEPT !.view = v]
    BY <2>2 DEF v
  <2> HIDE DEF r
  <2> QED BY <2>1, <2>3, <2>4 DEF RingEvents
<1>2. DOMAIN q = 1 .. Len(q) /\ Len(q) \in Nat
  OBVIOUS
<1>3. DOMAIN r = 1 .. Len(q)
  BY <1>2
<1>4. r = [i \in 1 .. Len(q) |-> r[i]]
  BY <1>2
<1>5. r \in Seq(RingEvents) /\ Len(r) = Len(q)
  <2>1. \A i \in 1 .. Len(q) : r[i] \in RingEvents
    BY <1>1
  <2> HIDE DEF r
  <2>2. r \in [1 .. Len(q) -> RingEvents]
    BY <1>4, <2>1
  <2> QED BY <1>2, <2>2
<1>6. q = << >> => r = << >>
  <2> HIDE DEF r
  <2> QED BY <1>5
<1> QED BY <1>1, <1>5, <1>6

(* A publication makes one part of every snapshot stale, and leaves the    *)
(* other as it was told.                                                   *)
LEMMA StaleKeeps ==
  ASSUME ConnTyped, NEW n \in {1, 2}, Stale(n)
  PROVE  /\ ConnTyped' /\ conn'.phase = conn.phase /\ conn'.lagged = conn.lagged
         /\ \A k \in {1, 2} : k # n /\ Told(conn, k) => Told(conn', k)
<1> DEFINE r == [i \in DOMAIN conn.queue |-> [conn.queue[i] EXCEPT !.view[n] = FALSE]]
           v == [conn.view EXCEPT ![n] = FALSE]
           w == conn.raw /\ n # 1
<1>1. conn \in Connections /\ conn.queue \in Seq(RingEvents) /\ conn.view \in Views
  BY DEF ConnTyped, Connections
<1>2. /\ r \in Seq(RingEvents) /\ Len(r) = Len(conn.queue) /\ (conn.queue = << >> => r = << >>)
      /\ \A i \in 1 .. Len(conn.queue) :
           /\ r[i].status = conn.queue[i].status
           /\ \A k \in {1, 2} : k # n => r[i].view[k] = conn.queue[i].view[k]
  BY <1>1, QueueStale
<1>3. v \in Views /\ \A k \in {1, 2} : k # n => v[k] = conn.view[k]
  BY <1>1, ViewStale
<1>4. w \in BOOLEAN
  BY Zenon
<1>5. conn' = [conn EXCEPT !.raw = w, !.view = v, !.queue = r]
  BY <1>1 DEF Stale, Connections
<1>6. n = 2 => w = conn.raw
  BY <1>1 DEF Connections
<1> HIDE DEF r, v, w
<1>7. /\ conn' \in Connections /\ conn'.phase = conn.phase /\ conn'.lagged = conn.lagged
      /\ conn'.queue = r /\ conn'.view = v /\ conn'.raw = w
  BY <1>1, <1>2, <1>3, <1>4, <1>5 DEF Connections
<1>8. ConnTyped'
  BY <1>2, <1>7 DEF ConnTyped
<1>9. ASSUME NEW k \in {1, 2}, k # n, Told(conn, k)
      PROVE  Told(conn', k)
  <2>1. Held(conn, k) => Held(conn', k)
    BY <1>3, <1>6, <1>7, <1>9 DEF Held
  <2>2. CASE \E i \in 1 .. Len(conn.queue) :
               /\ conn.queue[i].status /\ conn.queue[i].view[k]
               /\ \A j \in 1 .. Len(conn.queue) : j > i => ~conn.queue[j].status
    BY <1>2, <1>7, <1>9, <2>2 DEF Told
  <2>3. CASE (\A j \in 1 .. Len(conn.queue) : ~conn.queue[j].status) /\ Held(conn, k)
    BY <1>2, <1>7, <2>1, <2>3 DEF Told
  <2> QED BY <1>9, <2>2, <2>3 DEF Told
<1> QED BY <1>7, <1>8, <1>9

(* A send lengthens the ring, or leaves a gap.                             *)
LEMMA SendKeeps ==
  ASSUME ConnTyped, NEW events \in Seq(RingEvents), Send(events)
  PROVE  /\ ConnTyped' /\ conn'.phase = conn.phase /\ conn'.view = conn.view
         /\ conn'.raw = conn.raw
         /\ conn'.phase # "off" /\ ~conn'.lagged =>
              ~conn.lagged /\ conn'.queue = conn.queue \o events
<1> DEFINE q == conn.queue \o events
           gap == conn.lagged \/ Len(q) > HubCapacity
<1>1. conn \in Connections /\ conn.queue \in Seq(RingEvents)
  BY DEF ConnTyped, Connections
<1>2. CASE conn.phase = "off"
  BY <1>1, <1>2 DEF Send, ConnTyped
<1>3. CASE conn.phase # "off"
  <2>1. q \in Seq(RingEvents) /\ Len(q) \in Nat /\ << >> \in Seq(RingEvents)
    BY <1>1
  <2>2. gap \in BOOLEAN /\ HubCapacity \in Nat /\ Len(<< >>) = 0
    <3>1. gap \in BOOLEAN
      BY Zenon
    <3> QED BY <3>1, FeedAssumption
  <2>3. conn' = [conn EXCEPT !.lagged = gap, !.queue = IF gap THEN << >> ELSE q]
    BY <1>3 DEF Send
  <2>4. ~gap => Len(q) <= HubCapacity /\ ~conn.lagged
    BY <2>1, <2>2
  <2> HIDE DEF q, gap
  <2>5. /\ conn' \in Connections /\ conn'.phase = conn.phase /\ conn'.view = conn.view
        /\ conn'.raw = conn.raw /\ conn'.lagged = gap
        /\ conn'.queue = IF gap THEN << >> ELSE q
    BY <1>1, <2>1, <2>2, <2>3 DEF Connections
  <2>6. CASE gap
    BY <2>2, <2>5, <2>6 DEF ConnTyped
  <2>7. CASE ~gap
    <3>1. ConnTyped'
      BY <2>4, <2>5, <2>7 DEF ConnTyped
    <3> QED BY <2>4, <2>5, <2>7, <3>1 DEF q
  <2> QED BY <2>6, <2>7
<1> QED BY <1>2, <1>3

(* A status followed by nothing but other events is what a client holds.   *)
LEMMA SendTells ==
  ASSUME ConnTyped, NEW events \in Seq(RingEvents), Send(events), Len(events) > 0,
         events[1].status, \A j \in 2 .. Len(events) : ~events[j].status,
         conn'.phase # "off", ~conn'.lagged, NEW n \in {1, 2}, events[1].view[n]
  PROVE  Told(conn', n)
<1>1. conn'.queue = conn.queue \o events /\ conn.queue \in Seq(RingEvents)
  BY SendKeeps DEF ConnTyped, Connections
<1> DEFINE k == Len(conn.queue)
<1>2. /\ k \in Nat /\ Len(events) \in Nat /\ Len(conn'.queue) = k + Len(events)
      /\ \A j \in 1 .. Len(events) : conn'.queue[k + j] = events[j]
  BY <1>1
<1> HIDE DEF k
<1>3. k + 1 \in 1 .. Len(conn'.queue) /\ conn'.queue[k + 1] = events[1]
  BY <1>2
<1>4. ASSUME NEW j \in 1 .. Len(conn'.queue), j > k + 1
      PROVE  ~conn'.queue[j].status
  <2>1. j - k \in 2 .. Len(events) /\ j - k \in 1 .. Len(events) /\ k + (j - k) = j
    BY <1>2, <1>4
  <2>2. conn'.queue[k + (j - k)] = events[j - k]
    BY <1>2, <2>1
  <2> QED BY <2>1, <2>2
<1> QED BY <1>3, <1>4 DEF Told

(* An event that is no status changes nothing of what a client holds.      *)
LEMMA SendOther ==
  ASSUME ConnTyped, Send(<<Other>>), conn'.phase # "off", ~conn'.lagged,
         NEW n \in {1, 2}, Told(conn, n)
  PROVE  Told(conn', n)
<1>1. Other \in RingEvents /\ ~Other.status
  BY PairView DEF Other, RingEvents
<1>2. <<Other>> \in Seq(RingEvents) /\ Len(<<Other>>) = 1 /\ <<Other>>[1] = Other
  BY <1>1
<1>3. /\ conn'.queue = conn.queue \o <<Other>> /\ conn.queue \in Seq(RingEvents)
      /\ conn'.phase = conn.phase /\ conn'.view = conn.view /\ conn'.raw = conn.raw
  BY <1>2, SendKeeps DEF ConnTyped, Connections
<1> DEFINE k == Len(conn.queue)
<1>4. /\ k \in Nat /\ Len(conn'.queue) = k + 1 /\ conn'.queue[k + 1] = Other
      /\ \A j \in 1 .. k : conn'.queue[j] = conn.queue[j]
  BY <1>2, <1>3
<1>5. Held(conn', n) = Held(conn, n)
  BY <1>3 DEF Held
<1>6. \A j \in 1 .. Len(conn'.queue) : j \in 1 .. k \/ j = k + 1
  BY <1>4
<1>7. \A j \in 1 .. k : j \in 1 .. Len(conn'.queue)
  BY <1>4
<1> QED BY <1>1, <1>4, <1>5, <1>6, <1>7 DEF Told

(* The watches are unchanged: so is what is said of the reconciles.        *)
LEMMA WatchSame ==
  ASSUME WatchTyped, LastWord, UNCHANGED <<manager, ops, echo, v1, raced>>
  PROVE  WatchTyped' /\ LastWord'
  BY DEF WatchTyped, LastWord, Awaited

(* The status watch is replaced: the bridge has yet to look.               *)
LEMMA StatusReplaced ==
  ASSUME FeedIInv, NEW state \in States, NEW kind \in WireTypes \union {NoType},
         PublishStatus(state, kind)
  PROVE  /\ manager' \in [state: States, core: WireTypes \union {NoType}]
         /\ manager'.core = kind
         /\ BridgeTyped' /\ ConnTyped' /\ Fresh' /\ Telling' /\ LegacyTold'
<1> USE DEF FeedIInv
<1>1. manager' \in [state: States, core: WireTypes \union {NoType}] /\ manager'.core = kind
  BY DEF PublishStatus
<1>2. BridgeTyped' /\ ~bridge'.status /\ bridge'.echo = bridge.echo
  BY DEF PublishStatus, FeedTyped, BridgeTyped, Bridges
<1>3. /\ ConnTyped' /\ conn'.phase = conn.phase /\ conn'.lagged = conn.lagged
      /\ (Told(conn, 2) => Told(conn', 2))
  <2>1. Stale(1) /\ ConnTyped
    BY DEF PublishStatus, FeedTyped
  <2> QED BY <2>1, StaleKeeps
<1>4. Telling'
  BY <1>2, <1>3 DEF Telling
<1>5. Fresh' /\ LegacyTold'
  BY <1>2 DEF Fresh, LegacyTold
<1> QED BY <1>1, <1>2, <1>3, <1>4, <1>5

(* The echo watch is replaced: the bridge has yet to look.                 *)
LEMMA EchoReplaced ==
  ASSUME FeedIInv, Notify, UNCHANGED manager
  PROVE  BridgeTyped' /\ ConnTyped' /\ Fresh' /\ Telling' /\ LegacyTold'
<1> USE DEF FeedIInv
<1>1. /\ BridgeTyped' /\ ~bridge'.echo /\ bridge'.status = bridge.status
      /\ bridge'.phase = bridge.phase /\ bridge'.raw = bridge.raw
      /\ bridge'.state = bridge.state /\ bridge'.last = bridge.last
  BY DEF Notify, FeedTyped, BridgeTyped, Bridges
<1>2. /\ ConnTyped' /\ conn'.phase = conn.phase /\ conn'.lagged = conn.lagged
      /\ (Told(conn, 1) => Told(conn', 1))
  <2>1. Stale(2) /\ ConnTyped
    BY DEF Notify, FeedTyped
  <2> QED BY <2>1, StaleKeeps
<1>3. Telling'
  BY <1>1, <1>2 DEF Telling
<1>4. Fresh' /\ LegacyTold'
  BY <1>1 DEF Fresh, LegacyTold
<1> QED BY <1>1, <1>2, <1>3, <1>4

(* A transition keeps the core or loses it.                                *)
LEMMA TransitionKeeps ==
  ASSUME FeedIInv, NEW state \in Moves, Transition(state)
  PROVE  FeedIInv'
<1> USE DEF FeedIInv
<1> DEFINE kind == IF state \in {"Stopped", "Crashed"} THEN NoType ELSE manager.core
<1>1. state \in States /\ kind \in WireTypes \union {NoType} /\ kind \in {NoType, manager.core}
  BY FeedAssumption DEF FeedTyped, WatchTyped
<1>2. PublishStatus(state, kind) /\ UNCHANGED <<ops, echo, v1, raced>>
  BY DEF Transition
<1> HIDE DEF kind
<1>3. /\ manager' \in [state: States, core: WireTypes \union {NoType}]
      /\ manager'.core = kind
      /\ BridgeTyped' /\ ConnTyped' /\ Fresh' /\ Telling' /\ LegacyTold'
  BY <1>1, <1>2, StatusReplaced
<1>4. WatchTyped'
  BY <1>2, <1>3 DEF FeedTyped, WatchTyped
<1>5. LastWord'
  BY <1>1, <1>2, <1>3 DEF LastWord, Awaited
<1> QED BY <1>3, <1>4, <1>5 DEF FeedTyped

(* One more operation of the executor.                                     *)
LEMMA OpAppended ==
  ASSUME WatchTyped, NEW op \in Observed, ops' = Append(ops, op), UNCHANGED echo
  PROVE  /\ ops' \in Seq(Observed) /\ Len(ops') = Len(ops) + 1 /\ Len(ops) \in Nat
         /\ \A i \in 1 .. Len(ops) : i \in 1 .. Len(ops') /\ ops'[i] = ops[i]
         /\ ops'[Len(ops) + 1] = op /\ Len(ops) + 1 \in 1 .. Len(ops')
         /\ \A i \in 1 .. Len(ops') : i \in 1 .. Len(ops) \/ i = Len(ops) + 1
         /\ echo'.applied <= Len(ops') /\ echo.applied < Len(ops) + 1
<1>1. /\ ops' \in Seq(Observed) /\ Len(ops') = Len(ops) + 1 /\ Len(ops) \in Nat
      /\ \A i \in 1 .. Len(ops) : ops'[i] = ops[i]
      /\ ops'[Len(ops) + 1] = op
  BY DEF WatchTyped
<1>2. echo'.applied = echo.applied /\ echo.applied \in Nat /\ echo.applied <= Len(ops)
  BY DEF WatchTyped
<1>3. /\ \A i \in 1 .. Len(ops) : i \in 1 .. Len(ops')
      /\ \A i \in 1 .. Len(ops') : i \in 1 .. Len(ops) \/ i = Len(ops) + 1
      /\ Len(ops) + 1 \in 1 .. Len(ops')
  BY <1>1
<1>4. echo'.applied <= Len(ops') /\ echo.applied < Len(ops) + 1
  BY <1>1, <1>2
<1> QED BY <1>1, <1>3, <1>4

(* A reconcile ends: committed it is the last that is awaited, rolled back *)
(* or failed the core is what it was.                                      *)
LEMMA ReconciledKeeps ==
  ASSUME FeedIInv, NEW type \in WireTypes, NEW result \in {"Committed", "RolledBack", "Failed"},
         Reconciled(type, result)
  PROVE  FeedIInv'
<1> USE DEF FeedIInv
<1> DEFINE op == [type |-> type, result |-> result, seen |-> result = "Failed"]
<1>1. /\ ops' = Append(ops, op) /\ UNCHANGED <<echo, v1>>
      /\ raced' = raced \union {r \in {"v1"} : v1 # NoType}
  BY DEF Reconciled
<1>2. (result = "Failed") \in BOOLEAN
  BY Zenon
<1>3. /\ op \in Observed /\ op.type = type /\ op.result = result
      /\ (op.seen <=> result = "Failed")
  BY <1>2 DEF Observed
<1> HIDE DEF op
<1>4. /\ ops' \in Seq(Observed) /\ Len(ops') = Len(ops) + 1 /\ Len(ops) \in Nat
      /\ \A i \in 1 .. Len(ops) : i \in 1 .. Len(ops') /\ ops'[i] = ops[i]
      /\ ops'[Len(ops) + 1] = op /\ Len(ops) + 1 \in 1 .. Len(ops')
      /\ \A i \in 1 .. Len(ops') : i \in 1 .. Len(ops) \/ i = Len(ops) + 1
      /\ echo'.applied <= Len(ops') /\ echo.applied < Len(ops) + 1
  BY <1>1, <1>3, OpAppended DEF FeedTyped
<1>5. /\ manager' \in [state: States, core: WireTypes \union {NoType}]
      /\ manager'.core = (IF result = "Committed" THEN type ELSE manager.core)
      /\ BridgeTyped' /\ ConnTyped' /\ Fresh' /\ Telling' /\ LegacyTold'
  <2>1. "Running" \in States /\ type \in WireTypes \union {NoType}
        /\ manager.core \in WireTypes \union {NoType}
    BY DEF States, FeedTyped, WatchTyped
  <2>2. CASE result = "Committed"
    <3>1. PublishStatus("Running", type)
      BY <2>2 DEF Reconciled
    <3> QED BY <2>1, <2>2, <3>1, StatusReplaced
  <2>3. CASE result = "RolledBack"
    <3>1. PublishStatus("Running", manager.core)
      BY <2>3 DEF Reconciled
    <3> QED BY <2>1, <2>3, <3>1, StatusReplaced
  <2>4. CASE result = "Failed"
    <3>1. UNCHANGED <<manager, bridge, conn>>
      BY <2>4 DEF Reconciled
    <3> QED BY <2>4, <3>1 DEF FeedTyped, WatchTyped, BridgeTyped, ConnTyped, Fresh, Telling,
                           LegacyTold
  <2> QED BY <2>2, <2>3, <2>4
<1>6. WatchTyped'
  BY <1>1, <1>4, <1>5 DEF FeedTyped, WatchTyped
<1>7. LastWord'
  <2> SUFFICES ASSUME raced' = {} PROVE LastWord'
    BY DEF LastWord
  <2>1. raced = {} /\ v1 = NoType /\ v1' = NoType /\ echo' = echo
    BY <1>1
  <2>2. \A i \in 1 .. Len(ops) : Awaited(i)' <=> Awaited(i)
    BY <1>4, <2>1 DEF Awaited
  <2>3. \A k \in 1 .. Len(ops') : k = Len(ops) + 1 => (Awaited(k)' <=> result = "Committed")
    BY <1>3, <1>4, <2>1 DEF Awaited
  <2>4. CASE result = "Committed"
    <3>1. \A d \in 1 .. Len(ops') : d <= Len(ops) + 1
      BY <1>4
    <3>2. ops'[Len(ops) + 1].type = manager'.core
      BY <1>3, <1>4, <1>5, <2>4
    <3>3. \E c \in 1 .. Len(ops') : /\ Awaited(c)' /\ ops'[c].type = manager'.core
                                      /\ \A d \in 1 .. Len(ops') : d <= c
      BY <1>4, <2>3, <2>4, <3>1, <3>2
    <3> QED BY <2>1, <3>3 DEF LastWord
  <2>5. CASE result # "Committed"
    <3>1. manager'.core = manager.core
      BY <1>5, <2>5
    <3>2. \A i \in 1 .. Len(ops') : Awaited(i)' => i \in 1 .. Len(ops) /\ Awaited(i)
      BY <1>4, <2>2, <2>3, <2>5
    <3>3. CASE \E c \in 1 .. Len(ops) : /\ Awaited(c) /\ ops[c].type = manager.core
                                        /\ \A d \in 1 .. Len(ops) : Awaited(d) => d <= c
      <4>1. PICK c \in 1 .. Len(ops) : /\ Awaited(c) /\ ops[c].type = manager.core
                                       /\ \A d \in 1 .. Len(ops) : Awaited(d) => d <= c
        BY <3>3
      <4>2. c \in 1 .. Len(ops') /\ Awaited(c)' /\ ops'[c].type = manager'.core
        BY <1>4, <2>2, <3>1, <4>1
      <4> QED BY <2>1, <3>2, <4>1, <4>2 DEF LastWord
    <3>4. CASE (\A c \in 1 .. Len(ops) : ~Awaited(c)) /\ echo.type = manager.core
      BY <2>1, <3>1, <3>2, <3>4 DEF LastWord
    <3>5. CASE manager.core = NoType
      BY <2>1, <3>1, <3>5 DEF LastWord
    <3> QED BY <2>1, <3>3, <3>4, <3>5 DEF LastWord
  <2> QED BY <2>4, <2>5
<1> QED BY <1>5, <1>6, <1>7 DEF FeedTyped

(* An observer is late, publishes its type, or refreshes: whichever comes, *)
(* the last committed reconcile keeps the last word.                       *)
LEMMA ObserveKeeps ==
  ASSUME FeedIInv, NEW i \in DOMAIN ops, Observe(i)
  PROVE  FeedIInv'
<1> USE DEF FeedIInv
<1> DEFINE op == [ops[i] EXCEPT !.seen = TRUE]
           type == IF ops[i].result = "Committed" THEN ops[i].type ELSE echo.type
<1>1. /\ ~ops[i].seen /\ UNCHANGED <<manager, v1, used>>
      /\ raced' = raced \union {r \in {"rollback"} : ops[i].result = "RolledBack" /\ \E j \in 1 .. (i - 1) : ~ops[j].seen}
      /\ \/ HadLastWord(i) /\ UNCHANGED <<echo, bridge, conn>>
         \/ ~HadLastWord(i) /\ echo' = [type |-> type, applied |-> i] /\ Notify
  BY DEF Observe
<1>2. /\ ops \in Seq(Observed) /\ Len(ops) \in Nat /\ DOMAIN ops = 1 .. Len(ops)
      /\ ops[i] \in Observed /\ i \in 1 .. Len(ops) /\ i \in Nat
  BY DEF FeedTyped, WatchTyped
<1>3. op \in Observed /\ op.seen /\ op.type = ops[i].type /\ op.result = ops[i].result
  BY <1>2 DEF Observed
<1>4. /\ ops' \in Seq(Observed) /\ Len(ops') = Len(ops) /\ ops'[i] = op
      /\ \A j \in 1 .. Len(ops) : j # i => ops'[j] = ops[j]
  <2>1. ops' = [ops EXCEPT ![i] = op]
    BY <1>2 DEF Observe
  <2> HIDE DEF op
  <2> QED BY <1>2, <1>3, <2>1
<1> HIDE DEF op
<1>5. type \in WireTypes \union {NoType}
  BY <1>2 DEF FeedTyped, WatchTyped, Observed
<1>6. BridgeTyped' /\ ConnTyped' /\ Fresh' /\ Telling' /\ LegacyTold'
  <2>1. CASE Notify
    BY <1>1, <2>1, EchoReplaced
  <2>2. CASE UNCHANGED <<bridge, conn>>
    BY <1>1, <2>2 DEF FeedTyped, BridgeTyped, ConnTyped, Fresh, Telling, LegacyTold
  <2> QED BY <1>1, <2>1, <2>2
<1>7. /\ echo \in [type: WireTypes \union {NoType}, applied: Nat] /\ echo.applied <= Len(ops)
      /\ echo.applied \in Nat
  BY DEF FeedTyped, WatchTyped
<1>8. /\ echo' \in [type: WireTypes \union {NoType}, applied: Nat] /\ echo'.applied <= Len(ops)
      /\ \/ i <= echo.applied /\ echo' = echo
         \/ echo.applied < i /\ echo'.applied = i /\ echo'.type = type
  <2> HIDE DEF type
  <2>1. CASE HadLastWord(i)
    BY <1>1, <1>2, <1>7, <2>1 DEF HadLastWord
  <2>2. CASE ~HadLastWord(i)
    <3>1. echo.applied < i
      BY <1>2, <1>7, <2>2 DEF HadLastWord
    <3>2. echo' = [type |-> type, applied |-> i]
      BY <1>1, <2>2
    <3> QED BY <1>2, <1>5, <3>1, <3>2
  <2> QED BY <2>1, <2>2
<1>9. WatchTyped'
  BY <1>1, <1>4, <1>8 DEF FeedTyped, WatchTyped
<1>10. LastWord'
  <2> SUFFICES ASSUME raced' = {} PROVE LastWord'
    BY DEF LastWord
  <2>1. raced = {} /\ v1' = v1 /\ manager' = manager
    BY <1>1
  <2>2. v1 = NoType
    BY <1>1, <1>2, <2>1 DEF LastWord
  <2>3. CASE manager.core = NoType
    BY <2>1, <2>2, <2>3 DEF LastWord
  <2>4. CASE manager.core # NoType
    <3>1. \A j \in 1 .. Len(ops) : Awaited(j)' => j # i /\ Awaited(j)
      BY <1>2, <1>3, <1>4, <1>7, <1>8 DEF Awaited
    <3>2. \A j \in 1 .. Len(ops) : j > i /\ Awaited(j) => Awaited(j)'
      BY <1>2, <1>3, <1>4, <1>7, <1>8 DEF Awaited
    <3>3. echo' = echo => \A j \in 1 .. Len(ops) : j # i /\ Awaited(j) => Awaited(j)'
      BY <1>4 DEF Awaited
    <3>4. CASE \E c \in 1 .. Len(ops) : /\ Awaited(c) /\ ops[c].type = manager.core
                                        /\ \A d \in 1 .. Len(ops) : Awaited(d) => d <= c
      <4>1. PICK c \in 1 .. Len(ops) : /\ Awaited(c) /\ ops[c].type = manager.core
                                       /\ \A d \in 1 .. Len(ops) : Awaited(d) => d <= c
        BY <3>4
      <4>2. c \in Nat /\ ~ops[c].seen /\ ops[c].result = "Committed" /\ c > echo.applied
        BY <1>2, <4>1 DEF Awaited
      <4>3. CASE c = i
        <5>1. echo'.applied = c /\ echo'.type = manager.core
          BY <1>2, <1>7, <1>8, <4>1, <4>2, <4>3
        <5>2. \A d \in 1 .. Len(ops) : ~Awaited(d)'
          BY <1>2, <3>1, <4>1, <4>2, <5>1 DEF Awaited
        <5> QED BY <1>4, <2>1, <2>2, <5>1, <5>2 DEF LastWord
      <4>4. CASE c # i
        <5>1. Awaited(c)'
          <6>1. CASE c > i
            BY <3>2, <4>1, <6>1
          <6>2. CASE c < i
            <7>1. ops[i].result # "RolledBack"
              <8>1. c \in 1 .. (i - 1)
                BY <1>2, <4>2, <4>1, <6>2
              <8> QED BY <1>1, <4>2, <8>1
            <7>2. ops[i].result # "Committed"
              <8>1. SUFFICES ASSUME ops[i].result = "Committed" PROVE FALSE
                OBVIOUS
              <8>2. i > echo.applied
                BY <1>2, <1>7, <4>2, <6>2
              <8>3. Awaited(i)
                BY <1>1, <1>2, <8>1, <8>2 DEF Awaited
              <8> QED BY <1>2, <4>1, <4>2, <6>2, <8>3
            <7>3. ops[i].result # "Failed"
              BY <1>1, <1>2 DEF Observed
            <7> QED BY <1>2, <7>1, <7>2, <7>3 DEF Observed
          <6> QED BY <1>2, <4>2, <4>4, <6>1, <6>2
        <5>2. ops'[c].type = manager'.core
          BY <1>4, <2>1, <4>1, <4>4
        <5> QED BY <1>4, <2>1, <2>2, <3>1, <4>1, <5>1, <5>2 DEF LastWord
      <4> QED BY <4>3, <4>4
    <3>5. CASE (\A c \in 1 .. Len(ops) : ~Awaited(c)) /\ echo.type = manager.core
      <4>1. \A d \in 1 .. Len(ops) : ~Awaited(d)'
        BY <3>1, <3>5
      <4>2. echo'.type = echo.type
        <5>1. CASE echo' = echo
          BY <5>1
        <5>2. CASE echo.applied < i /\ echo'.type = type
          <6>1. ops[i].result # "Committed"
            BY <1>1, <1>2, <3>5, <5>2 DEF Awaited
          <6> QED BY <5>2, <6>1
        <5> QED BY <1>8, <5>1, <5>2
      <4> QED BY <1>4, <2>1, <2>2, <3>5, <4>1, <4>2 DEF LastWord
    <3> QED BY <2>1, <2>2, <2>4, <3>4, <3>5 DEF LastWord
  <2> QED BY <2>3, <2>4
<1> QED BY <1>6, <1>9, <1>10 DEF FeedTyped

(* A v1 start puts its core up, and its echo follows.                      *)
LEMMA V1Keeps ==
  ASSUME FeedIInv, V1Publish \/ \E type \in WireTypes : V1Start(type)
  PROVE  FeedIInv'
<1> USE DEF FeedIInv
<1>1. CASE V1Publish
  <2>1. /\ v1 # NoType /\ v1' = NoType /\ echo' = [echo EXCEPT !.type = v1] /\ Notify
        /\ UNCHANGED <<manager, ops, raced>>
    BY <1>1 DEF V1Publish
  <2>2. BridgeTyped' /\ ConnTyped' /\ Fresh' /\ Telling' /\ LegacyTold'
    BY <2>1, EchoReplaced
  <2>3. /\ echo' \in [type: WireTypes \union {NoType}, applied: Nat] /\ echo'.type = v1
        /\ echo'.applied = echo.applied
    BY <2>1 DEF FeedTyped, WatchTyped
  <2>4. WatchTyped'
    BY <2>1, <2>3 DEF FeedTyped, WatchTyped
  <2>5. LastWord'
    BY <2>1, <2>3 DEF LastWord, Awaited
  <2> QED BY <2>2, <2>4, <2>5 DEF FeedTyped
<1>2. ASSUME NEW type \in WireTypes, V1Start(type) PROVE FeedIInv'
  <2>1. /\ v1 = NoType /\ manager.core = NoType /\ PublishStatus("Running", type) /\ v1' = type
        /\ raced' = raced \union {r \in {"v1"} : \E i \in DOMAIN ops : ~ops[i].seen}
        /\ UNCHANGED <<ops, echo>>
    BY <1>2 DEF V1Start
  <2>2. "Running" \in States /\ type \in WireTypes \union {NoType}
    BY DEF States
  <2>3. /\ manager' \in [state: States, core: WireTypes \union {NoType}]
        /\ manager'.core = type
        /\ BridgeTyped' /\ ConnTyped' /\ Fresh' /\ Telling' /\ LegacyTold'
    BY <2>1, <2>2, StatusReplaced
  <2>4. WatchTyped'
    BY <2>1, <2>2, <2>3 DEF FeedTyped, WatchTyped
  <2>5. LastWord'
    <3>1. DOMAIN ops = 1 .. Len(ops)
      BY DEF FeedTyped, WatchTyped
    <3>2. raced' = {} => \A i \in 1 .. Len(ops) : ops[i].seen
      BY <2>1, <3>1
    <3> QED BY <2>1, <2>3, <3>2 DEF LastWord
  <2> QED BY <2>3, <2>4, <2>5 DEF FeedTyped
<1> QED BY <1>1, <1>2

(* The bridge looks at a watch: nothing is told yet.                       *)
LEMMA BridgeLooks ==
  ASSUME FeedIInv, BridgeStatus \/ BridgeEcho
  PROVE  FeedIInv'
<1> USE DEF FeedIInv
<1>1. /\ UNCHANGED <<manager, ops, echo, v1, conn, used, raced>> /\ bridge.phase = "wait"
  BY DEF BridgeStatus, BridgeEcho
<1>2. bridge \in Bridges /\ manager.state \in States
  BY DEF FeedTyped, BridgeTyped, WatchTyped
<1>3. WatchTyped' /\ LastWord' /\ ConnTyped'
  BY <1>1, WatchSame DEF FeedTyped, ConnTyped
<1>4. CASE BridgeStatus
  <2>1. bridge' = [bridge EXCEPT !.phase = "status", !.status = TRUE, !.raw = TRUE,
                                 !.state = manager.state]
    BY <1>4 DEF BridgeStatus
  <2>2. /\ bridge' \in Bridges /\ bridge'.phase = "status" /\ bridge'.raw
        /\ bridge'.state = manager.state /\ bridge'.echo = bridge.echo
    BY <1>2, <2>1 DEF Bridges
  <2> QED BY <1>1, <1>3, <2>2 DEF FeedTyped, BridgeTyped, Fresh, Telling, LegacyTold
<1>5. CASE BridgeEcho
  <2>1. bridge' = [bridge EXCEPT !.phase = "echo", !.raw = TRUE]
    BY <1>5 DEF BridgeEcho
  <2>2. /\ bridge' \in Bridges /\ bridge'.phase = "echo" /\ bridge'.raw
        /\ bridge'.status = bridge.status /\ bridge'.echo = bridge.echo
        /\ bridge'.last = bridge.last
    BY <1>2, <2>1 DEF Bridges
  <2> QED BY <1>1, <1>3, <2>2 DEF FeedTyped, BridgeTyped, Fresh, Telling, LegacyTold
<1> QED BY <1>4, <1>5

(* A status event of what the bridge read, and perhaps two others.         *)
LEMMA StatusEvents ==
  ASSUME NEW raw \in BOOLEAN, NEW quiet \in BOOLEAN
  PROVE  LET events == <<Status(<<raw, TRUE>>)>> \o IF quiet THEN << >> ELSE <<Other, Other>>
         IN /\ events \in Seq(RingEvents) /\ Len(events) > 0 /\ events[1].status
            /\ \A j \in 2 .. Len(events) : ~events[j].status
            /\ events[1].view[1] = raw /\ events[1].view[2] = TRUE
<1> DEFINE s == Status(<<raw, TRUE>>)
<1>1. s \in RingEvents /\ s.status /\ s.view[1] = raw /\ s.view[2] = TRUE
  BY PairView DEF Status, RingEvents
<1>2. Other \in RingEvents /\ ~Other.status
  BY PairView DEF Other, RingEvents
<1> HIDE DEF s
<1>3. CASE quiet
  <2>1. <<s>> \o << >> \in Seq(RingEvents) /\ Len(<<s>> \o << >>) = 1 /\ (<<s>> \o << >>)[1] = s
    BY <1>1
  <2> QED BY <1>1, <1>3, <2>1 DEF s
<1>4. CASE ~quiet
  <2> DEFINE t == <<s>> \o <<Other, Other>>
  <2>1. /\ t \in Seq(RingEvents) /\ Len(t) = 3 /\ t[1] = s /\ t[2] = Other /\ t[3] = Other
    BY <1>1, <1>2
  <2>2. \A j \in 2 .. 3 : j = 2 \/ j = 3
    OBVIOUS
  <2> HIDE DEF t
  <2>3. /\ Len(t) > 0 /\ t[1].status /\ t[1].view[1] = raw /\ t[1].view[2] = TRUE
        /\ \A j \in 2 .. Len(t) : ~t[j].status
    BY <1>1, <1>2, <2>1, <2>2
  <2> QED BY <1>4, <2>1, <2>3 DEF s, t
<1> QED BY <1>3, <1>4

(* The bridge tells what it read; the guards of the legacy stream hold     *)
(* back exactly what its client already holds.                             *)
LEMMA BridgeTells ==
  ASSUME FeedIInv, BridgeStatusSends \/ BridgeEchoSends
  PROVE  FeedIInv'
<1> USE DEF FeedIInv
<1>1. UNCHANGED <<manager, ops, echo, v1, used, raced>> /\ bridge.phase # "wait"
  BY DEF BridgeStatusSends, BridgeEchoSends
<1>2. bridge \in Bridges /\ bridge.raw \in BOOLEAN /\ ConnTyped /\ bridge.state \in States
  BY DEF FeedTyped, BridgeTyped, Bridges
<1>3. WatchTyped' /\ LastWord'
  BY <1>1, WatchSame DEF FeedTyped
<1>4. PICK quiet \in BOOLEAN :
        /\ Send(<<Status(<<bridge.raw, TRUE>>)>> \o IF quiet THEN << >> ELSE <<Other, Other>>)
        /\ BridgeStatusSends => (quiet <=> Suppressed(bridge.state, bridge.last))
  <2>1. CASE BridgeStatusSends
    <3>1. Suppressed(bridge.state, bridge.last) \in BOOLEAN
      BY Zenon DEF Suppressed
    <3> QED BY <2>1, <3>1 DEF BridgeStatusSends
  <2>2. CASE BridgeEchoSends /\ ~BridgeStatusSends
    <3> DEFINE s == <<Status(<<bridge.raw, TRUE>>)>>
    <3>1. Status(<<bridge.raw, TRUE>>) \in RingEvents
      BY <1>2, PairView DEF Status, RingEvents
    <3>2. s \in Seq(RingEvents)
      BY <3>1
    <3> HIDE DEF s
    <3>3. s \o << >> = s
      BY <3>2
    <3>4. Send(s \o << >>)
      BY <2>2, <3>3 DEF BridgeEchoSends, s
    <3> QED BY <2>2, <3>4 DEF s
  <2> QED BY <2>1, <2>2
<1> DEFINE events == <<Status(<<bridge.raw, TRUE>>)>> \o IF quiet THEN << >> ELSE <<Other, Other>>
<1>5. /\ events \in Seq(RingEvents) /\ Len(events) > 0 /\ events[1].status
      /\ \A j \in 2 .. Len(events) : ~events[j].status
      /\ events[1].view[1] = bridge.raw /\ events[1].view[2] = TRUE
  BY <1>2, StatusEvents
<1>6. Send(events)
  BY <1>4
<1> HIDE DEF events
<1>7. ConnTyped'
  BY <1>2, <1>5, <1>6, SendKeeps
<1>8. conn'.phase # "off" /\ ~conn'.lagged =>
        (bridge.raw => Told(conn', 1)) /\ Told(conn', 2)
  BY <1>2, <1>5, <1>6, SendTells
<1>9. /\ bridge' \in Bridges /\ bridge'.phase = "wait" /\ bridge'.echo
      /\ bridge'.status = bridge.status
      /\ (bridge.phase = "echo" => bridge'.last = bridge.last)
  <2>1. CASE BridgeStatusSends
    <3> DEFINE last == IF Suppressed(bridge.state, bridge.last) THEN bridge.last
                       ELSE MapCoreState(bridge.state)
    <3>1. last \in {"Running", "StoppedByCrash", "Stopped"}
      BY <1>2 DEF Bridges, MapCoreState
    <3>2. /\ bridge.phase = "status"
          /\ bridge' = [bridge EXCEPT !.phase = "wait", !.echo = TRUE, !.raw = FALSE,
                                      !.state = "Stopped", !.last = last]
      BY <2>1 DEF BridgeStatusSends
    <3> HIDE DEF last
    <3>3. "Stopped" \in States
      BY DEF States
    <3> QED BY <1>2, <3>1, <3>2, <3>3 DEF Bridges
  <2>2. CASE BridgeEchoSends
    BY <1>2, <2>2 DEF BridgeEchoSends, Bridges
  <2> QED BY <2>1, <2>2
<1>10. Telling'
  BY <1>1, <1>8, <1>9 DEF Telling, Fresh
<1>11. LegacyTold'
  <2>1. CASE BridgeStatusSends
    <3>1. /\ bridge.phase = "status"
          /\ bridge'.last = IF Suppressed(bridge.state, bridge.last) THEN bridge.last
                            ELSE MapCoreState(bridge.state)
      BY <1>2, <2>1 DEF BridgeStatusSends, Bridges
    <3>2. LegacyHeld(bridge'.last, bridge.state)
      BY <3>1 DEF LegacyHeld, Suppressed
    <3> QED BY <1>1, <1>9, <3>1, <3>2 DEF LegacyTold
  <2>2. CASE BridgeEchoSends
    <3>1. bridge.phase = "echo"
      BY <2>2 DEF BridgeEchoSends
    <3> QED BY <1>1, <1>9, <3>1 DEF LegacyTold
  <2> QED BY <2>1, <2>2
<1>12. Fresh'
  BY <1>9 DEF Fresh
<1> QED BY <1>3, <1>7, <1>9, <1>10, <1>11, <1>12 DEF FeedTyped, BridgeTyped

(* A line of tracing.                                                      *)
LEMMA TraceKeeps ==
  ASSUME FeedIInv, TraceLine
  PROVE  FeedIInv'
<1> USE DEF FeedIInv
<1>1. UNCHANGED <<manager, ops, echo, v1, bridge, raced>> /\ Send(<<Other>>) /\ ConnTyped
  BY DEF TraceLine, FeedTyped
<1>2. Other \in RingEvents
  BY PairView DEF Other, RingEvents
<1>3. <<Other>> \in Seq(RingEvents)
  BY <1>2
<1>4. /\ ConnTyped' /\ conn'.phase = conn.phase
      /\ conn'.phase # "off" /\ ~conn'.lagged => ~conn.lagged
  BY <1>1, <1>3, SendKeeps
<1>5. conn'.phase # "off" /\ ~conn'.lagged =>
        (Told(conn, 1) => Told(conn', 1)) /\ (Told(conn, 2) => Told(conn', 2))
  BY <1>1, SendOther
<1>6. Telling'
  BY <1>1, <1>4, <1>5 DEF Telling
<1> QED BY <1>1, <1>4, <1>6, WatchSame DEF FeedTyped, BridgeTyped, Fresh, LegacyTold

(* A step of the socket alone.                                             *)
LEMMA SocketAlone ==
  ASSUME FeedIInv, UNCHANGED <<manager, ops, echo, v1, bridge, raced>>, ConnTyped',
         conn'.phase # "off" /\ ~conn'.lagged =>
           \/ Told(conn', 1) /\ Told(conn', 2)
           \/ /\ conn.phase # "off" /\ ~conn.lagged
              /\ (Told(conn, 1) => Told(conn', 1)) /\ (Told(conn, 2) => Told(conn', 2))
  PROVE  FeedIInv'
<1> USE DEF FeedIInv
<1>1. Telling'
  BY DEF Telling
<1> QED BY <1>1, WatchSame DEF FeedTyped, BridgeTyped, Fresh, LegacyTold

(* A client comes, goes, lags, and reads its snapshot.                     *)
LEMMA SocketKeeps ==
  ASSUME FeedIInv, Connect \/ Disconnect \/ SnapshotStatus \/ SnapshotEcho \/ RecvLagged
  PROVE  FeedIInv'
<1> USE DEF FeedIInv
<1>1. UNCHANGED <<manager, ops, echo, v1, bridge, raced>>
  BY DEF Connect, Disconnect, SnapshotStatus, SnapshotEcho, RecvLagged
<1>2. conn \in Connections /\ ConnTyped
  BY DEF FeedTyped, ConnTyped
<1>3. /\ << >> \in Seq(RingEvents) /\ Len(<< >>) = 0 /\ 0 <= HubCapacity
      /\ <<FALSE, FALSE>> \in Views
  <2>1. 0 <= HubCapacity
    BY FeedAssumption
  <2>2. <<FALSE, FALSE>> \in Views
    BY PairView
  <2> QED BY <2>1, <2>2
<1>4. Off \in Connections /\ Off.queue = << >> /\ ~Off.lagged /\ Off.phase = "off"
  BY <1>3 DEF Off, Connections
<1>5. CASE Disconnect
  <2>1. conn' = Off
    BY <1>5 DEF Disconnect
  <2>2. ConnTyped'
    BY <1>3, <1>4, <2>1 DEF ConnTyped
  <2> QED BY <1>1, <1>4, <2>1, <2>2, SocketAlone
<1>6. CASE Connect
  <2>1. conn' = [Off EXCEPT !.phase = "snapshot"]
    BY <1>6 DEF Connect
  <2>2. conn' \in Connections /\ conn'.queue = << >> /\ ~conn'.lagged /\ conn'.phase = "snapshot"
    BY <1>4, <2>1 DEF Connections
  <2>3. ConnTyped'
    BY <1>3, <2>2 DEF ConnTyped
  <2>4. Told(conn', 1) /\ Told(conn', 2)
    BY <1>3, <2>2 DEF Told, Held
  <2> QED BY <1>1, <2>3, <2>4, SocketAlone
<1>7. CASE RecvLagged
  <2>1. conn' = [conn EXCEPT !.lagged = FALSE, !.phase = "snapshot"] /\ conn.lagged
    BY <1>7 DEF RecvLagged
  <2>2. conn' \in Connections /\ conn'.queue = << >> /\ ~conn'.lagged /\ conn'.phase = "snapshot"
    BY <1>2, <2>1 DEF ConnTyped, Connections
  <2>3. ConnTyped'
    BY <1>3, <2>2 DEF ConnTyped
  <2>4. Told(conn', 1) /\ Told(conn', 2)
    BY <1>3, <2>2 DEF Told, Held
  <2> QED BY <1>1, <2>3, <2>4, SocketAlone
<1>8. CASE SnapshotStatus
  <2>1. conn' = [conn EXCEPT !.phase = "snapshotEcho", !.raw = TRUE] /\ conn.phase = "snapshot"
    BY <1>8 DEF SnapshotStatus
  <2>2. /\ conn' \in Connections /\ conn'.queue = conn.queue /\ conn'.lagged = conn.lagged
        /\ conn'.phase = "snapshotEcho" /\ conn'.raw
    BY <1>2, <2>1 DEF Connections
  <2>3. ConnTyped'
    BY <1>2, <2>2 DEF ConnTyped
  <2>4. Held(conn', 1) /\ Held(conn', 2)
    BY <2>2 DEF Held
  <2>5. (Told(conn, 1) => Told(conn', 1)) /\ (Told(conn, 2) => Told(conn', 2))
    BY <2>2, <2>4 DEF Told
  <2> QED BY <1>1, <2>1, <2>2, <2>3, <2>5, SocketAlone
<1>9. CASE SnapshotEcho
  <2> DEFINE v == <<conn.raw, TRUE>>
  <2>1. v \in Views /\ v[1] = conn.raw /\ v[2] = TRUE
    BY <1>2, PairView DEF Connections
  <2>2. conn' = [conn EXCEPT !.phase = "loop", !.raw = FALSE, !.view = v]
        /\ conn.phase = "snapshotEcho"
    BY <1>9 DEF SnapshotEcho
  <2> HIDE DEF v
  <2>3. /\ conn' \in Connections /\ conn'.queue = conn.queue /\ conn'.lagged = conn.lagged
        /\ conn'.phase = "loop" /\ conn'.view = v
    BY <1>2, <2>1, <2>2 DEF Connections
  <2>4. ConnTyped'
    BY <1>2, <2>3 DEF ConnTyped
  <2>5. (Held(conn, 1) => Held(conn', 1)) /\ Held(conn', 2)
    BY <2>1, <2>2, <2>3 DEF Held
  <2>6. (Told(conn, 1) => Told(conn', 1)) /\ (Told(conn, 2) => Told(conn', 2))
    BY <2>3, <2>5 DEF Told
  <2> QED BY <1>1, <2>2, <2>3, <2>4, <2>6, SocketAlone
<1> QED BY <1>5, <1>6, <1>7, <1>8, <1>9

(* The next event goes to the client: what it will hold stays the same.    *)
LEMMA RecvKeeps ==
  ASSUME FeedIInv, RecvEvent
  PROVE  FeedIInv'
<1> USE DEF FeedIInv
<1> DEFINE q == conn.queue
           e == Head(conn.queue)
           v == IF e.status THEN e.view ELSE conn.view
<1>1. /\ UNCHANGED <<manager, ops, echo, v1, bridge, raced>> /\ conn.phase = "loop"
      /\ q # << >> /\ conn' = [conn EXCEPT !.queue = Tail(q), !.view = v]
  BY DEF RecvEvent
<1>2. /\ conn \in Connections /\ q \in Seq(RingEvents) /\ Len(q) <= HubCapacity /\ ~conn.lagged
      /\ conn.view \in Views
  BY <1>1 DEF FeedTyped, ConnTyped, Connections
<1>3. /\ Tail(q) \in Seq(RingEvents) /\ Len(Tail(q)) = Len(q) - 1 /\ Len(q) \in Nat \ {0}
      /\ e \in RingEvents /\ e = q[1] /\ \A i \in 1 .. Len(Tail(q)) : Tail(q)[i] = q[i + 1]
  BY <1>1, <1>2
<1>4. v \in Views
  BY <1>2, <1>3 DEF RingEvents
<1> HIDE DEF v, e
<1>5. /\ conn' \in Connections /\ conn'.queue = Tail(q) /\ conn'.lagged = conn.lagged
      /\ conn'.phase = "loop" /\ conn'.view = v
  BY <1>1, <1>2, <1>3, <1>4 DEF Connections
<1>6. Len(Tail(q)) <= HubCapacity
  BY <1>2, <1>3, FeedAssumption
<1>7. ConnTyped'
  BY <1>2, <1>5, <1>6 DEF ConnTyped
<1>8. ASSUME NEW n \in {1, 2}, Told(conn, n)
      PROVE  Told(conn', n)
  <2>1. /\ \A j \in 1 .. Len(conn'.queue) : conn'.queue[j] = q[j + 1] /\ j + 1 \in 1 .. Len(q)
                                              /\ j + 1 > 1
        /\ \A i \in 1 .. Len(q) : i # 1 => i - 1 \in 1 .. Len(conn'.queue) /\ conn'.queue[i - 1] = q[i]
        /\ 1 \in 1 .. Len(q)
    <3>1. Len(conn'.queue) = Len(q) - 1
      BY <1>3, <1>5
    <3>2. \A i \in 1 .. Len(q) : i # 1 => i - 1 \in 1 .. Len(conn'.queue) /\ (i - 1) + 1 = i
      BY <1>3, <3>1
    <3>3. \A j \in 1 .. Len(conn'.queue) : conn'.queue[j] = q[j + 1]
      BY <1>3, <1>5
    <3>4. \A j \in 1 .. Len(conn'.queue) : j + 1 \in 1 .. Len(q) /\ j + 1 > 1
      BY <1>3, <3>1
    <3>5. \A i \in 1 .. Len(q) : i # 1 => conn'.queue[i - 1] = q[i]
      <4> SUFFICES ASSUME NEW i \in 1 .. Len(q), i # 1 PROVE conn'.queue[i - 1] = q[i]
        OBVIOUS
      <4>1. i - 1 \in 1 .. Len(conn'.queue) /\ (i - 1) + 1 = i
        BY <3>2
      <4> QED BY <3>3, <4>1
    <3>6. 1 \in 1 .. Len(q)
      BY <1>3
    <3> QED BY <3>2, <3>3, <3>4, <3>5, <3>6
  <2>2. CASE (\A j \in 1 .. Len(q) : ~q[j].status) /\ Held(conn, n)
    <3>1. v = conn.view
      BY <1>3, <2>1, <2>2 DEF v
    <3>2. Held(conn', n)
      BY <1>1, <1>5, <2>2, <3>1 DEF Held
    <3> QED BY <2>1, <2>2, <3>2 DEF Told
  <2>3. ASSUME NEW i \in 1 .. Len(q), q[i].status, q[i].view[n],
               \A j \in 1 .. Len(q) : j > i => ~q[j].status
        PROVE  Told(conn', n)
    <3>1. CASE i = 1
      <4>1. v = q[1].view
        BY <1>3, <2>3, <3>1 DEF v
      <4>2. Held(conn', n)
        BY <1>5, <2>3, <3>1, <4>1 DEF Held
      <4>3. \A j \in 1 .. Len(conn'.queue) : ~conn'.queue[j].status
        BY <2>1, <2>3, <3>1
      <4> QED BY <4>2, <4>3 DEF Told
    <3>2. CASE i # 1
      <4>1. i - 1 \in 1 .. Len(conn'.queue) /\ conn'.queue[i - 1] = q[i]
        BY <2>1, <3>2
      <4>2. \A j \in 1 .. Len(conn'.queue) : j > i - 1 => j + 1 > i
        OBVIOUS
      <4>3. \A j \in 1 .. Len(conn'.queue) : j > i - 1 => ~conn'.queue[j].status
        BY <2>1, <2>3, <4>2
      <4> QED BY <2>3, <4>1, <4>3 DEF Told
    <3> QED BY <3>1, <3>2
  <2> QED BY <1>8, <2>2, <2>3 DEF Told
<1> QED BY <1>1, <1>2, <1>5, <1>7, <1>8, SocketAlone

(* Every step of the feed keeps its invariant.                             *)
LEMMA FeedSteps ==
  ASSUME FeedIInv, [FeedNext]_fvars
  PROVE  FeedIInv'
<1>1. CASE \E state \in Moves : Transition(state)
  BY <1>1, TransitionKeeps
<1>2. CASE \E type \in WireTypes, result \in {"Committed", "RolledBack", "Failed"} :
             Reconciled(type, result)
  BY <1>2, ReconciledKeeps
<1>3. CASE Observers
  BY <1>3, ObserveKeeps DEF Observers
<1>4. CASE V1Publish \/ \E type \in WireTypes : V1Start(type)
  BY <1>4, V1Keeps
<1>5. CASE BridgeStep
  BY <1>5, BridgeLooks, BridgeTells DEF BridgeStep
<1>6. CASE TraceLine
  BY <1>6, TraceKeeps
<1>7. CASE Connect \/ SocketStep \/ Disconnect
  BY <1>7, SocketKeeps, RecvKeeps DEF SocketStep
<1>8. CASE UNCHANGED fvars
  BY <1>8, WatchSame DEF fvars, FeedIInv, FeedTyped, BridgeTyped, ConnTyped, Fresh, Telling,
       LegacyTold
<1> QED BY <1>1, <1>2, <1>3, <1>4, <1>5, <1>6, <1>7, <1>8 DEF FeedNext

(* Before anything is published nobody is owed anything.                   *)
LEMMA FeedInitially == FeedInit => FeedIInv
<1> SUFFICES ASSUME FeedInit PROVE FeedIInv
  OBVIOUS
<1> USE DEF FeedInit
<1>1. WatchTyped
  BY DEF WatchTyped, States
<1>2. /\ bridge \in Bridges /\ bridge.phase = "wait" /\ bridge.last = "Stopped"
  BY DEF Bridges, States
<1>3. <<FALSE, FALSE>> \in Views /\ 0 <= HubCapacity
  <2>1. <<FALSE, FALSE>> \in Views
    BY PairView
  <2> QED BY <2>1, FeedAssumption
<1>4. conn \in Connections /\ conn.phase = "off" /\ conn.queue = << >>
  BY <1>3 DEF Off, Connections
<1>5. ConnTyped
  BY <1>3, <1>4 DEF ConnTyped
<1>6. Fresh /\ Telling
  BY <1>2, <1>4 DEF Fresh, Telling
<1>7. LegacyTold
  BY <1>2 DEF LegacyTold, LegacyHeld, MapCoreState
<1>8. LastWord
  BY DEF LastWord
<1> QED BY <1>1, <1>2, <1>5, <1>6, <1>7, <1>8 DEF FeedIInv, FeedTyped, BridgeTyped

(* The inductive invariant of what clients are told.                       *)
THEOREM FeedInvariant == FeedSpec => []FeedIInv
<1>1. FeedIInv /\ [FeedNext]_fvars => FeedIInv'
  BY FeedSteps
<1> QED BY <1>1, FeedInitially, PTL DEF FeedSpec

(* The invariant gives the feed its shape.                                 *)
LEMMA FeedShape == FeedIInv => FeedTypeOK
<1> SUFFICES ASSUME FeedIInv PROVE FeedTypeOK
  OBVIOUS
<1>1. echo.applied \in Nat /\ echo.applied <= Len(ops) /\ Len(ops) \in Nat
  BY DEF FeedIInv, FeedTyped, WatchTyped
<1>2. echo.applied \in 0 .. Len(ops)
  BY <1>1
<1> QED BY <1>2 DEF FeedIInv, FeedTyped, WatchTyped, ConnTyped, Connections, FeedTypeOK

(* The feed has its types, and what a connection has not read fits into    *)
(* the ring.                                                               *)
THEOREM FeedTypes == FeedSpec => []FeedTypeOK
  BY FeedShape, FeedInvariant, PTL

(* A client that has read its ring, of a bridge that has seen both watches,*)
(* holds the present status and the present type: through any coalescing,  *)
(* lag, reconnect and number of publications, and for any ring.            *)
THEOREM ClientsCurrent == FeedSpec => []FeedCurrent
<1>1. FeedIInv => FeedCurrent
  <2> SUFFICES ASSUME FeedIInv, BridgeIdle, conn.phase = "loop", conn.queue = << >>, ~conn.lagged
               PROVE  conn.view = <<TRUE, TRUE>>
    BY DEF FeedCurrent
  <2>1. Told(conn, 1) /\ Told(conn, 2) /\ conn.view \in Views
    BY DEF FeedIInv, Telling, BridgeIdle, FeedTyped, ConnTyped, Connections
  <2>2. Len(conn.queue) = 0
    OBVIOUS
  <2>3. conn.view[1] /\ conn.view[2]
    BY <2>1, <2>2 DEF Told, Held
  <2> DEFINE u == <<TRUE, TRUE>>
  <2>4. u \in Views /\ u[1] = TRUE /\ u[2] = TRUE
    BY PairView
  <2>5. conn.view[1] = TRUE /\ conn.view[2] = TRUE
    BY <2>1, <2>3 DEF Views
  <2> HIDE DEF u
  <2>6. conn.view = u
    BY <2>1, <2>4, <2>5, ViewsEqual
  <2> QED BY <2>6 DEF u
<1> QED BY <1>1, FeedInvariant, PTL

(* A bridge that has nothing to look at has told the legacy stream.        *)
LEMMA LegacyAgrees == FeedIInv => LegacyCurrent
  BY DEF FeedIInv, LegacyTold, LegacyHeld, LegacyCurrent, BridgeIdle

(* The legacy stream of an idle bridge agrees with the manager's state.    *)
THEOREM LegacyStreamCurrent == FeedSpec => []LegacyCurrent
<1>1. FeedIInv => LegacyCurrent
  BY LegacyAgrees
<1> QED BY <1>1, FeedInvariant, PTL

(* When every reconcile was observed, in any order, the echo names the core*)
(* that runs, unless one of the two known races happened.                  *)
THEOREM EchoNamesCore == FeedSpec => []EchoTruthful
<1>1. FeedIInv => EchoTruthful
  <2> SUFFICES ASSUME FeedIInv, Settled, raced = {} PROVE echo.type = manager.core
    BY DEF EchoTruthful
  <2>1. DOMAIN ops = 1 .. Len(ops)
    BY DEF FeedIInv, FeedTyped, WatchTyped
  <2>2. \A c \in 1 .. Len(ops) : ~Awaited(c)
    BY <2>1 DEF Settled, Awaited
  <2> QED BY <2>2 DEF FeedIInv, LastWord, Settled
<1> QED BY <1>1, FeedInvariant, PTL

-----------------------------------------------------------------------------
(***************************************************************************)
(* The DNS override, for any number of crashes: an override always has its *)
(* durable record, whether or not the restore at startup may fail; and     *)
(* where that restore works, a launch and a transaction that returns Ok    *)
(* find and leave the host as the plan wants it.                           *)
(***************************************************************************)
(* What the manager has in memory is what is on disk, or nothing at all.   *)
MemoryIsDurable == dns_record \in {file, NoRecord}

Applying == pc \in {"pre", "apply", "readback"}
Restoring == pc \in {"mark", "undo", "clear"}

(***************************************************************************)
(* The steps that rely on an earlier one: apply runs behind its record,    *)
(* the record goes only from a host that was read back clean, and a boot   *)
(* begins with an empty memory.                                            *)
(***************************************************************************)
InOrder ==
  /\ pc \in {"apply", "readback"} \/ Restoring => dns_record # NoRecord
  /\ pc \in {"clear", "boot_clear"} => host_dns = "clean"
  /\ pc = "readback" => host_dns = "override"
  /\ pc \in {"dead", "boot", "boot_clear"} => dns_record = NoRecord

(* Where a DNS procedure returns to, and what that says of its caller.     *)
Returns ==
  /\ after.ok \in {"idle", "spawn", "failed", "retire", "stop", "ok", "err"}
  /\ after.err \in {"idle", "undo_launch", "failed", "err"}
  /\ Applying => \/ after.ok = "spawn" /\ plan = "protected"
                 \/ after.ok = "ok" /\ (core = "protected" \/ died = "yes")
  /\ Restoring /\ after.ok = "spawn" => plan = "plain"
  /\ Restoring /\ after.ok = "ok" => core # "protected"

(* A quarantined manager runs nothing, and launches nothing.               *)
Quarantine ==
  LET During(label) == pc = label \/ ((Applying \/ Restoring) /\ after.ok = label)
  IN  /\ quarantined = "yes" => core = "down"
      /\ pc = "launch" \/ During("spawn") => core = "down" /\ quarantined = "no"
      /\ During("retire") => quarantined = "no"

(***************************************************************************)
(* Where the restore at startup works, memory never loses an override that *)
(* is on the host, so that what a procedure returns Ok from is certain.    *)
(***************************************************************************)
Certain ==
  /\ host_dns = "override" /\ pc \notin {"dead", "boot"} => dns_record # NoRecord
  /\ pc = "spawn" => (host_dns = "override" <=> plan = "protected")
  /\ pc = "stop" => host_dns = "clean"
  /\ OkIsConverged

(***************************************************************************)
(* OverrideIsRecorded is not inductive: it needs that apply runs behind    *)
(* the record and that the record is removed only from a clean host.       *)
(***************************************************************************)
IInv ==
  /\ TypeOK
  /\ MemoryIsDurable
  /\ InOrder
  /\ Returns
  /\ Quarantine
  /\ OverrideIsRecorded
  /\ ~BootRestoreMayFail => Certain

-----------------------------------------------------------------------------
(* The initial state, a fresh host, satisfies the inductive invariant.     *)
LEMMA InitIInv == Init => IInv
  BY SMTT(40), DnsAssumption
  DEF Init, IInv, TypeOK, MemoryIsDurable, InOrder, Applying, Restoring, Returns, Quarantine,
      OverrideIsRecorded, Certain, OkIsConverged, Records, NoRecord, Resolver,
      Plans, Labels

(* Every step of the DNS procedures, of the transactions, of the boot, of  *)
(* the core and of a crash keeps the inductive invariant.                  *)
LEMMA NextIInv == IInv /\ [Next]_vars => IInv'
<1> SUFFICES ASSUME IInv, [Next]_vars PROVE IInv'
  OBVIOUS
<1> USE DnsAssumption
    DEF IInv, TypeOK, MemoryIsDurable, InOrder, Applying, Restoring, Returns, Quarantine,
        OverrideIsRecorded, Certain, OkIsConverged, Records, NoRecord, Resolver,
        Plans, Labels, Goto, Persist, recordVars, contextVars
<1>1. CASE Mark
  BY <1>1 DEF Mark
<1>2. ASSUME NEW ok \in BOOLEAN, Undo(ok) PROVE IInv'
  BY <1>2 DEF Undo, Restore
<1>3. CASE Clear
  BY <1>3 DEF Clear
<1>4. ASSUME NEW ok \in BOOLEAN, PreRecord(ok) PROVE IInv'
  BY <1>4 DEF PreRecord, HasBaseline
<1>5. ASSUME NEW ok \in BOOLEAN, Apply(ok) PROVE IInv'
  BY <1>5 DEF Apply
<1>6. ASSUME NEW ok \in BOOLEAN, ReadBack(ok) PROVE IInv'
  BY <1>6 DEF ReadBack, HasBaseline
<1>7. ASSUME NEW target \in Plans, NEW next \in {"launch", "failed", "err"},
             Start(target, next)
      PROVE  IInv'
  BY <1>7 DEF Start
<1>8. ASSUME NEW target \in Plans, NEW ok \in BOOLEAN, HardSwitch(target, ok)
      PROVE IInv'
  BY <1>8 DEF HardSwitch, EnterRestore
<1>9. ASSUME NEW ok \in BOOLEAN, Retire(ok) PROVE IInv'
  BY <1>9 DEF Retire, MayQuarantine
<1>10. CASE Launch
  BY <1>10 DEF Launch, EnterApply, EnterRestore
<1>11. CASE UndoLaunch
  BY <1>11 DEF UndoLaunch, EnterRestore
<1>12. CASE Spawned
  BY <1>12 DEF Spawned
<1>13. ASSUME NEW confirmed \in BOOLEAN, SpawnFails(confirmed) PROVE IInv'
  BY <1>13 DEF SpawnFails
<1>14. CASE Succeeded
  BY <1>14 DEF Succeeded, EnterApply, EnterRestore
<1>15. CASE Failed
  BY <1>15 DEF Failed, EnterRestore
<1>16. CASE Stop
  BY <1>16 DEF Stop, EnterRestore
<1>17. ASSUME NEW ok \in BOOLEAN, Halt(ok) PROVE IInv'
  BY <1>17 DEF Halt, MayQuarantine
<1>18. CASE Done
  BY <1>18 DEF Done
<1>19. CASE CoreDies
  BY <1>19 DEF CoreDies
<1>20. CASE Crash
  BY <1>20 DEF Crash
<1>21. CASE Sweep
  BY <1>21 DEF Sweep
<1>22. CASE NoOrphan
  BY <1>22 DEF NoOrphan
<1>23. ASSUME NEW ok \in BOOLEAN, BootRestore(ok) PROVE IInv'
  BY <1>23 DEF BootRestore, Restore
<1>24. CASE BootClear
  BY <1>24 DEF BootClear
<1>25. CASE UNCHANGED vars
  BY <1>25 DEF vars
<1>26. CASE Recover
  BY <1>26 DEF Recover, EnterRestore
<1>27. QED
  BY <1>1, <1>2, <1>3, <1>4, <1>5, <1>6, <1>7, <1>8, <1>9, <1>10, <1>11, <1>12,
     <1>13, <1>14, <1>15, <1>16, <1>17, <1>18, <1>19, <1>20, <1>21, <1>22, <1>23,
     <1>24, <1>25, <1>26
  DEF Next, Procedure, Transaction, Boot

(* The inductive invariant holds throughout every behaviour.               *)
THEOREM Invariance == Spec => []IInv
  BY InitIInv, NextIInv, PTL DEF Spec

(* The variables keep their types.                                         *)
THEOREM TypeCorrect == Spec => []TypeOK
<1>1. IInv => TypeOK
  BY DEF IInv
<1> QED
  BY <1>1, Invariance, PTL

(***************************************************************************)
(* An override on the host always has its durable record, whatever fails   *)
(* or crashes, a startup whose restore failed included.                    *)
(***************************************************************************)
THEOREM NoUnrecordedOverride == Spec => []OverrideIsRecorded
<1>1. IInv => OverrideIsRecorded
  BY DEF IInv
<1> QED
  BY <1>1, Invariance, PTL

(***************************************************************************)
(* Provided the restore at startup works, a transaction that returned Ok   *)
(* left the override on exactly if a protected core runs.                  *)
(***************************************************************************)
THEOREM OkMeansConverged ==
  ASSUME ~BootRestoreMayFail PROVE Spec => []OkIsConverged
<1>1. IInv => OkIsConverged
  BY DEF IInv, Certain
<1> QED
  BY <1>1, Invariance, PTL

(***************************************************************************)
(* Provided the restore at startup works, no protected core is launched    *)
(* without its override, and no plain one with it.                         *)
(***************************************************************************)
THEOREM LaunchesAreProtected ==
  ASSUME ~BootRestoreMayFail PROVE Spec => LaunchedBehindOverride
<1>1. IInv => [Spawned => (host_dns = "override" <=> plan = "protected")]_vars
  BY DEF IInv, Certain, Spawned
<1> QED
  BY <1>1, Invariance, PTL DEF LaunchedBehindOverride
-----------------------------------------------------------------------------
(***************************************************************************)
(* The three together, as MCManagerSpec runs them: one has the focus and   *)
(* the others stand still.  Where the restore at startup can fail (Faulty) *)
(* the override keeps its shape; where it cannot, all of IInv holds.       *)
(***************************************************************************)
PartsIInv == ManagerIInv /\ FeedIInv /\ TypeOK /\ (focus = "dns" => IInv)

(* A step of the override's procedures keeps its shape, also where the     *)
(* restore at startup can fail or time out.                                *)
LEMMA FaultyKeepsShape == TypeOK /\ Faulty!Next => TypeOK'
<1> SUFFICES ASSUME TypeOK, Faulty!Next PROVE TypeOK'
  OBVIOUS
<1> USE DnsAssumption
    DEF TypeOK, Records, NoRecord, Resolver, Plans, Labels,
        Faulty!NoRecord, Faulty!Plans, Faulty!Goto, Faulty!Persist, Faulty!recordVars,
        Faulty!contextVars, Faulty!HasBaseline, Faulty!EnterRestore, Faulty!EnterApply,
        Faulty!Restore, Faulty!MayQuarantine
<1>1. CASE Faulty!Procedure
  BY <1>1 DEF Faulty!Procedure, Faulty!Mark, Faulty!Clear, Faulty!Undo, Faulty!PreRecord,
              Faulty!Apply, Faulty!ReadBack
<1>2. CASE Faulty!Transaction
  BY <1>2 DEF Faulty!Transaction, Faulty!Retire, Faulty!SpawnFails, Faulty!Halt, Faulty!Launch,
              Faulty!UndoLaunch, Faulty!Spawned, Faulty!Succeeded, Faulty!Failed, Faulty!Done
<1>3. CASE Faulty!Boot
  BY <1>3 DEF Faulty!Boot, Faulty!Sweep, Faulty!NoOrphan, Faulty!BootClear, Faulty!BootRestore
<1>4. CASE \E target \in Faulty!Plans :
             \/ \E next \in {"launch", "failed", "err"} : Faulty!Start(target, next)
             \/ \E ok \in BOOLEAN : Faulty!HardSwitch(target, ok)
  BY <1>4 DEF Faulty!Start, Faulty!HardSwitch
<1>5. CASE Faulty!Stop \/ Faulty!Recover \/ Faulty!CoreDies \/ Faulty!Crash
  BY <1>5 DEF Faulty!Stop, Faulty!Recover, Faulty!CoreDies, Faulty!Crash
<1> QED
  BY <1>1, <1>2, <1>3, <1>4, <1>5 DEF Faulty!Next

(* Whatever part has the focus, its step keeps the invariant of the whole. *)
LEMMA PartsSteps == PartsIInv /\ [MCManagerNext]_managerVars => PartsIInv'
<1> SUFFICES ASSUME PartsIInv, [MCManagerNext]_managerVars PROVE PartsIInv'
  OBVIOUS
<1>1. ManagerIInv /\ FeedIInv /\ TypeOK /\ (focus = "dns" => IInv)
  BY DEF PartsIInv
<1>2. UNCHANGED vars => TypeOK' /\ (IInv => IInv')
  BY <1>1, NextIInv DEF TypeOK, vars
<1>3. UNCHANGED mvars => ManagerIInv'
  BY <1>1, ManagerSteps
<1>4. UNCHANGED fvars => FeedIInv'
  BY <1>1, FeedSteps
<1>5. CASE OnManager
  BY <1>1, <1>2, <1>4, <1>5, ManagerSteps DEF OnManager, PartsIInv
<1>6. CASE OnDns
  <2>1. IInv'
    BY <1>1, <1>6, NextIInv DEF OnDns
  <2> QED
    BY <1>3, <1>4, <1>6, <2>1 DEF OnDns, PartsIInv, IInv
<1>7. CASE OnFaulty
  BY <1>1, <1>3, <1>4, <1>7, FaultyKeepsShape DEF OnFaulty, PartsIInv
<1>8. CASE OnFeed
  BY <1>1, <1>2, <1>3, <1>8, FeedSteps DEF OnFeed, PartsIInv
<1>9. CASE UNCHANGED managerVars
  BY <1>1, <1>2, <1>3, <1>4, <1>9 DEF managerVars, PartsIInv
<1> QED
  BY <1>5, <1>6, <1>7, <1>8, <1>9 DEF MCManagerNext

(* The invariants of the three parts hold along every run of them.         *)
THEOREM PartsInvariant == MCManagerSpec => []PartsIInv
<1>1. MCManagerInit => PartsIInv
  BY ManagerInitially, FeedInitially, InitIInv DEF MCManagerInit, PartsIInv, IInv
<1> QED
  BY <1>1, PartsSteps, PTL DEF MCManagerSpec

(* All that is claimed of the parts at once: types, one process per epoch, *)
(* clean aborts of reconciles, and a legacy stream that agrees.            *)
THEOREM PartsCorrect == MCManagerSpec => []ManagerInv
<1>1. PartsIInv => ManagerInv
  BY ManagerShape, EpochsApart, FeedShape, LegacyAgrees DEF PartsIInv, ManagerIInv, ManagerInv
<1> QED
  BY <1>1, PartsInvariant, PTL

(* With a restore at startup that works, a transaction that returned Ok    *)
(* left the override on exactly if a protected core runs.                  *)
THEOREM OkIsCertain ==
  ASSUME ~BootRestoreMayFail PROVE MCManagerSpec => []OkConverges
<1>1. PartsIInv => OkConverges
  BY DEF PartsIInv, IInv, Certain, OkConverges
<1> QED
  BY <1>1, PartsInvariant, PTL
============================================================================
