------------------------------ MODULE Instance ------------------------------
(***************************************************************************)
(* One epoch of a running core (chimera-core-manager/src/instance.rs): the *)
(* monitor task turns supervisor events, probe observations and deadlines  *)
(* into the published instance status, stop_and_confirm_dead tears the     *)
(* instance down within a timeout, and probe_now asks for a health check.  *)
(* health/mod.rs (the tracker) and health/driver.rs (the probe task) are   *)
(* part of it.  The supervisor is seen through its events: what it may     *)
(* emit, and when, is module Supervisor's business; here it restarts,      *)
(* gives up or ends as it likes within a bound.                            *)
(*                                                                         *)
(* A child's number stands for its pid and for the uuid of its start.      *)
(***************************************************************************)
EXTENDS Integers, Sequences, FiniteSets

CONSTANTS
  MaxChildren,      \* bound: process starts
  MaxRestarts,      \* bound: Restarting events
  MaxObservations,  \* bound: observations waiting for the monitor
  SuccessThreshold, FailureThreshold  \* HealthThresholds

ASSUME InstanceAssumption ==
  /\ MaxChildren \in Nat \ {0} /\ MaxRestarts \in Nat /\ MaxObservations \in Nat \ {0}
  /\ SuccessThreshold \in Nat \ {0} /\ FailureThreshold \in Nat \ {0}

VARIABLES
  sup,           \* the supervisor and its child
  events,        \* SupervisorEvents not yet received
  mon,           \* the monitor task and its locals
  driver,        \* the probe task: its run, phase, command queue; run 0 = none
  observations,  \* ProbeObservations not yet received
  clock,         \* which deadlines have passed
  flags,         \* user_stop, probe_timeout, cancel, probe_cancel, persistence_error
  status,        \* the InstanceStatus watch
  log,           \* the status publish_log_frame read and has yet to send
  stop,          \* stop_and_confirm_dead
  ask,           \* probe_now: "idle", "sent", "driver", "done"
  proven         \* history: children acknowledged after a healthy probe of theirs

ivars == <<sup, events, mon, driver, observations, clock, flags, status, log, stop,
           ask, proven>>

Children == 1 .. MaxChildren
NoRun == [id |-> 0]
NoStatus == [state |-> "none"]
NoDriver == [run |-> 0, pid |-> 0, phase |-> "off", asked |-> FALSE]
InstanceStates == {"Starting", "Running", "Restarting", "Stopping", "Stopped"}
Healths == {"Starting", "Healthy", "Unhealthy", "none"}
Statuses == [state: InstanceStates, pid: 0 .. MaxChildren, id: 0 .. MaxChildren,
             health: Healths]

is_terminal(st) == st.state = "Stopped"

(***************************************************************************)
(* HealthTracker                                                           *)
(***************************************************************************)
Tracker(state, fails, succs, graced) ==
  [state |-> state, fails |-> fails, succs |-> succs, graced |-> graced]
NewTracker == Tracker("Starting", 0, 0, FALSE)

(* HealthTracker::observe.  Failures stop counting at the threshold here   *)
(* (the code saturates at u32::MAX); only the comparison matters.          *)
Observe(t, healthy, in_grace) ==
  CASE healthy /\ t.state = "Healthy" -> Tracker("Healthy", 0, 0, TRUE)
    [] healthy /\ t.state # "Healthy" ->
         IF t.succs + 1 >= SuccessThreshold
           THEN Tracker("Healthy", 0, 0, TRUE)
           ELSE Tracker(t.state, 0, t.succs + 1, TRUE)
    [] ~healthy /\ (~t.graced /\ in_grace) -> Tracker(t.state, t.fails, 0, t.graced)
    [] OTHER ->
         LET n == IF t.fails < FailureThreshold THEN t.fails + 1 ELSE t.fails
         IN Tracker(IF n >= FailureThreshold THEN "Unhealthy" ELSE t.state, n, 0,
                    t.graced)

NewRun(id, pid) ==
  [id |-> id, pid |-> pid, acked |-> FALSE, ready |-> FALSE, tracker |-> NewTracker]

(* A child that cannot be killed (stuck), a core with a native store lease *)
(* (native) and a caller of probe_now are not combined: each alone reaches *)
(* what it can disturb.  With torn, the clone of the watch a publisher     *)
(* starts from and the send that replaces it are two steps.                *)
InstanceInit ==
  /\ \E stuck, native, torn \in BOOLEAN :
       /\ (stuck => ~native) /\ (torn => native)
       /\ sup = [child |-> 1, alive |-> TRUE, exit |-> "none", record |-> TRUE,
                 task |-> "watch", restarts |-> IF torn \/ stuck THEN MaxRestarts ELSE 0,
                 pending |-> 1, slot |-> TRUE,
                 stuck |-> stuck, native |-> native, torn |-> torn]
       /\ ask = (IF native \/ stuck THEN "done" ELSE "idle")
  /\ events = << [kind |-> "Started", pid |-> 1] >>
  /\ mon = [pc |-> "loop", back |-> "loop", run |-> NoRun, ever_ready |-> FALSE, timeout_fired |-> FALSE,
            probes_cancelled |-> FALSE, next_run_id |-> 0, respawn |-> FALSE, send |-> NoStatus]
  /\ driver = NoDriver /\ observations = << >>
  /\ clock = [initial |-> FALSE, respawn |-> FALSE]
  /\ flags = [user_stop |-> FALSE, probe_timeout |-> FALSE, cancel |-> FALSE,
              probe_cancel |-> FALSE, persistence |-> FALSE]
  /\ status = [state |-> "Starting", pid |-> 0, id |-> 0, health |-> "Starting"]
  /\ log = NoStatus
  /\ stop = [pc |-> "idle", ok |-> TRUE, joined |-> FALSE, terminal |-> FALSE]
  /\ proven = {}

(***************************************************************************)
(* The supervisor, through what it emits.                                  *)
(***************************************************************************)
Emitted(kind) == Append(events, [kind |-> kind, pid |-> sup.child])

(* The child ends by itself.                                               *)
ChildExits(how) ==
  /\ sup.alive
  /\ sup' = [sup EXCEPT !.alive = FALSE, !.exit = how]
  /\ UNCHANGED <<events, mon, driver, observations, clock, flags, status, log, stop,
                 ask, proven>>

(* Cancelled: the child is killed, unless the kill keeps failing.          *)
ChildKilled ==
  /\ sup.alive /\ flags.cancel /\ sup.task = "watch" /\ ~sup.stuck
  /\ sup' = [sup EXCEPT !.alive = FALSE, !.exit = "crash"]
  /\ UNCHANGED <<events, mon, driver, observations, clock, flags, status, log, stop,
                 ask, proven>>

(* The engine removed the pid record, then the exit is announced.          *)
SupExited ==
  /\ sup.task = "watch" /\ ~sup.alive
  /\ log = NoStatus                \* the same task publishes log frames
  /\ sup' = [sup EXCEPT !.task = "decide", !.record = FALSE, !.pending = 0]
  /\ events' = Emitted("Exited")
  /\ UNCHANGED <<mon, driver, observations, clock, flags, status, log, stop, ask, proven>>

SupTask(task) == [sup EXCEPT !.task = task, !.exit = "none"]

(* Stop, end quietly after a clean exit, give up, or back off.             *)
SupDecides ==
  /\ sup.task = "decide"
  /\ \/ flags.cancel /\ sup' = SupTask("gone") /\ events' = Emitted("Stopped")
     \/ ~flags.cancel /\ sup.exit = "clean"
        /\ sup' = SupTask("gone") /\ UNCHANGED events
     \/ ~flags.cancel /\ sup.exit = "crash"
        /\ sup' = SupTask("gone") /\ events' = Emitted("GaveUp")
     \/ ~flags.cancel /\ sup.exit = "crash" /\ sup.restarts < MaxRestarts
        /\ sup' = [SupTask("backoff") EXCEPT !.restarts = @ + 1]
        /\ events' = Emitted("Restarting")
  /\ UNCHANGED <<mon, driver, observations, clock, flags, status, log, stop, ask, proven>>

(* The backoff ends: cancelled, the preparation hook fails, the spawn      *)
(* fails, or a child starts.  Preparing clears persistence_error.          *)
SupBackoffEnds ==
  /\ sup.task = "backoff"
  /\ \/ /\ flags.cancel
        /\ sup' = [sup EXCEPT !.task = "gone"] /\ events' = Emitted("Stopped")
        /\ UNCHANGED flags
     \/ /\ ~flags.cancel /\ sup.native
        /\ sup' = [sup EXCEPT !.task = "gone"] /\ events' = Emitted("PreparationFailed")
        /\ flags' = [flags EXCEPT !.persistence = FALSE]
     \/ /\ ~flags.cancel
        /\ sup' = [sup EXCEPT !.task = "decide", !.exit = "crash"] /\ UNCHANGED events
        /\ flags' = [flags EXCEPT !.persistence = FALSE]
     \/ /\ ~flags.cancel /\ sup.child < MaxChildren
        /\ sup' = [sup EXCEPT !.task = "spawning", !.child = @ + 1, !.alive = TRUE]
        /\ UNCHANGED events
        /\ flags' = [flags EXCEPT !.persistence = FALSE]
  /\ UNCHANGED <<mon, driver, observations, clock, status, log, stop, ask, proven>>

(* The child's record is written and Started announced, unless cancelled   *)
(* since.  The hook's record_started may fail: it cancels the supervisor.  *)
SupStarted ==
  /\ sup.task = "spawning"
  /\ IF flags.cancel
       THEN /\ sup' = [sup EXCEPT !.task = "watch", !.record = TRUE]
            /\ UNCHANGED <<events, flags>>
       ELSE /\ sup' = [sup EXCEPT !.task = "watch", !.record = TRUE, !.pending = sup.child]
            /\ events' = Emitted("Started")
            /\ \/ UNCHANGED flags
               \/ /\ sup.native
                  /\ flags' = [flags EXCEPT !.persistence = TRUE, !.cancel = TRUE]
  /\ UNCHANGED <<mon, driver, observations, clock, status, log, stop, ask, proven>>

(***************************************************************************)
(* ProbeDriver: periodic probes, and the one probe_now asked for.          *)
(***************************************************************************)
Observation(healthy) ==
  [run |-> driver.run, pid |-> driver.pid, healthy |-> healthy,
   initial |-> clock.initial, respawn |-> clock.respawn]

(* Draining takes no time beside the interval between two probes.          *)
DriverProbes(healthy) ==
  /\ mon.pc = "loop"
  /\ driver.run # 0 /\ driver.phase # "off" /\ ~driver.asked
  /\ Len(observations) < MaxObservations
  /\ observations' = Append(observations, Observation(healthy))
  /\ UNCHANGED <<sup, events, mon, driver, clock, flags, status, log, stop, ask, proven>>

DriverReconciles(healthy) ==
  /\ driver.asked
  /\ ask' = "done"
  /\ driver' = [driver EXCEPT !.asked = FALSE]
  /\ observations' = Append(observations, Observation(healthy))
  /\ UNCHANGED <<sup, events, mon, clock, flags, status, log, stop, proven>>

(* Dropping a driver drops the answer somebody waits for.                  *)
StopDriver ==
  /\ driver' = NoDriver
  /\ ask' = (IF driver.asked THEN "done" ELSE ask)

(***************************************************************************)
(* Publication                                                             *)
(***************************************************************************)
(* Shared::publish_status: a persistence error shows as Unhealthy.         *)
Masked(st) ==
  IF flags.persistence /\ st.health # "none" THEN [st EXCEPT !.health = "Unhealthy"] ELSE st

(* Shared::publish                                                         *)
Published(st, state) ==
  [st EXCEPT !.state = state,
             !.health = IF state \in {"Stopping", "Stopped"} THEN "none" ELSE @,
             !.id = IF state \in {"Stopping", "Stopped"} THEN 0 ELSE @]

TerminalStatus == [state |-> "Stopped", pid |-> 0, id |-> 0, health |-> "none"]

(* The monitor made up a status from the one it read; torn, MonSend sends  *)
(* it later.                                                               *)
Sends(m, st, back) ==
  IF sup.torn
    THEN /\ mon' = [m EXCEPT !.pc = "send", !.back = back, !.send = Masked(st)]
         /\ UNCHANGED status
    ELSE /\ mon' = [m EXCEPT !.pc = back]
         /\ status' = Masked(st)

MonSend ==
  /\ mon.pc = "send"
  /\ mon' = [mon EXCEPT !.pc = mon.back, !.send = NoStatus]
  /\ status' = mon.send
  /\ UNCHANGED <<sup, events, driver, observations, clock, flags, log, stop, ask, proven>>

(***************************************************************************)
(* The monitor's biased select: an arm runs only when none before it can.  *)
(***************************************************************************)
CancelReady == flags.probe_cancel /\ ~mon.probes_cancelled
EventReady == events # << >> \/ sup.task = "gone"
InitialDeadline == clock.initial /\ ~mon.ever_ready /\ ~mon.timeout_fired
RespawnDeadline == clock.respawn /\ mon.respawn

MonProbeCancel ==
  /\ mon.pc = "loop" /\ CancelReady
  /\ mon' = [mon EXCEPT !.probes_cancelled = TRUE, !.run = NoRun, !.respawn = FALSE]
  /\ StopDriver
  /\ UNCHANGED <<sup, events, observations, clock, flags, status, log, stop, proven>>

MonEvent(kind) ==
  /\ mon.pc = "loop" /\ ~CancelReady
  /\ events # << >> /\ Head(events).kind = kind
  /\ events' = Tail(events)

MonStarted ==
  /\ MonEvent("Started")
  /\ LET pid == Head(events).pid
         id == mon.next_run_id + 1
     IN /\ Sends([mon EXCEPT !.next_run_id = id, !.run = NewRun(id, pid),
                             !.respawn = mon.ever_ready],
                 [status EXCEPT !.id = pid, !.health = "Starting"], "loop")
        /\ driver' = IF mon.probes_cancelled THEN NoDriver
                     ELSE [run |-> id, pid |-> pid, phase |-> "Readiness", asked |-> FALSE]
  /\ ask' = (IF driver.asked THEN "done" ELSE ask)
  /\ clock' = [clock EXCEPT !.respawn = FALSE]
  /\ UNCHANGED <<sup, observations, flags, log, stop, proven>>

MonRestarting ==
  /\ MonEvent("Restarting")
  /\ Sends([mon EXCEPT !.run = NoRun, !.respawn = FALSE],
           [state |-> "Restarting", pid |-> 0, id |-> 0, health |-> "Starting"], "loop")
  /\ StopDriver
  /\ UNCHANGED <<sup, observations, clock, flags, log, stop, proven>>

MonExited ==
  /\ MonEvent("Exited")
  /\ mon' = [mon EXCEPT !.run = NoRun, !.respawn = FALSE]
  /\ StopDriver
  /\ UNCHANGED <<sup, observations, clock, flags, status, log, stop, proven>>

(* The request receiver goes with the task: a waiting caller is answered.  *)
MonEnds(st) ==
  /\ mon' = [mon EXCEPT !.pc = "done"]
  /\ driver' = NoDriver
  /\ ask' = (IF ask \in {"sent", "driver"} THEN "done" ELSE ask)
  /\ status' = st
  /\ UNCHANGED <<sup, observations, clock, flags, log, stop, proven>>

MonPreparationFailed == MonEvent("PreparationFailed") /\ MonEnds(Published(status, "Stopped"))
MonGaveUp == MonEvent("GaveUp") /\ MonEnds(TerminalStatus)
MonStopped == MonEvent("Stopped") /\ MonEnds(TerminalStatus)

(* The event channel closed without a word: publish_terminal all the same. *)
MonClosed ==
  /\ mon.pc = "loop" /\ ~CancelReady
  /\ events = << >> /\ sup.task = "gone"
  /\ UNCHANGED events
  /\ MonEnds(TerminalStatus)

(* Mutant: an observation counts for whatever run is current.              *)
AppliesToAny(o) == mon.run # NoRun

(* observation_applies                                                     *)
Applies(o) == mon.run # NoRun /\ o.run = mon.run.id /\ o.pid = mon.run.pid

TooLate(o) == (o.initial /\ ~mon.ever_ready) \/ (o.respawn /\ mon.respawn)

(* acknowledge_ready, through the slot stop takes the supervisor from.  A  *)
(* cancelled supervisor may or may not have given its handle away yet.     *)
Acknowledged(pid, yes) ==
  LET current == sup.slot /\ sup.task = "watch" /\ sup.alive /\ sup.child = pid
                   /\ sup.pending = pid
  IN yes = current \/ (flags.cancel /\ yes = FALSE)

(* ProbeReconcile::apply of one observation, returning to back; in_grace   *)
(* tells whether the run's startup grace is over.                          *)
Apply(o, back, yes, in_grace) ==
  LET t == Observe(mon.run.tracker, o.healthy, in_grace)
      run == [mon.run EXCEPT !.tracker = t]
      ack == ~run.acked /\ t.state = "Healthy"
  IN \/ /\ ~Applies(o) \/ TooLate(o)
        /\ yes = FALSE
        /\ UNCHANGED <<mon, sup, driver, status, proven>>
     \/ /\ Applies(o) /\ ~TooLate(o) /\ ack
        /\ Acknowledged(run.pid, yes)
        /\ IF yes
             THEN /\ Sends([mon EXCEPT !.run = [run EXCEPT !.acked = TRUE, !.ready = TRUE],
                                       !.ever_ready = TRUE, !.respawn = FALSE],
                           [state |-> "Running", pid |-> run.pid, id |-> status.id,
                            health |-> "Healthy"], back)
                  /\ sup' = [sup EXCEPT !.pending = 0]
                  /\ \E phase \in {"Liveness", "off"} : driver' = [driver EXCEPT !.phase = phase]
                  /\ proven' = IF o.pid = run.pid THEN proven \union {run.pid} ELSE proven
             ELSE /\ mon' = [mon EXCEPT !.run = [run EXCEPT !.acked = TRUE]]
                  /\ UNCHANGED <<sup, driver, status, proven>>
     \/ /\ Applies(o) /\ ~TooLate(o) /\ ~ack
        /\ yes = FALSE
        /\ Sends([mon EXCEPT !.run = run], [status EXCEPT !.health = t.state], back)
        /\ UNCHANGED <<sup, driver, proven>>

MonObserves(yes) ==
  /\ mon.pc = "loop" /\ ~CancelReady /\ ~EventReady
  /\ ~InitialDeadline /\ ~RespawnDeadline /\ ask # "sent"
  /\ observations # << >>
  /\ observations' = Tail(observations)
  /\ \E in_grace \in BOOLEAN : Apply(Head(observations), "loop", yes, in_grace)
  /\ UNCHANGED <<events, clock, flags, log, stop, ask>>

(* A deadline: first drain what the probes already found.                  *)
MonDeadline(which) ==
  /\ mon.pc = "loop" /\ ~CancelReady /\ ~EventReady
  /\ IF which = "initial" THEN InitialDeadline ELSE RespawnDeadline /\ ~InitialDeadline
  /\ mon' = [mon EXCEPT !.pc = which]
  /\ UNCHANGED <<sup, events, driver, observations, clock, flags, status, log, stop, ask,
                 proven>>

MonDrains(yes) ==
  /\ mon.pc \in {"initial", "respawn"} /\ observations # << >>
  /\ observations' = Tail(observations)
  /\ \E in_grace \in BOOLEAN : Apply(Head(observations), mon.pc, yes, in_grace)
  /\ UNCHANGED <<events, clock, flags, log, stop, ask>>

(* Mutant: the deadline passes and the probes stay armed.                  *)
TimesOutKeepsProbing(f) == [f EXCEPT !.probe_timeout = TRUE]

(* Not ready in time: probes off, and the supervisor kills the tree.       *)
TimesOut(f) == [f EXCEPT !.probe_timeout = TRUE, !.probe_cancel = TRUE, !.cancel = TRUE]

(* Mutant: the run outlives the deadline it missed.                        *)
MonTimesOutKeepsRun ==
  /\ mon.pc \in {"initial", "respawn"} /\ observations = << >>
  /\ mon' = [mon EXCEPT !.pc = "loop", !.respawn = FALSE,
                        !.timeout_fired = @ \/ mon.pc = "initial"]
  /\ flags' = [flags EXCEPT !.probe_timeout = TRUE, !.cancel = TRUE]
  /\ UNCHANGED <<sup, events, driver, observations, clock, status, log, stop, ask, proven>>

MonTimesOut ==
  /\ mon.pc \in {"initial", "respawn"} /\ observations = << >>
  /\ IF (mon.pc = "initial" /\ ~mon.ever_ready) \/ (mon.pc = "respawn" /\ mon.respawn)
       THEN /\ mon' = [mon EXCEPT !.pc = "loop", !.run = NoRun, !.respawn = FALSE,
                                  !.timeout_fired = @ \/ mon.pc = "initial"]
            /\ flags' = TimesOut(flags)
            /\ StopDriver
       ELSE /\ mon' = [mon EXCEPT !.pc = "loop"]
            /\ UNCHANGED <<flags, driver, ask>>
  /\ UNCHANGED <<sup, events, observations, clock, status, log, stop, proven>>

MonRequest ==
  /\ mon.pc = "loop" /\ ~CancelReady /\ ~EventReady
  /\ ~InitialDeadline /\ ~RespawnDeadline
  /\ ask = "sent"
  /\ IF mon.run # NoRun /\ mon.run.ready /\ driver.run # 0
       THEN ask' = "driver" /\ driver' = [driver EXCEPT !.asked = TRUE]
       ELSE ask' = "done" /\ UNCHANGED driver
  /\ UNCHANGED <<sup, events, mon, observations, clock, flags, status, log, stop, proven>>

(* Instance::probe_now                                                     *)
ProbeNow ==
  /\ ask = "idle" /\ stop.pc = "idle"
  /\ ask' = (IF mon.pc \in {"done", "aborted"} THEN "done" ELSE "sent")
  /\ UNCHANGED <<sup, events, mon, driver, observations, clock, flags, status, log, stop,
                 proven>>

(***************************************************************************)
(* publish_log_frame on the supervision loop: a cache failure of the core. *)
(***************************************************************************)
LogFailure ==
  /\ sup.native /\ sup.task = "watch" /\ log = NoStatus /\ ~flags.persistence
  /\ flags' = [flags EXCEPT !.persistence = TRUE]
  /\ LET st == IF status.health = "none" THEN status ELSE [status EXCEPT !.health = "Unhealthy"]
     IN IF sup.torn THEN log' = st /\ UNCHANGED status ELSE status' = st /\ UNCHANGED log
  /\ UNCHANGED <<sup, events, mon, driver, observations, clock, stop, ask, proven>>

LogSend ==
  /\ log # NoStatus
  /\ status' = log /\ log' = NoStatus
  /\ UNCHANGED <<sup, events, mon, driver, observations, clock, flags, stop, ask, proven>>

(***************************************************************************)
(* stop_and_confirm_dead                                                   *)
(***************************************************************************)
StopFlags ==
  /\ stop.pc = "idle" /\ ~sup.torn   \* bound: a stop works from no stale clone
  /\ flags' = [flags EXCEPT !.user_stop = TRUE, !.probe_cancel = TRUE]
  /\ stop' = [stop EXCEPT !.pc = IF is_terminal(status) THEN "take" ELSE "publish"]
  /\ UNCHANGED <<sup, events, mon, driver, observations, clock, status, log, ask, proven>>

StopPublishes ==
  /\ stop.pc = "publish"
  /\ status' = Published(status, "Stopping")
  /\ stop' = [stop EXCEPT !.pc = "take"]
  /\ UNCHANGED <<sup, events, mon, driver, observations, clock, flags, log, ask, proven>>

(* The supervisor leaves its slot; its stop cancels it.                    *)
StopTakes ==
  /\ stop.pc = "take"
  /\ sup' = [sup EXCEPT !.slot = FALSE]
  /\ flags' = [flags EXCEPT !.cancel = TRUE]
  /\ stop' = [stop EXCEPT !.pc = "stopping"]
  /\ UNCHANGED <<events, mon, driver, observations, clock, status, log, ask, proven>>

(* Supervisor::stop returns when its task is over, or the timeout fires.   *)
StopSupervised ==
  /\ stop.pc = "stopping"
  /\ \/ sup.task = "gone" /\ stop' = [stop EXCEPT !.pc = "join", !.ok = ~sup.stuck]
     \/ sup.task # "gone" /\ stop' = [stop EXCEPT !.pc = "join", !.ok = FALSE]
  /\ UNCHANGED <<sup, events, mon, driver, observations, clock, flags, status, log, ask,
                 proven>>

(* The monitor ends, or is aborted at one of its awaits.                   *)
StopJoins ==
  /\ stop.pc = "join"
  /\ \/ /\ mon.pc = "done"
        /\ stop' = [stop EXCEPT !.pc = "check", !.joined = TRUE]
        /\ UNCHANGED <<mon, driver, ask>>
     \/ /\ mon.pc \in {"loop", "initial", "respawn"}
        /\ stop' = [stop EXCEPT !.pc = "check"]
        /\ mon' = [mon EXCEPT !.pc = "aborted"]
        /\ driver' = NoDriver
        /\ ask' = (IF ask \in {"sent", "driver"} THEN "done" ELSE ask)
  /\ UNCHANGED <<sup, events, observations, clock, flags, status, log, proven>>

(* store.confirm_stopped may still refuse.                                 *)
Confirmed == {"ok"} \union (IF sup.native THEN {"store"} ELSE {})

(* Mutant: the supervisor's word is enough, whatever it says.              *)
TrustSupervisor(terminal) == stop.joined \/ terminal \/ ~stop.ok

(* The supervisor stopped and the monitor, or the status, agrees.          *)
StopAgreed(terminal) == stop.ok /\ (stop.joined \/ terminal)

(* An agreed stop finds no pid record: the engine removed it before Exited. *)
StopChecks ==
  /\ stop.pc = "check"
  /\ LET terminal == is_terminal(status) IN
     \/ /\ StopAgreed(terminal)
        /\ \E pc \in Confirmed : stop' = [stop EXCEPT !.pc = pc, !.terminal = terminal]
     \/ /\ ~StopAgreed(terminal)
        /\ stop' = [stop EXCEPT !.pc = "reap", !.terminal = terminal]
  /\ UNCHANGED <<sup, events, mon, driver, observations, clock, flags, status, log, ask,
                 proven>>

(* reap_epoch_pid_file: what the record proves.                            *)
Reaped(outcome) ==
  CASE outcome = "NotFound" -> ~sup.record
    [] outcome = "AlreadyExited" -> sup.record /\ ~sup.alive
    [] outcome = "Killed" -> sup.record /\ sup.alive /\ ~sup.stuck
    [] outcome = "Err" -> sup.record

Proven(outcome) ==
  outcome \in {"AlreadyExited", "Killed"} \/ (outcome = "NotFound" /\ stop.terminal)

StopReaps(outcome) ==
  /\ stop.pc = "reap"
  /\ Reaped(outcome)
  /\ sup' = IF outcome \in {"AlreadyExited", "Killed"}
              THEN [sup EXCEPT !.alive = FALSE, !.record = FALSE,
                               !.exit = IF sup.alive THEN "crash" ELSE @]
              ELSE sup
  /\ IF Proven(outcome)
       THEN /\ status' = IF stop.terminal THEN status ELSE Published(status, "Stopped")
            /\ \E pc \in Confirmed : stop' = [stop EXCEPT !.pc = pc]
       ELSE status' = status /\ stop' = [stop EXCEPT !.pc = "unconfirmed"]
  /\ UNCHANGED <<events, mon, driver, observations, clock, flags, log, ask, proven>>

(***************************************************************************)
(* Time, and the whole.                                                    *)
(***************************************************************************)
DeadlinePasses(which) ==
  /\ \/ which = "initial" /\ ~clock.initial /\ ~mon.ever_ready
        /\ clock' = [clock EXCEPT !.initial = TRUE]
     \/ which = "respawn" /\ ~clock.respawn /\ mon.respawn
        /\ clock' = [clock EXCEPT !.respawn = TRUE]
  /\ UNCHANGED <<sup, events, mon, driver, observations, flags, status, log, stop, ask,
                 proven>>

SupervisorStep == SupExited \/ SupDecides \/ SupBackoffEnds \/ SupStarted
MonitorStep ==
  \/ MonSend \/ MonProbeCancel \/ MonStarted \/ MonRestarting \/ MonExited
  \/ MonPreparationFailed \/ MonGaveUp \/ MonStopped \/ MonClosed
  \/ MonTimesOut \/ MonRequest
  \/ \E which \in {"initial", "respawn"} : MonDeadline(which)
  \/ \E yes \in BOOLEAN : MonObserves(yes) \/ MonDrains(yes)
StopStep ==
  \/ StopPublishes \/ StopTakes \/ StopSupervised \/ StopJoins \/ StopChecks
  \/ \E outcome \in {"NotFound", "AlreadyExited", "Killed", "Err"} : StopReaps(outcome)

InstanceNext ==
  \/ \E how \in {"clean", "crash"} : ChildExits(how)
  \/ ChildKilled \/ SupervisorStep \/ MonitorStep
  \/ \E healthy \in BOOLEAN : DriverProbes(healthy) \/ DriverReconciles(healthy)
  \/ LogFailure \/ LogSend \/ ProbeNow \/ StopFlags \/ StopStep
  \/ \E which \in {"initial", "respawn"} : DeadlinePasses(which)

(* Tasks run and timers fire; a kill that can succeed does.  Nobody must   *)
(* exit, probe, ask or stop.                                               *)
InstanceFairness ==
  /\ WF_ivars(SupervisorStep) /\ WF_ivars(MonitorStep) /\ WF_ivars(StopStep)
  /\ WF_ivars(ChildKilled) /\ WF_ivars(LogSend)
  /\ WF_ivars(\E healthy \in BOOLEAN : DriverReconciles(healthy))
  /\ \A which \in {"initial", "respawn"} : WF_ivars(DeadlinePasses(which))

InstanceSpec == InstanceInit /\ [][InstanceNext]_ivars /\ InstanceFairness

(***************************************************************************)
(* Properties                                                              *)
(***************************************************************************)
InstanceTypeOK ==
  /\ sup.child \in Children /\ sup.restarts \in 0 .. MaxRestarts
  /\ sup.pending \in 0 .. MaxChildren
  /\ mon.next_run_id \in 0 .. MaxChildren
  /\ status \in Statuses
  /\ mon.send \in Statuses \union {NoStatus} /\ log \in Statuses \union {NoStatus}
  /\ Len(observations) <= MaxObservations + 1
  /\ proven \subseteq Children

(* Running is only ever published for a process whose own probe was healthy*)
(* and which the supervisor acknowledged: a late observation of an earlier *)
(* run never marks its successor ready (observation_applies).              *)
RunningIsProven == status.state = "Running" => status.pid \in proven

(* stop_and_confirm_dead returns Ok only with the process dead and nobody  *)
(* left who would start another, also when the supervisor's stop timed out *)
(* and only the pid record is left to go by.                               *)
StopProvesDeath ==
  stop.pc \in {"ok", "store"} => ~sup.alive /\ sup.task \in {"watch", "decide", "gone"}

(* Once a start or respawn deadline gave up on the core, nothing turns it  *)
(* Running again: probes are off before another event is looked at.        *)
NoRunningAfterTimeout ==
  [][flags.probe_timeout /\ ~sup.torn /\ status.state # "Running"
       => status'.state # "Running"]_ivars

(* The first start ends in Running, Restarting or Stopped, so wait_ready   *)
(* returns; or the instance is being stopped, the process cannot be killed,*)
(* or a publisher works from a stale clone of the status (torn).           *)
StartResolves ==
  sup.torn \/ <>[](status.state \in {"Running", "Stopped", "Restarting"} \/ flags.user_stop \/ sup.stuck)
=============================================================================
