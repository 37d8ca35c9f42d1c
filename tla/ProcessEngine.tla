---------------------------- MODULE ProcessEngine ----------------------------
(***************************************************************************)
(* One spawned process tree and the pump task that owns it                 *)
(* (process/engine.rs, handle.rs, windows_shutdown.rs): control requests,  *)
(* the kill deadline, the child's output and its end reach the pump in any *)
(* order, while the receiver of the events may stop reading or go away.    *)
(*                                                                         *)
(* A deadline is a flag: whether the grace period or the command's own     *)
(* timeout ends first is left open.  processkit (the group, its signals,   *)
(* finish and the events stream) is external.                              *)
(***************************************************************************)
EXTENDS Naturals, Sequences

CONSTANTS
  Callers,       \* tasks that hold the handle
  MaxCalls,      \* bound: calls of each
  MaxLines,      \* bound: output lines of the child
  EventCapacity, \* capacity of the event channel
  CtrlCapacity,  \* capacity of the control channel
  MaxKillErrors  \* bound: kill_all calls that fail

ASSUME EngineAssumption ==
  /\ MaxLines \in Nat /\ MaxCalls \in Nat /\ MaxKillErrors \in Nat /\ EventCapacity \in Nat \ {0}
  /\ CtrlCapacity \in Nat \ {0}

VARIABLES
  windows,   \* whether the console shutdown helper is in use
  tree,      \* the direct child and a descendant of it
  hit,       \* processes sent a signal they cannot survive
  pipe,      \* output: lines in the pipe, lines ever written, pipe ends
  record,    \* whether core-N.pid is on disk
  pump,      \* the pump task
  term,      \* the watch behind wait()
  ctrl,      \* control requests in the channel
  room,      \* slots of the event channel a receiver that stopped left free
  rcv,       \* the receiver of the events
  held,      \* whether any handle is left
  call,      \* the callers
  errors     \* kill_all calls that failed

evars == <<windows, tree, hit, pipe, record, pump, term, ctrl, room, rcv, held, call, errors>>

Ops == {"kill", "graceful"}
Spawned == pump.pc \notin {"new", "recording", "failing", "failed"}
Members == {"child", "descendant"}
Living == {p \in Members : tree[p] = "alive"}

NewPump == [pc |-> "new", armed |-> FALSE, pending |-> FALSE, evOpen |-> TRUE, ctrlOpen |-> TRUE,
            dying |-> FALSE, drop |-> FALSE, stall |-> FALSE, abandoned |-> FALSE,
            finished |-> FALSE, dropped |-> FALSE, helper |-> "none", target |-> FALSE,
            launched |-> 0, left |-> 0]

EngineInit ==
  /\ windows \in BOOLEAN
  /\ tree = [p \in Members |-> "absent"] /\ hit = {}
  /\ pipe = [lines |-> 0, written |-> 0, child |-> FALSE, descendant |-> FALSE]
  /\ record = FALSE /\ pump = NewPump /\ term = "none"
  /\ ctrl = <<>> /\ room = EventCapacity
  /\ rcv = [mode |-> "reading", got |-> 0, terminated |-> FALSE]
  /\ held = TRUE /\ call = [c \in Callers |-> [pc |-> "idle", op |-> "none", res |-> "none", n |-> 0]]
  /\ errors = 0

(***************************************************************************)
(* spawn                                                                   *)
(***************************************************************************)
(* The guard is prepared (module PidFile), then the group starts the       *)
(* child, with or without a timeout; no command of this program has both a *)
(* timeout and a shutdown helper.                                          *)
StartChild(timeout) ==
  /\ pump.pc = "new" /\ (timeout => ~windows)
  /\ tree' = [tree EXCEPT !["child"] = "alive"]
  /\ pipe' = [pipe EXCEPT !.child = TRUE]
  /\ pump' = [pump EXCEPT !.pc = "recording", !.armed = timeout, !.target = windows]
  /\ UNCHANGED <<windows, hit, record, term, ctrl, room, rcv, held, call, errors>>

RecordPid ==
  /\ pump.pc = "recording"
  /\ record' = TRUE /\ pump' = [pump EXCEPT !.pc = "loop"]
  /\ UNCHANGED <<windows, tree, hit, pipe, term, ctrl, room, rcv, held, call, errors>>

(* An epoch record that cannot be written fails the spawn: kill_all, and   *)
(* the child is waited for.                                                *)
RecordFails ==
  /\ pump.pc = "recording"
  /\ hit' = hit \union Living /\ pump' = [pump EXCEPT !.pc = "failing"]
  /\ UNCHANGED <<windows, tree, pipe, record, term, ctrl, room, rcv, held, call, errors>>

SpawnReturnsErr ==
  /\ pump.pc = "failing" /\ tree["child"] = "dead"
  /\ pump' = [pump EXCEPT !.pc = "failed"]
  /\ UNCHANGED <<windows, tree, hit, pipe, record, term, ctrl, room, rcv, held, call, errors>>

(***************************************************************************)
(* The process tree                                                        *)
(***************************************************************************)
Running(p) == tree[p] = "alive" /\ p \notin hit

Forks(inherits) ==
  /\ Running("child") /\ tree["descendant"] = "absent"
  /\ tree' = [tree EXCEPT !["descendant"] = "alive"]
  /\ pipe' = [pipe EXCEPT !.descendant = inherits /\ pipe.child]
  /\ UNCHANGED <<windows, hit, record, pump, term, ctrl, room, rcv, held, call, errors>>

Prints ==
  /\ Running("child") /\ pipe.child /\ pipe.written < MaxLines
  /\ pipe' = [pipe EXCEPT !.lines = @ + 1, !.written = @ + 1]
  /\ UNCHANGED <<windows, tree, hit, record, pump, term, ctrl, room, rcv, held, call, errors>>

(* The child may close its output and go on.                               *)
ClosesOutput ==
  /\ Running("child") /\ pipe.child
  /\ pipe' = [pipe EXCEPT !.child = FALSE]
  /\ UNCHANGED <<windows, tree, hit, record, pump, term, ctrl, room, rcv, held, call, errors>>

Dies(p) ==
  /\ tree[p] = "alive"
  /\ tree' = [tree EXCEPT ![p] = "dead"]
  /\ pipe' = IF p = "child" THEN [pipe EXCEPT !.child = FALSE]
             ELSE [pipe EXCEPT !.descendant = FALSE]
  /\ UNCHANGED <<windows, hit, record, pump, term, ctrl, room, rcv, held, call, errors>>

(***************************************************************************)
(* ProcessHandle                                                           *)
(***************************************************************************)
(* send_ctrl: a caller that gave up waiting may ask again.  The request is *)
(* put into the channel, or, when the pump has ended, the answer is what   *)
(* wait() says.                                                            *)
Sends(c, op) ==
  /\ call[c].pc = "idle" /\ held /\ Spawned
  /\ call[c].n < MaxCalls
  /\ IF pump.pc = "done"
     THEN /\ call' = [call EXCEPT ![c] = [pc |-> "waiting", op |-> op, res |-> "none", n |-> @.n + 1]]
          /\ UNCHANGED ctrl
     ELSE /\ Len(ctrl) < CtrlCapacity /\ ctrl' = Append(ctrl, c)
          /\ call' = [call EXCEPT ![c] = [pc |-> "queued", op |-> op, res |-> "none", n |-> @.n + 1]]
  /\ UNCHANGED <<windows, tree, hit, pipe, record, pump, term, room, rcv, held, errors>>

(* The pump ended with the request in its channel: the reply is dropped.   *)
ReplyDropped(c) ==
  /\ call[c].pc = "queued" /\ pump.pc = "done"
  /\ call' = [call EXCEPT ![c].pc = "waiting"]
  /\ UNCHANGED <<windows, tree, hit, pipe, record, pump, term, ctrl, room, rcv, held, errors>>

(* Mutant: the call returns with the answer to the request.                *)
WaitedNot(c) ==
  /\ call[c].pc = "waiting"
  /\ call' = [call EXCEPT ![c].pc = "done", ![c].res = "ok"]
  /\ UNCHANGED <<windows, tree, hit, pipe, record, pump, term, ctrl, room, rcv, held, errors>>

Waited(c) ==
  /\ call[c].pc = "waiting" /\ term # "none"
  /\ call' = [call EXCEPT ![c].pc = "done", ![c].res = term]
  /\ UNCHANGED <<windows, tree, hit, pipe, record, pump, term, ctrl, room, rcv, held, errors>>

(* A caller with a timeout drops the future; what it asked for stays asked. *)
GivesUp(c) ==
  /\ call[c].pc = "waiting" /\ call[c].op = "graceful" /\ call[c].n < MaxCalls
  /\ call' = [call EXCEPT ![c].pc = "idle"]
  /\ UNCHANGED <<windows, tree, hit, pipe, record, pump, term, ctrl, room, rcv, held, errors>>

DropHandles ==
  /\ held /\ Spawned
  /\ \A c \in Callers : call[c].pc \in {"idle", "done"}
  /\ held' = FALSE
  /\ UNCHANGED <<windows, tree, hit, pipe, record, pump, term, ctrl, room, rcv, call, errors>>

(***************************************************************************)
(* The pump                                                                *)
(***************************************************************************)
InLoop == pump.pc = "loop"
Selecting == pump.pc \in {"loop", "wait", "flush"}
CtrlReady == pump.ctrlOpen /\ (ctrl # <<>> \/ ~held)
AbandonDue == pump.pc \in {"loop", "wait"} /\ ~pump.evOpen /\ ~pump.ctrlOpen /\ ~pump.abandoned

(* `biased`: what is in the control channel comes first.                   *)
Undisturbed == ~AbandonDue /\ ~CtrlReady

(* group.kill_all, which may fail.  Only a caller is told: the deadline,   *)
(* the helper and the abandoned pump ignore the error.                     *)
KillAll(works) ==
  /\ hit' = IF works THEN hit \union Living ELSE hit
  /\ errors' = IF works THEN errors ELSE errors + 1
  /\ errors' <= MaxKillErrors

NoKill == UNCHANGED <<hit, errors>>

(* From when on an undelivered event holds the pump up no longer than      *)
(* DYING_EVENT_STALL.                                                      *)
Dying(p) == IF InLoop THEN [p EXCEPT !.dying = TRUE, !.stall = @ \/ p.pending] ELSE p

Reply(ok) ==
  LET c == Head(ctrl) IN
  /\ ctrl' = Tail(ctrl)
  /\ call' = [call EXCEPT ![c] = IF ok THEN [@ EXCEPT !.pc = "waiting"]
                                 ELSE [@ EXCEPT !.pc = "done", !.res = "err"]]

HelperStops(p) == [p EXCEPT !.helper = IF @ = "none" THEN "none" ELSE "killed"]

(* handle_ctrl, Kill                                                       *)
CtrlKill(works) ==
  /\ Selecting /\ ~AbandonDue /\ ctrl # <<>> /\ call[Head(ctrl)].op = "kill"
  /\ pump' = Dying(HelperStops([pump EXCEPT !.armed = FALSE]))
  /\ KillAll(works) /\ Reply(works)
  /\ UNCHANGED <<windows, tree, pipe, record, term, room, rcv, held>>

(* handle_ctrl, GracefulKill on Unix: TERM and a deadline, or kill_all.    *)
CtrlGraceful(signals, works) ==
  /\ Selecting /\ ~AbandonDue /\ ctrl # <<>> /\ call[Head(ctrl)].op = "graceful" /\ ~windows
  /\ \/ /\ signals /\ works
        /\ pump' = Dying([pump EXCEPT !.armed = TRUE]) /\ NoKill /\ Reply(TRUE)
     \/ /\ ~signals
        /\ pump' = Dying(pump) /\ KillAll(works) /\ Reply(works)
  /\ UNCHANGED <<windows, tree, pipe, record, term, room, rcv, held>>

(* Shutdown::request: one console event per process.                       *)
MayRequest == pump.launched = 0

(* handle_ctrl, GracefulKill on Windows: the helper is launched against    *)
(* the pid while it is known to be the child's.                            *)
CtrlBreak(launches, works) ==
  /\ Selecting /\ ~AbandonDue /\ ctrl # <<>> /\ call[Head(ctrl)].op = "graceful" /\ windows
  /\ \/ /\ pump.target /\ MayRequest /\ launches /\ works
        /\ pump' = Dying([pump EXCEPT !.armed = TRUE, !.helper = "running", !.launched = @ + 1])
        /\ NoKill /\ Reply(TRUE)
     \/ /\ pump.target /\ MayRequest /\ ~launches
        /\ pump' = Dying([pump EXCEPT !.armed = FALSE, !.launched = @ + 1])
        /\ KillAll(works) /\ Reply(works)
     \/ /\ pump.target /\ ~MayRequest /\ launches /\ works
        /\ pump' = Dying([pump EXCEPT !.armed = TRUE]) /\ NoKill /\ Reply(TRUE)
     \/ /\ ~pump.target /\ launches
        /\ pump' = Dying(HelperStops(pump)) /\ KillAll(works) /\ Reply(works)
  /\ UNCHANGED <<windows, tree, pipe, record, term, room, rcv, held>>

CtrlClosed ==
  /\ Selecting /\ pump.ctrlOpen /\ ctrl = <<>> /\ ~held
  /\ pump' = [pump EXCEPT !.ctrlOpen = FALSE]
  /\ UNCHANGED <<windows, tree, hit, pipe, record, term, ctrl, room, rcv, held, call, errors>>

(* Mutant: only a dropped receiver is noticed.                             *)
AbandonNever(works) == FALSE

(* Nobody is left who could ask for anything: the tree is killed.          *)
Abandon(works) ==
  /\ AbandonDue
  /\ pump' = [pump EXCEPT !.abandoned = TRUE, !.armed = FALSE, !.dying = InLoop \/ @]
  /\ KillAll(works)
  /\ UNCHANGED <<windows, tree, pipe, record, term, ctrl, room, rcv, held, call>>

DeadlineFires(works) ==
  /\ Selecting /\ Undisturbed /\ pump.armed
  /\ pump' = Dying([pump EXCEPT !.armed = FALSE, !.helper = "none"])
  /\ KillAll(works)
  /\ UNCHANGED <<windows, tree, pipe, record, term, ctrl, room, rcv, held, call>>

(* The helper ended, by itself or killed: a failure is answered by the     *)
(* hard way.                                                               *)
HelperEnds(succeeds, works) ==
  /\ pump.pc \in {"loop", "wait"} /\ Undisturbed /\ pump.helper # "none"
  /\ succeeds => pump.helper = "running" /\ works
  /\ pump' = [pump EXCEPT !.helper = "none"]
  /\ IF succeeds THEN NoKill ELSE KillAll(works)
  /\ UNCHANGED <<windows, tree, pipe, record, term, ctrl, room, rcv, held, call>>

(* Mutant: what is pending is thrown away with the process.               *)
FinishedDrops(p) ==
  Dying([p EXCEPT !.finished = TRUE, !.helper = "none", !.target = FALSE, !.pending = FALSE])

(* `finish` is done: the child was reaped, and its pid may be reused.      *)
Finished(p) == Dying([p EXCEPT !.finished = TRUE, !.helper = "none", !.target = FALSE])

FinishInLoop ==
  /\ InLoop /\ Undisturbed /\ ~pump.finished /\ tree["child"] = "dead"
  /\ pump' = Finished(pump) /\ term' = "ok"
  /\ UNCHANGED <<windows, tree, hit, pipe, record, ctrl, room, rcv, held, call, errors>>

FinishAfterLoop ==
  /\ pump.pc = "wait" /\ Undisturbed /\ tree["child"] = "dead"
  /\ pump' = [Finished(pump) EXCEPT !.pc = "cleanup"] /\ term' = "ok"
  /\ UNCHANGED <<windows, tree, hit, pipe, record, ctrl, room, rcv, held, call, errors>>

(* The receiver did not take the pending event in time: output is dropped  *)
(* from here on.                                                           *)
StallFires ==
  /\ InLoop /\ Undisturbed /\ pump.stall /\ pump.dying /\ pump.pending /\ ~pump.drop
  /\ rcv.mode = "stalled" /\ room = 0
  /\ pump' = [pump EXCEPT !.stall = FALSE, !.pending = FALSE, !.dropped = TRUE, !.drop = TRUE]
  /\ UNCHANGED <<windows, tree, hit, pipe, record, term, ctrl, room, rcv, held, call, errors>>

(* ev_tx: a receiver that reads takes an event as soon as it is sent, and  *)
(* one that has stopped reading leaves it in the channel.                  *)
MaySend == rcv.mode = "reading" \/ (rcv.mode = "stalled" /\ room > 0)
SendEvent(ev) ==
  IF rcv.mode = "reading"
  THEN /\ rcv' = [rcv EXCEPT !.got = IF ev = "line" THEN @ + 1 ELSE @,
                             !.terminated = ev = "Terminated"]
       /\ UNCHANGED room
  ELSE room' = room - 1 /\ UNCHANGED rcv

DeliverPending ==
  /\ InLoop /\ Undisturbed /\ pump.evOpen /\ pump.pending /\ ~pump.drop
  /\ MaySend /\ SendEvent("line")
  /\ pump' = [pump EXCEPT !.pending = FALSE, !.stall = FALSE]
  /\ UNCHANGED <<windows, tree, hit, pipe, record, term, ctrl, held, call, errors>>

EventsClosed ==
  /\ Selecting /\ Undisturbed /\ pump.evOpen /\ rcv.mode = "dropped"
  /\ pump' = [pump EXCEPT !.evOpen = FALSE, !.pending = FALSE, !.stall = FALSE]
  /\ UNCHANGED <<windows, tree, hit, pipe, record, term, ctrl, room, rcv, held, call, errors>>

NextLine ==
  /\ InLoop /\ Undisturbed /\ ~pump.pending /\ pipe.lines > 0
  /\ pipe' = [pipe EXCEPT !.lines = @ - 1]
  /\ pump' = IF pump.drop THEN [pump EXCEPT !.dropped = TRUE]
             ELSE IF pump.evOpen THEN [pump EXCEPT !.pending = TRUE, !.stall = pump.dying]
             ELSE pump
  /\ UNCHANGED <<windows, tree, hit, record, term, ctrl, room, rcv, held, call, errors>>

(* The stream ends when nobody holds the pipe any more.                    *)
StreamEnds ==
  /\ InLoop /\ Undisturbed /\ ~pump.pending /\ pipe.lines = 0
  /\ ~pipe.child /\ ~pipe.descendant
  /\ pump' = [pump EXCEPT !.pc = IF pump.finished THEN "cleanup" ELSE "wait"]
  /\ UNCHANGED <<windows, tree, hit, pipe, record, term, ctrl, room, rcv, held, call, errors>>

(* cleanup_pid_file, then the terminal events: what was dropped, and       *)
(* Terminated.                                                             *)
CleanUp ==
  /\ pump.pc = "cleanup"
  /\ record' = FALSE
  /\ pump' = [pump EXCEPT !.pc = "flush", !.left = IF pump.dropped THEN 2 ELSE 1]
  /\ UNCHANGED <<windows, tree, hit, pipe, term, ctrl, room, rcv, held, call, errors>>

FlushOne ==
  /\ pump.pc = "flush" /\ Undisturbed /\ pump.evOpen /\ pump.left > 0
  /\ MaySend /\ SendEvent(IF pump.left = 1 THEN "Terminated" ELSE "Error")
  /\ pump' = [pump EXCEPT !.left = @ - 1]
  /\ UNCHANGED <<windows, tree, hit, pipe, record, term, ctrl, held, call, errors>>

FlushStalls ==
  /\ pump.pc = "flush" /\ Undisturbed /\ pump.evOpen /\ pump.left > 0
  /\ rcv.mode = "stalled" /\ room = 0
  /\ pump' = [pump EXCEPT !.evOpen = FALSE]
  /\ UNCHANGED <<windows, tree, hit, pipe, record, term, ctrl, room, rcv, held, call, errors>>

(* The task ends; the group it owns is dropped, which ends what is left.   *)
PumpEnds ==
  /\ pump.pc = "flush" /\ (~pump.evOpen \/ pump.left = 0)
  /\ pump' = [pump EXCEPT !.pc = "done", !.helper = "none", !.target = FALSE]
  /\ hit' = hit \union Living
  /\ UNCHANGED <<windows, tree, pipe, record, term, ctrl, room, rcv, held, call, errors>>

(***************************************************************************)
(* The receiver                                                            *)
(***************************************************************************)
Receiver(mode, free) ==
  /\ Spawned /\ rcv.mode # "dropped" /\ rcv.mode # mode
  /\ rcv' = [rcv EXCEPT !.mode = mode] /\ room' = free
  /\ UNCHANGED <<windows, tree, hit, pipe, record, pump, term, ctrl, held, call, errors>>

PumpStep ==
  \/ RecordPid \/ RecordFails \/ SpawnReturnsErr
  \/ \E w \in BOOLEAN : \/ CtrlKill(w) \/ Abandon(w) \/ DeadlineFires(w)
                        \/ \E s \in BOOLEAN : CtrlGraceful(s, w) \/ CtrlBreak(s, w) \/ HelperEnds(s, w)
  \/ CtrlClosed \/ FinishInLoop \/ FinishAfterLoop \/ StallFires \/ DeliverPending
  \/ EventsClosed \/ NextLine \/ StreamEnds \/ CleanUp \/ FlushOne \/ FlushStalls \/ PumpEnds

EngineNext ==
  \/ \E t \in BOOLEAN : StartChild(t)
  \/ PumpStep
  \/ (\E i \in BOOLEAN : Forks(i)) \/ Prints \/ ClosesOutput \/ \E p \in Members : Dies(p)
  \/ \E c \in Callers : (\E op \in Ops : Sends(c, op)) \/ ReplyDropped(c) \/ Waited(c) \/ GivesUp(c)
  \/ DropHandles \/ (\E n \in 0 .. EventCapacity : Receiver("stalled", n))
  \/ Receiver("dropped", EventCapacity)

(* A signalled process dies, the pump and its timers run.  Nothing makes a *)
(* healthy child end.                                                      *)
EngineFairness ==
  /\ WF_evars(PumpStep)
  /\ \A p \in Members : WF_evars(p \in hit /\ Dies(p))
  /\ \A c \in Callers : WF_evars(ReplyDropped(c) \/ Waited(c))

EngineSpec == EngineInit /\ [][EngineNext]_evars /\ EngineFairness

(***************************************************************************)
(* Properties                                                              *)
(***************************************************************************)
(* The state is well-typed and no channel holds more than its capacity.    *)
EngineTypeOK ==
  /\ tree \in [Members -> {"absent", "alive", "dead"}] /\ hit \subseteq Members
  /\ Len(ctrl) <= CtrlCapacity /\ room \in 0 .. EventCapacity /\ pipe.lines <= MaxLines
  /\ pump.pc \in {"new", "recording", "failing", "failed", "loop", "wait", "cleanup", "flush", "done"}

(* kill and graceful_kill that return Ok have proof of the child's death,  *)
(* although the pump may have ended before it saw the request.             *)
KillProven ==
  \A c \in Callers : call[c].res = "ok" => tree["child"] = "dead"

(* The pid record is on disk as long as the child runs, whatever becomes   *)
(* of its output, and it is gone before anyone hears Terminated.           *)
RecordTracksChild ==
  /\ Spawned /\ tree["child"] = "alive" => record
  /\ rcv.terminated => ~record

(* A receiver that keeps reading gets every line before Terminated, also   *)
(* the ones that were in flight when the process was killed.               *)
NothingLost == rcv.terminated /\ rcv.mode = "reading" => rcv.got = pipe.written

(* The console helper only ever runs against a pid that is still the       *)
(* child's: none is left, and none can be launched, once it was reaped;    *)
(* and no process gets a second console event, however often it is asked.  *)
HelperOwned ==
  /\ pump.helper = "running" \/ pump.target => ~pump.finished
  /\ pump.launched <= 1

(* Dropping all handles and the receiver kills the whole tree.             *)
AbandonKills == (~held /\ rcv.mode = "dropped") ~> (Living = {} \/ errors > 0)

=============================================================================
