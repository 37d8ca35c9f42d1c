----------------------------- MODULE Supervisor -----------------------------
(***************************************************************************)
(* The process supervisor (chimera-utils/src/process/supervisor.rs): one   *)
(* task watches a child process, restarts it after a crash within a budget *)
(* and a storm window, and kills it on cancellation.  Around the task run  *)
(* Supervisor::stop, acknowledge_ready, the kill task it spawns, and the   *)
(* children themselves.                                                    *)
(*                                                                         *)
(* A behaviour starts when SupervisorBuilder::spawn returned, the first    *)
(* child running.  Children are numbered in spawn order; the number stands *)
(* for the pid, so pids are not reused within a behaviour.                 *)
(***************************************************************************)
EXTENDS Integers, Sequences, FiniteSets

CONSTANTS
  MaxChildren,   \* bound: spawns in a behaviour
  MaxTime,       \* bound: clock ticks in a behaviour
  MaxRestarts,   \* RestartPolicy::OnFailure { max_restarts }
  RestartNever,  \* RestartPolicy::Never instead
  MaxFailures,   \* RestartStormPolicy::max_failures
  Window,        \* RestartStormPolicy::window, in ticks
  Acknowledged,  \* ReadinessProbe::Acknowledged, else AliveAfter
  KillMayFail    \* whether killing the process tree can fail

ASSUME SupervisorAssumption ==
  /\ MaxChildren \in Nat \ {0} /\ MaxTime \in Nat
  /\ MaxRestarts \in Nat /\ MaxFailures \in Nat \ {0} /\ Window \in Nat
  /\ RestartNever \in BOOLEAN /\ Acknowledged \in BOOLEAN
  /\ KillMayFail \in BOOLEAN

VARIABLES
  child,              \* per spawn: "unborn", "alive", "clean" or "crashed"
  spawned,            \* how many children were spawned; the last one's number
  now,                \* the clock
  token,              \* the cancellation token
  current,            \* the shared handle slot: a child, or 0
  ready_pending,      \* the child that may still be acknowledged, or 0
  ready_rx,           \* acknowledgements sent and not yet received
  task,               \* where the supervision task is
  readiness_pending,  \* its locals
  cancelled,
  attempt,
  abnormal_exits,
  kill_task,          \* the child the spawned kill task is stopping, or 0
  stop,               \* Supervisor::stop: [pc, handle it took]
  ack,                \* acknowledge_ready past its first check: a child, or 0
  event,              \* the last SupervisorEvent emitted
  acked,              \* history: children whose acknowledgement was accepted
  crashes             \* history: the times of all crashes the task has seen

childVars == <<child, spawned, now>>
taskVars == <<task, readiness_pending, cancelled, attempt, abnormal_exits, event,
              crashes>>
sharedVars == <<token, current, ready_pending, ready_rx, kill_task, stop, ack, acked>>
vars == <<childVars, taskVars, sharedVars>>

Children == 1 .. MaxChildren
Times == 0 .. MaxTime
Alive(n) == n \in Children /\ child[n] = "alive"

TypeOK ==
  /\ child \in [Children -> {"unborn", "alive", "clean", "crashed"}]
  /\ spawned \in Children /\ now \in Times /\ token \in BOOLEAN
  /\ current \in 0 .. MaxChildren /\ ready_pending \in 0 .. MaxChildren
  /\ ready_rx \in Seq(Children)
  /\ task \in {"watch", "reap", "decide", "retry", "backoff", "prepare", "spawn",
               "failed", "place", "announce", "done"}
  /\ readiness_pending \in BOOLEAN /\ cancelled \in BOOLEAN
  /\ attempt \in 0 .. MaxRestarts + 1
  /\ abnormal_exits \in Seq(Times) /\ crashes \in Seq(Times)
  /\ kill_task \in 0 .. MaxChildren /\ ack \in 0 .. MaxChildren
  /\ stop \in [pc: {"idle", "cancelled", "killing", "join", "ok", "err"},
               failed: BOOLEAN, handle: 0 .. MaxChildren]
  /\ event \in {"Started", "Ready", "Exited", "Restarting", "GaveUp",
                "PreparationFailed", "Stopped"}
  /\ acked \subseteq Children

Init ==
  /\ child = [n \in Children |-> IF n = 1 THEN "alive" ELSE "unborn"]
  /\ spawned = 1 /\ now = 0 /\ token = FALSE
  /\ current = 1
  /\ ready_pending = (IF Acknowledged THEN 1 ELSE 0)
  /\ ready_rx = << >>
  /\ task = "watch" /\ readiness_pending = TRUE /\ cancelled = FALSE
  /\ attempt = 0 /\ abnormal_exits = << >> /\ crashes = << >>
  /\ kill_task = 0 /\ ack = 0 /\ acked = {}
  /\ stop = [pc |-> "idle", failed |-> FALSE, handle |-> 0]
  /\ event = "Started"

-----------------------------------------------------------------------------
(* The environment: children end by themselves, time passes.               *)

ChildExits(n, how) ==
  /\ Alive(n)
  /\ child' = [child EXCEPT ![n] = how]
  /\ UNCHANGED <<spawned, now, taskVars, sharedVars>>

Tick ==
  /\ now < MaxTime
  /\ now' = now + 1
  /\ UNCHANGED <<child, spawned, taskVars, sharedVars>>

(***************************************************************************)
(* stop_process(handle): a graceful request, then a kill; both return only *)
(* when the child has terminated, or with an error and the child alive.    *)
(***************************************************************************)
StopProcess(n, ok) ==
  IF ok \/ ~Alive(n)
    THEN child' = [child EXCEPT ![n] = IF Alive(n) THEN "crashed" ELSE child[n]]
    ELSE KillMayFail /\ child' = child

-----------------------------------------------------------------------------
(* The supervision task.                                                   *)

Emit(e) == event' = e
Ends(e) == task' = "done" /\ Emit(e)

(* Mutant: the cancellation is noted and nothing is killed.                *)
WatchCancelNoKill ==
  /\ task = "watch"
  /\ token /\ ~cancelled
  /\ cancelled' = TRUE
  /\ readiness_pending' = FALSE
  /\ current' = 0
  /\ UNCHANGED <<childVars, task, attempt, abnormal_exits, event, crashes, token,
                 ready_pending, ready_rx, kill_task, stop, ack, acked>>

(* The cancel branch of the select: kill through a task of its own, and    *)
(* keep watching for the child's termination.                              *)
WatchCancel ==
  /\ task = "watch"
  /\ token /\ ~cancelled
  /\ cancelled' = TRUE
  /\ readiness_pending' = FALSE
  /\ kill_task' = (IF current # 0 THEN current ELSE kill_task)
  /\ current' = 0
  /\ UNCHANGED <<childVars, task, attempt, abnormal_exits, event, crashes, token,
                 ready_pending, ready_rx, stop, ack, acked>>

BecomesReady == attempt' = 0 /\ Emit("Ready")

WatchAlive ==
  /\ task = "watch"
  /\ ~Acknowledged /\ readiness_pending
  /\ readiness_pending' = FALSE
  /\ IF Alive(current) /\ ~token THEN BecomesReady ELSE UNCHANGED <<attempt, event>>
  /\ UNCHANGED <<childVars, task, cancelled, abnormal_exits, crashes, sharedVars>>

WatchAck ==
  /\ task = "watch"
  /\ Acknowledged /\ readiness_pending
  /\ ready_rx # << >>
  /\ ready_rx' = Tail(ready_rx)
  /\ IF Head(ready_rx) = current /\ Alive(current) /\ ~token
       THEN readiness_pending' = FALSE /\ BecomesReady
       ELSE UNCHANGED <<readiness_pending, attempt, event>>
  /\ UNCHANGED <<childVars, task, cancelled, abnormal_exits, crashes, token, current,
                 ready_pending, kill_task, stop, ack, acked>>

(* The child's Terminated event.                                           *)
WatchExit ==
  /\ task = "watch"
  /\ ~Alive(spawned)
  /\ task' = "reap"
  /\ UNCHANGED <<childVars, readiness_pending, cancelled, attempt, abnormal_exits,
                 event, crashes, sharedVars>>

KillTask(ok) ==
  /\ kill_task # 0
  /\ StopProcess(kill_task, ok)
  /\ kill_task' = 0
  /\ UNCHANGED <<spawned, now, taskVars, token, current, ready_pending, ready_rx,
                 stop, ack, acked>>

Reap ==
  /\ task = "reap"
  /\ kill_task = 0                   \* awaited
  /\ current' = 0
  /\ ready_pending' = 0
  /\ Emit("Exited")
  /\ task' = "decide"
  /\ UNCHANGED <<childVars, readiness_pending, cancelled, attempt, abnormal_exits,
                 crashes, token, ready_rx, kill_task, stop, ack, acked>>

InWindow(t) == now - t <= Window

(* What the loop that pops old crashes from the front stops at.            *)
OldestInWindow(exits, k) == InWindow(exits[k]) /\ \A j \in 1 .. k - 1 : ~InWindow(exits[j])

(* Restart or not, after an exit.                                          *)
Decide ==
  /\ task = "decide"
  /\ CASE cancelled \/ token ->
            Ends("Stopped") /\ UNCHANGED <<abnormal_exits, crashes>>
       [] ~(cancelled \/ token) /\ (child[spawned] = "clean" \/ RestartNever) ->
            task' = "done" /\ UNCHANGED <<event, abnormal_exits, crashes>>
       [] OTHER ->
            LET exits == Append(abnormal_exits, now) IN
            \E k \in 1 .. Len(exits) :
              /\ OldestInWindow(exits, k)
              /\ abnormal_exits' = SubSeq(exits, k, Len(exits))
              /\ crashes' = Append(crashes, now)
              /\ IF Len(abnormal_exits') >= MaxFailures
                   THEN Ends("GaveUp") ELSE task' = "retry" /\ event' = event
  /\ UNCHANGED <<childVars, readiness_pending, cancelled, attempt, sharedVars>>

Retry ==
  /\ task = "retry"
  /\ attempt' = attempt + 1
  /\ IF attempt + 1 > MaxRestarts
       THEN Ends("GaveUp")
       ELSE task' = "backoff" /\ Emit("Restarting")
  /\ UNCHANGED <<childVars, readiness_pending, cancelled, abnormal_exits, crashes,
                 sharedVars>>

(* The delay elapses, or the token is cancelled during it.                 *)
Backoff ==
  /\ task = "backoff"
  /\ IF token THEN Ends("Stopped") ELSE task' = "prepare" /\ event' = event
  /\ UNCHANGED <<childVars, readiness_pending, cancelled, attempt, abnormal_exits,
                 crashes, sharedVars>>

(* The before_spawn hook, with the token checked on both sides of it.      *)
Prepare(ok) ==
  /\ task = "prepare"
  /\ IF token THEN Ends("Stopped")
     ELSE IF ok THEN task' = "spawn" /\ event' = event
     ELSE Ends("PreparationFailed")
  /\ UNCHANGED <<childVars, readiness_pending, cancelled, attempt, abnormal_exits,
                 crashes, sharedVars>>

(* From here a cancellation is only seen once the new child is watched.    *)
Spawn ==
  /\ task = "spawn"
  /\ spawned < MaxChildren
  /\ spawned' = spawned + 1
  /\ child' = [child EXCEPT ![spawned + 1] = "alive"]
  /\ task' = "place"
  /\ UNCHANGED <<now, readiness_pending, cancelled, attempt, abnormal_exits, event,
                 crashes, sharedVars>>

SpawnFails ==
  /\ task = "spawn"
  /\ task' = "failed"
  /\ UNCHANGED <<childVars, readiness_pending, cancelled, attempt, abnormal_exits,
                 event, crashes, sharedVars>>

(* The loop head without a child to watch.                                 *)
AfterFailedSpawn ==
  /\ task = "failed"
  /\ IF token THEN Ends("Stopped") ELSE task' = "retry" /\ event' = event
  /\ UNCHANGED <<childVars, readiness_pending, cancelled, attempt, abnormal_exits,
                 crashes, sharedVars>>

Place ==
  /\ task = "place"
  /\ current' = spawned
  /\ task' = "announce"
  /\ UNCHANGED <<childVars, readiness_pending, cancelled, attempt, abnormal_exits,
                 event, crashes, token, ready_pending, ready_rx, kill_task, stop, ack,
                 acked>>

(* Mutant: a cancellation seen here ends the task, the child with nobody.  *)
AnnounceEnds ==
  /\ task = "announce"
  /\ IF token
       THEN Ends("Stopped") /\ UNCHANGED ready_pending
       ELSE /\ ready_pending' = (IF Acknowledged THEN spawned ELSE ready_pending)
            /\ Emit("Started")
            /\ task' = "watch"
  /\ readiness_pending' = TRUE
  /\ cancelled' = FALSE
  /\ UNCHANGED <<childVars, attempt, abnormal_exits, crashes, token, current, ready_rx,
                 kill_task, stop, ack, acked>>

(* Started, unless cancelled since; then watch the new child.              *)
Announce ==
  /\ task = "announce"
  /\ IF token
       THEN UNCHANGED <<ready_pending, event>>
       ELSE /\ ready_pending' = (IF Acknowledged THEN spawned ELSE ready_pending)
            /\ Emit("Started")
  /\ task' = "watch"
  /\ readiness_pending' = TRUE
  /\ cancelled' = FALSE
  /\ UNCHANGED <<childVars, attempt, abnormal_exits, crashes, token, current, ready_rx,
                 kill_task, stop, ack, acked>>

-----------------------------------------------------------------------------
(* Supervisor::stop, and dropping the supervisor.                          *)

StopCancel ==
  /\ stop.pc = "idle"
  /\ token' = TRUE
  /\ stop' = [stop EXCEPT !.pc = "cancelled"]
  /\ UNCHANGED <<childVars, taskVars, current, ready_pending, ready_rx, kill_task, ack,
                 acked>>

StopTake ==
  /\ stop.pc = "cancelled"
  /\ stop' = [stop EXCEPT !.pc = IF current = 0 THEN "join" ELSE "killing",
                          !.handle = current]
  /\ current' = 0
  /\ UNCHANGED <<childVars, taskVars, token, ready_pending, ready_rx, kill_task, ack,
                 acked>>

StopKill(ok) ==
  /\ stop.pc = "killing"
  /\ StopProcess(stop.handle, ok)
  /\ stop' = [pc |-> "join", failed |-> ~ok /\ Alive(stop.handle), handle |-> 0]
  /\ UNCHANGED <<spawned, now, taskVars, token, current, ready_pending, ready_rx,
                 kill_task, ack, acked>>

(* Mutant: stop does not wait for the task.                                *)
StopDetaches ==
  /\ stop.pc = "join"
  /\ stop' = [stop EXCEPT !.pc = IF stop.failed THEN "err" ELSE "ok"]
  /\ UNCHANGED <<childVars, taskVars, token, current, ready_pending, ready_rx,
                 kill_task, ack, acked>>

StopJoin ==
  /\ stop.pc = "join"
  /\ task = "done"
  /\ stop' = [stop EXCEPT !.pc = IF stop.failed THEN "err" ELSE "ok"]
  /\ UNCHANGED <<childVars, taskVars, token, current, ready_pending, ready_rx,
                 kill_task, ack, acked>>

(* Drop, or the host's parent token: cancelled with nobody waiting.        *)
CancelRoot ==
  /\ ~token
  /\ token' = TRUE
  /\ UNCHANGED <<childVars, taskVars, current, ready_pending, ready_rx, kill_task,
                 stop, ack, acked>>

-----------------------------------------------------------------------------
(* acknowledge_ready(n): is n the current child, and alive; then, without  *)
(* the slot's lock, the exchange and the send.                             *)
AckCheck(n) ==
  /\ ack = 0
  /\ stop.pc = "idle"
  /\ current = n /\ Alive(n)
  /\ ack' = n
  /\ UNCHANGED <<childVars, taskVars, token, current, ready_pending, ready_rx,
                 kill_task, stop, acked>>

AckExchange ==
  /\ ack # 0
  /\ IF ready_pending = ack /\ task # "done"
       THEN /\ ready_pending' = 0
            /\ ready_rx' = Append(ready_rx, ack)
            /\ acked' = acked \cup {ack}
       ELSE UNCHANGED <<ready_pending, ready_rx, acked>>
  /\ ack' = 0
  /\ UNCHANGED <<childVars, taskVars, token, current, kill_task, stop>>

-----------------------------------------------------------------------------
TaskStep ==
  \/ WatchCancel \/ WatchAlive \/ WatchAck \/ WatchExit
  \/ Reap \/ Decide \/ Retry \/ Backoff \/ Prepare(TRUE) \/ Prepare(FALSE)
  \/ Spawn \/ SpawnFails \/ AfterFailedSpawn \/ Place \/ Announce

KillStep == KillTask(TRUE) \/ KillTask(FALSE)
StopStep == StopTake \/ StopKill(TRUE) \/ StopKill(FALSE) \/ StopJoin

Next ==
  \/ TaskStep \/ KillStep \/ StopStep
  \/ StopCancel \/ CancelRoot
  \/ \E n \in Children : AckCheck(n)
  \/ AckExchange
  \/ \E n \in Children, how \in {"clean", "crashed"} : ChildExits(n, how)
  \/ Tick

Spec == Init /\ [][Next]_vars

(***************************************************************************)
(* The runtime polls every task that can go on (a due backoff or readiness *)
(* timer included).  Children need not exit by themselves, nobody has to   *)
(* call stop, and no kill has to succeed when KillMayFail.                 *)
(***************************************************************************)
FairSpec ==
  /\ Spec
  /\ WF_vars(TaskStep) /\ WF_vars(KillStep) /\ WF_vars(StopStep)

-----------------------------------------------------------------------------
(* Properties                                                              *)

(***************************************************************************)
(* A live child is the last one spawned, and the task is still there to    *)
(* see it end: never two children at once, none left behind by a task that *)
(* ended, none running while the task waits to start another.              *)
(***************************************************************************)
NoStrayChild ==
  \A n \in Children :
    child[n] = "alive" => n = spawned /\ task \in {"place", "announce", "watch"}

(***************************************************************************)
(* Supervisor::stop is "deterministic shutdown": when it returned, with Ok *)
(* or Err, nothing it supervised is alive, also when it found the slot     *)
(* empty because a respawn was under way.                                  *)
(***************************************************************************)
StopLeavesNothing ==
  stop.pc \in {"ok", "err"} => \A n \in Children : child[n] # "alive"

(***************************************************************************)
(* Ready is announced only for the child that was acknowledged itself: an  *)
(* acknowledgement that was accepted for a child that crashed since, and   *)
(* is still in the channel, does not reset its successor's restart budget. *)
(***************************************************************************)
ReadyIsOwn ==
  [][(Acknowledged /\ event # "Ready" /\ event' = "Ready") => spawned \in acked]_vars

(***************************************************************************)
(* The storm guard bounds crashes whatever readiness says: the task never  *)
(* goes on to another child with MaxFailures crashes inside one window.    *)
(***************************************************************************)
RecentCrashes == {k \in 1 .. Len(crashes) : crashes[Len(crashes)] - crashes[k] <= Window}

StormBounded ==
  task \in {"retry", "backoff", "prepare", "spawn", "failed", "place", "announce",
            "watch"}
    => Cardinality(RecentCrashes) < MaxFailures
=============================================================================
