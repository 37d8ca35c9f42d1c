----------------------------- MODULE StatusFeed -----------------------------
(***************************************************************************)
(* What clients of the service are told: the manager's status watch and    *)
(* the wire type echo (manager_bridge.rs), the bridge that turns both into *)
(* events, the status ring of the hub (events.rs) and a websocket          *)
(* (routing/ws.rs).                                                        *)
(*                                                                         *)
(* Of a snapshot only this matters: whether its status, and its type, are  *)
(* still what the watches hold.  A pair of Booleans says so, and whoever   *)
(* publishes makes every older snapshot stale.  The tracing output of the  *)
(* service goes into the status ring too (server/mod.rs, the subscriber of *)
(* Logger).  The ring of core logs is left out: losing a log frame touches *)
(* nothing that is here.                                                   *)
(***************************************************************************)
EXTENDS Naturals, Sequences, FiniteSets

CONSTANTS
  WireTypes,       \* CoreType
  HubCapacity,     \* EVENT_CHANNEL_CAPACITY
  Moves,           \* states that those transitions reach
  MaxChanges,      \* bound: transitions of the manager beside the operations
  MaxReconciles,   \* bound: reconciles and v1 starts
  MaxTraces,       \* bound: lines of tracing output
  MaxConnects      \* bound: connections

VARIABLES
  manager,  \* status watch: state, and the wire type it really runs
  ops,      \* reconciles in execution order
  echo,     \* requested_core watch, and echo_applied
  v1,       \* a v1 start between manager.start and its publish
  bridge,   \* status_bridge
  conn,     \* a websocket and what its receiver has not read of the ring
  used,     \* bounds used so far
  raced     \* ghost: "v1": a v1 start and a reconcile overlapped; "rollback": the
            \* observer of a rollback overtook the one of an earlier commit

fvars == <<manager, ops, echo, v1, bridge, conn, used, raced>>

States == {"Stopped", "Crashed", "Starting", "Restarting", "Running", "Switching", "Stopping"}
NoType == "none"

ASSUME FeedAssumption == HubCapacity \in Nat \ {0} /\ Moves \subseteq States

(* map_core_state: "Crashed" is Stopped with a reason.                     *)
MapCoreState(state) ==
  CASE state \in {"Running", "Switching", "Stopping"} -> "Running"
    [] state = "Crashed" -> "StoppedByCrash"
    [] OTHER -> "Stopped"

Off == [phase |-> "off", queue |-> <<>>, lagged |-> FALSE, raw |-> FALSE, view |-> <<FALSE, FALSE>>]

FeedInit ==
  /\ manager = [state |-> "Stopped", core |-> NoType]
  /\ ops = <<>> /\ v1 = NoType /\ raced = {}
  /\ echo = [type |-> NoType, applied |-> 0]
  /\ bridge = [phase |-> "wait", status |-> TRUE, echo |-> TRUE, raw |-> FALSE, state |-> "Stopped", last |-> "Stopped"]
  /\ conn = Off
  /\ used = [changes |-> 0, traces |-> 0, connects |-> 0, starts |-> 0]

(***************************************************************************)
(* The manager and the operations                                          *)
(***************************************************************************)
(* A value of the status watch (1) or of the echo watch (2) is replaced.   *)
Stale(n) ==
  conn' = [conn EXCEPT !.raw = @ /\ n # 1, !.view[n] = FALSE,
                       !.queue = [i \in DOMAIN @ |-> [@[i] EXCEPT !.view[n] = FALSE]]]

PublishStatus(state, core) ==
  /\ manager' = [state |-> state, core |-> core]
  /\ bridge' = [bridge EXCEPT !.status = FALSE, !.raw = FALSE] /\ Stale(1)

(* A transition of the manager that no client asked for by type.           *)
Transition(state) ==
  /\ used.changes < MaxChanges /\ used' = [used EXCEPT !.changes = @ + 1]
  /\ manager.core # NoType \/ state \in {"Starting", "Switching"}
  /\ PublishStatus(state, IF state \in {"Stopped", "Crashed"} THEN NoType ELSE manager.core)
  /\ UNCHANGED <<ops, echo, v1, raced>>

(* The executor ends a reconcile; rolled back, the old runtime is back.    *)
(* The observer of a failed one returns without a trace.                   *)
Reconciled(type, result) ==
  /\ used.starts < MaxReconciles /\ used' = [used EXCEPT !.starts = @ + 1]
  /\ result = "RolledBack" => manager.core # NoType
  /\ ops' = Append(ops, [type |-> type, result |-> result, seen |-> result = "Failed"])
  /\ CASE result = "Committed" -> PublishStatus("Running", type)
       [] result = "RolledBack" -> PublishStatus("Running", manager.core)
       [] result = "Failed" -> UNCHANGED <<manager, bridge, conn>>
  /\ raced' = raced \cup {r \in {"v1"} : v1 # NoType}
  /\ UNCHANGED <<echo, v1>>

(* publish_requested_core: send_modify notifies, for a commit and for a    *)
(* refresh.                                                                *)
Notify == bridge' = [bridge EXCEPT !.echo = FALSE] /\ Stale(2)

(* Mutant: an observer does not ask who ran last.                          *)
HadLastWordNever(i) == FALSE

(* A later reconcile already had the last word.                            *)
HadLastWord(i) == echo.applied >= i

(* watch_reconcile_echo: observers run in any order; the sequence of the   *)
(* executor decides which echo is the last.                                *)
Observe(i) ==
  /\ i \in DOMAIN ops /\ ~ops[i].seen
  /\ ops' = [ops EXCEPT ![i].seen = TRUE]
  /\ IF HadLastWord(i) THEN UNCHANGED <<echo, bridge, conn>>
     ELSE LET type == IF ops[i].result = "Committed" THEN ops[i].type ELSE echo.type IN
       /\ echo' = [type |-> type, applied |-> i]
       /\ Notify
  /\ raced' = raced \cup {r \in {"rollback"} : ops[i].result = "RolledBack" /\ \E j \in 1..(i - 1) : ~ops[j].seen}
  /\ UNCHANGED <<manager, v1, used>>

(* start (v1): the manager's transaction.                                  *)
V1Start(type) ==
  /\ v1 = NoType /\ manager.state \in {"Stopped", "Crashed"} /\ manager.core = NoType
  /\ used.starts < MaxReconciles /\ used' = [used EXCEPT !.starts = @ + 1]
  /\ PublishStatus("Running", type) /\ v1' = type
  /\ raced' = raced \cup {r \in {"v1"} : \E i \in DOMAIN ops : ~ops[i].seen}
  /\ UNCHANGED <<ops, echo>>

(* start (v1): the echo, without the sequence of the executor.             *)
V1Publish ==
  /\ v1 # NoType /\ v1' = NoType /\ echo' = [echo EXCEPT !.type = v1] /\ Notify
  /\ UNCHANGED <<manager, ops, used, raced>>

(***************************************************************************)
(* EventHub::send and status_bridge                                        *)
(***************************************************************************)
(* CoreStatusChanged, and an event without a snapshot.                     *)
Status(view) == [status |-> TRUE, view |-> view]
Other == [status |-> FALSE, view |-> <<FALSE, FALSE>>]

(* send never waits: a receiver that is further behind than the ring holds *)
(* is told of the gap, and what it missed no longer matters.               *)
Send(events) ==
  IF conn.phase = "off" THEN UNCHANGED conn
  ELSE LET q == conn.queue \o events
           gap == conn.lagged \/ Len(q) > HubCapacity IN
    conn' = [conn EXCEPT !.lagged = gap, !.queue = IF gap THEN <<>> ELSE q]

(* states.changed and borrow_and_update                                    *)
BridgeStatus ==
  /\ bridge.phase = "wait" /\ ~bridge.status
  /\ bridge' = [bridge EXCEPT !.phase = "status", !.status = TRUE, !.raw = TRUE,
                              !.state = manager.state]
  /\ UNCHANGED <<manager, ops, echo, v1, conn, used, raced>>

(* The guards of the legacy stream.                                        *)
Suppressed(state, last) ==
  (state \in {"Stopping", "Switching"} /\ last # "Running") \/ MapCoreState(state) = last

(* The snapshot leads; the legacy state follows, with a line of tracing.   *)
BridgeStatusSends ==
  /\ bridge.phase = "status"
  /\ LET next == MapCoreState(bridge.state)
         quiet == Suppressed(bridge.state, bridge.last) IN
     /\ bridge' = [bridge EXCEPT !.phase = "wait", !.echo = TRUE, !.raw = FALSE, !.state = "Stopped",
                                 !.last = IF quiet THEN @ ELSE next]
     /\ Send(<<Status(<<bridge.raw, TRUE>>)>> \o IF quiet THEN <<>> ELSE <<Other, Other>>)
  /\ UNCHANGED <<manager, ops, echo, v1, used, raced>>

(* requested_core.changed: the status is read but not marked as seen.      *)
BridgeEcho ==
  /\ bridge.phase = "wait" /\ ~bridge.echo
  /\ bridge' = [bridge EXCEPT !.phase = "echo", !.raw = TRUE]
  /\ UNCHANGED <<manager, ops, echo, v1, conn, used, raced>>

BridgeEchoSends ==
  /\ bridge.phase = "echo"
  /\ bridge' = [bridge EXCEPT !.phase = "wait", !.echo = TRUE, !.raw = FALSE]
  /\ Send(<<Status(<<bridge.raw, TRUE>>)>>)
  /\ UNCHANGED <<manager, ops, echo, v1, used, raced>>

(* Logger::write: a line of tracing output becomes an event.               *)
TraceLine ==
  /\ used.traces < MaxTraces /\ used' = [used EXCEPT !.traces = @ + 1] /\ Send(<<Other>>)
  /\ UNCHANGED <<manager, ops, echo, v1, bridge, raced>>

(***************************************************************************)
(* handle_socket                                                           *)
(***************************************************************************)
(* The subscription comes before the snapshot.                             *)
Connect ==
  /\ conn.phase = "off" /\ used.connects < MaxConnects
  /\ used' = [used EXCEPT !.connects = @ + 1]
  /\ conn' = [Off EXCEPT !.phase = "snapshot"]
  /\ UNCHANGED <<manager, ops, echo, v1, bridge, raced>>

(* send_snapshot: status() reads the two watches one after the other.      *)
SnapshotStatus ==
  /\ conn.phase = "snapshot" /\ conn' = [conn EXCEPT !.phase = "snapshotEcho", !.raw = TRUE]
  /\ UNCHANGED <<manager, ops, echo, v1, bridge, used, raced>>

SnapshotEcho ==
  /\ conn.phase = "snapshotEcho"
  /\ conn' = [conn EXCEPT !.phase = "loop", !.raw = FALSE, !.view = <<conn.raw, TRUE>>]
  /\ UNCHANGED <<manager, ops, echo, v1, bridge, used, raced>>

(* events.recv: the next event goes to the client.                         *)
RecvEvent ==
  /\ conn.phase = "loop" /\ conn.queue # <<>>
  /\ LET e == Head(conn.queue) IN
     conn' = [conn EXCEPT !.queue = Tail(@), !.view = IF e.status THEN e.view ELSE @]
  /\ UNCHANGED <<manager, ops, echo, v1, bridge, used, raced>>

(* Mutant: a lag is answered by the live tail alone.                       *)
RecvLaggedQuietly ==
  /\ conn.phase = "loop" /\ conn.lagged /\ conn' = [conn EXCEPT !.lagged = FALSE]
  /\ UNCHANGED <<manager, ops, echo, v1, bridge, used, raced>>

(* StatusLag: a warning, the live tail (past the warning, which is an      *)
(* event too), and a new snapshot.                                         *)
RecvLagged ==
  /\ conn.phase = "loop" /\ conn.lagged
  /\ conn' = [conn EXCEPT !.lagged = FALSE, !.phase = "snapshot"]
  /\ UNCHANGED <<manager, ops, echo, v1, bridge, used, raced>>

(* The socket is gone.                                                     *)
Disconnect ==
  /\ conn.phase # "off" /\ conn' = Off
  /\ UNCHANGED <<manager, ops, echo, v1, bridge, used, raced>>

BridgeStep == BridgeStatus \/ BridgeStatusSends \/ BridgeEcho \/ BridgeEchoSends
SocketStep == SnapshotStatus \/ SnapshotEcho \/ RecvEvent \/ RecvLagged
Observers == \E i \in DOMAIN ops : Observe(i)

FeedNext ==
  \/ \E state \in Moves : Transition(state)
  \/ \E type \in WireTypes, result \in {"Committed", "RolledBack", "Failed"} : Reconciled(type, result)
  \/ Observers \/ V1Publish \/ (\E type \in WireTypes : V1Start(type))
  \/ BridgeStep \/ TraceLine
  \/ Connect \/ SocketStep \/ Disconnect

FeedSpec == FeedInit /\ [][FeedNext]_fvars

(***************************************************************************)
(* Properties                                                              *)
(***************************************************************************)
(* Types; what a connection has not read fits into the ring (EventHub).    *)
FeedTypeOK ==
  /\ manager.state \in States /\ manager.core \in WireTypes \cup {NoType}
  /\ echo.type \in WireTypes \cup {NoType} /\ echo.applied \in 0..Len(ops)
  /\ Len(conn.queue) <= HubCapacity /\ conn.lagged \in BOOLEAN

BridgeIdle == bridge.phase = "wait" /\ bridge.status /\ bridge.echo

(* Once the bridge has seen both watches and a client has read its ring,   *)
(* what the client was told last is the present status and the present     *)
(* type, whatever was coalesced, lagged or sent between subscribing and    *)
(* the snapshot (status_bridge, handle_socket, send_snapshot).             *)
FeedCurrent ==
  (BridgeIdle /\ conn.phase = "loop" /\ conn.queue = <<>> /\ ~conn.lagged) => conn.view = <<TRUE, TRUE>>

(* The legacy stream of an idle bridge has said Running exactly when the   *)
(* manager's state projects to it, but for Stopping and Switching that it  *)
(* holds back from a stopped client (status_bridge, the guards).           *)
LegacyCurrent ==
  BridgeIdle => \/ bridge.last = MapCoreState(manager.state)
                \/ manager.state \in {"Stopping", "Switching"} /\ bridge.last # "Running"

Settled == v1 = NoType /\ manager.core # NoType /\ \A i \in DOMAIN ops : ops[i].seen

(* When every reconcile was observed, in whatever order, the echo names    *)
(* the core that runs, unless a v1 start overlapped a reconcile or the     *)
(* observer of a rollback came first (watch_reconcile_echo).               *)
EchoTruthful == (Settled /\ raced = {}) => echo.type = manager.core

(* The echo is the one of the reconcile that committed last, whichever     *)
(* observer came last (manager_bridge.rs, the comment on echo_applied).    *)
EchoLastWriter == (Settled /\ "v1" \notin raced) => echo.type = manager.core

=============================================================================
