-------------------------- MODULE ServiceShutdown --------------------------
(***************************************************************************)
(* The service's teardown (chimera_service/src/server/manager_bridge.rs,   *)
(* CoreManagerService::shutdown) over the control plane of CoreControl.    *)
(*                                                                         *)
(* The bridge asks the control plane to shut down, at most 90 seconds per  *)
(* attempt, and falls back to retrying manager.shutdown() itself.  Around  *)
(* it run the v2 clients (submit), and the v1 routes, which call the       *)
(* manager directly while they hold the adapter lock.                      *)
(***************************************************************************)
EXTENDS CoreControl

CONSTANTS
  MaxAttempts,      \* bound: control-plane shutdown attempts of the bridge
  RestoreMayFail,   \* whether manager.shutdown() can return Err (host DNS)
  MayExceedTimeout  \* whether an attempt can outlast CORE_SHUTDOWN_TIMEOUT

ASSUME ServiceAssumption ==
  /\ Commands \subseteq {"Reconcile", "Stop", "Recover", "Shutdown"}
  /\ Hosts = 1 .. MaxAttempts
  /\ MaxAttempts \in Nat \ {0}
  /\ RestoreMayFail \in BOOLEAN /\ MayExceedTimeout \in BOOLEAN

VARIABLES
  core,      \* the managed core: "up", "down", or "stray": given up by the
             \* manager (quarantined) because its death was not confirmed
  v1,        \* the v1 call holding the adapter lock, or "none"
  service,   \* where CoreManagerService::shutdown is
  attempt    \* its current call of control.shutdown()

serviceVars == <<core, v1, service, attempt>>
allVars == <<vars, serviceVars>>

ServiceTypeOK ==
  /\ TypeOK
  /\ core \in {"up", "down", "stray"}
  /\ v1 \in {"none", "start", "stop", "restart"}
  /\ service \in {"serving", "attempt", "calling", "until_closed", "retry",
                  "returned"}
  /\ attempt \in 1 .. MaxAttempts + 1

ServiceInit ==
  /\ Init
  /\ core = "down"
  /\ v1 = "none"
  /\ service = "serving"
  /\ attempt = 1

-----------------------------------------------------------------------------
(* What the manager's transactions leave of the core.  One that failed may  *)
(* have torn the old core down, or have been unable to confirm that it did; *)
(* a quarantine blocks a reconcile or a start, never a shutdown.  The DNS   *)
(* restore at the head of stop and shutdown fails before touching the core. *)
Reconciled(state) ==
  IF core = "stray" THEN IF state = "Failed" THEN {"stray"} ELSE {}
  ELSE IF state = "Succeeded" THEN {"up"}
  ELSE {core, "down", "stray"}

ShutDown(state) ==
  IF state = "Succeeded" THEN {IF core = "up" THEN "down" ELSE core}
  ELSE (IF core = "up" THEN {"down", "stray"} ELSE {})
         \cup (IF RestoreMayFail THEN {core} ELSE {})

Stopped(state) ==
  IF core = "up" THEN ShutDown(state)
  ELSE IF state = "Failed" THEN {core} ELSE {}                  \* NotStarted

(* recover_quarantine has nothing to do without a quarantine, and fails     *)
(* while the stray process is not proved dead; its DNS restore comes after *)
(* the quarantine is lifted.                                               *)
Recovered(state) ==
  IF core # "stray" THEN IF state = "Succeeded" THEN {core} ELSE {}
  ELSE IF state = "Succeeded" THEN {"down"}
  ELSE {"stray"} \cup (IF RestoreMayFail THEN {"down"} ELSE {})

Effect(command, state) ==
  CASE command = "Reconcile" -> Reconciled(state)
    [] command = "Stop"      -> Stopped(state)
    [] command = "Recover"   -> Recovered(state)
    [] command = "Shutdown"  -> ShutDown(state)

TransactionEnds ==
  \E state \in {"Succeeded", "Failed"} :
    /\ Finish(state)
    /\ core' \in Effect(executor.work.command, state)
    /\ UNCHANGED <<v1, service, attempt>>

TransactionPanics ==
  /\ Panic
  /\ core' \in IF core = "stray" THEN {"stray"} ELSE {"up", "down"}
  /\ UNCHANGED <<v1, service, attempt>>

ExecutorMoves ==
  \/ /\ Recv \/ Refuse \/ Begin \/ DieLatch \/ CloseQueue \/ DrainOne \/ DrainDone
     /\ UNCHANGED serviceVars
  \/ TransactionEnds
  \/ TransactionPanics

(* Nothing maps Shutdown onto the wire (submit_v2).                        *)
ClientMoves(s) ==
  /\ \/ \E work \in [id: ClientIds, command: Commands \ {"Shutdown"}] :
          SubmitLoad(s, work)
     \/ SubmitExisting(s) \/ SubmitAdmit(s) \/ SubmitRejected(s)
  /\ UNCHANGED serviceVars

-----------------------------------------------------------------------------
(* v1 routes: the adapter lock is held across the manager call.            *)
AdapterClosing == service # "serving"

V1Begin(op) ==
  /\ v1 = "none"
  /\ ~AdapterClosing
  /\ op = "start" => core # "up"       \* status().state must be Stopped
  /\ v1' = op
  /\ UNCHANGED <<vars, core, service, attempt>>

V1End ==
  /\ v1 # "none"
  /\ \E state \in {"Succeeded", "Failed"} :
       core' \in Effect(IF v1 = "stop" THEN "Stop" ELSE "Reconcile", state)
  /\ v1' = "none"
  /\ UNCHANGED <<vars, service, attempt>>

(* The core ends by itself.                                                *)
CoreDies ==
  /\ core = "up"
  /\ core' = "down"
  /\ UNCHANGED <<vars, v1, service, attempt>>

-----------------------------------------------------------------------------
(* CoreManagerService::shutdown                                            *)

(* Mutant: the manager is called directly, around the executor.            *)
ShutdownDirect ==
  /\ service = "serving"
  /\ v1 = "none"
  /\ service' = "retry"
  /\ UNCHANGED <<vars, core, v1, attempt>>

(* Latched under the adapter lock, so after the v1 call that holds it.     *)
ServiceShutdown ==
  /\ service = "serving"
  /\ v1 = "none"
  /\ service' = "attempt"
  /\ UNCHANGED <<vars, core, v1, attempt>>

Call ==
  /\ service = "attempt"
  /\ attempt <= MaxAttempts
  /\ HostLatch(attempt)
  /\ service' = "calling"
  /\ UNCHANGED <<core, v1, attempt>>

Calling ==
  /\ service = "calling"
  /\ HostStep(attempt)
  /\ UNCHANGED serviceVars

(* Mutants: an error is logged and returned; the closed executor is not     *)
(* noticed.                                                                *)
AnsweredGivesUp ==
  /\ service = "calling"
  /\ host[attempt].pc \in {"ok", "err"}
  /\ service' = "returned"
  /\ UNCHANGED <<vars, core, v1, attempt>>

(* Mutant: only an Ok ends the wait.                                       *)
AnsweredOkOnly ==
  /\ service = "calling"
  /\ host[attempt].pc = "ok"
  /\ service' = "returned"
  /\ UNCHANGED <<vars, core, v1, attempt>>

(* Ok: done.  Err: with the executor gone fall back to the manager, else   *)
(* sleep and try the control plane again.                                  *)
Answered ==
  /\ service = "calling"
  /\ \/ host[attempt].pc = "ok" /\ service' = "returned" /\ attempt' = attempt
     \/ /\ host[attempt].pc = "err"
        /\ IF rx_closed THEN service' = "retry" /\ attempt' = attempt
                        ELSE service' = "attempt" /\ attempt' = attempt + 1
  /\ UNCHANGED <<vars, core, v1>>

(* CORE_SHUTDOWN_TIMEOUT expires.  Only a transaction takes that long, and *)
(* timeout() polls the call first: one that can go on is not dropped.      *)
TimesOut ==
  /\ MayExceedTimeout
  /\ service = "calling"
  /\ executor.pc = "running"
  /\ \/ host[attempt].pc = "reserving" /\ ~rx_closed /\ ~HasSlot
     \/ host[attempt].pc = "waiting"
  /\ HostCancel(attempt)
  /\ service' = "until_closed"
  /\ UNCHANGED <<core, v1, attempt>>

UntilClosed ==
  /\ service = "until_closed"
  /\ executor.pc = "exited"
  /\ service' = "retry"
  /\ UNCHANGED <<vars, core, v1, attempt>>

(* retry_until_success over manager.shutdown().  A failure of the restore   *)
(* changes nothing; one of the stop takes the core out of the manager.     *)
RetrySucceeds ==
  /\ service = "retry"
  /\ core' \in ShutDown("Succeeded")
  /\ service' = "returned"
  /\ UNCHANGED <<vars, v1, attempt>>

RetryFails ==
  /\ service = "retry"
  /\ core' \in ShutDown("Failed")
  /\ UNCHANGED <<vars, v1, service, attempt>>

-----------------------------------------------------------------------------
BridgeMoves == Call \/ Calling \/ Answered \/ UntilClosed

ServiceNext ==
  \/ ExecutorMoves
  \/ \E s \in Submitters : ClientMoves(s)
  \/ \E op \in {"start", "stop", "restart"} : V1Begin(op)
  \/ V1End
  \/ CoreDies
  \/ ServiceShutdown
  \/ BridgeMoves
  \/ TimesOut
  \/ RetrySucceeds
  \/ RetryFails

(***************************************************************************)
(* Fairness: the runtime polls what can move, every transaction and every  *)
(* v1 call ends, and a manager.shutdown() that is retried for ever does    *)
(* succeed some time.  The timeout need not fire.                          *)
(***************************************************************************)
ServiceSpec ==
  /\ ServiceInit /\ [][ServiceNext]_allVars
  /\ WF_allVars(ExecutorMoves)
  /\ WF_allVars(BridgeMoves)
  /\ WF_allVars(RetrySucceeds)
  /\ WF_allVars(V1End)

-----------------------------------------------------------------------------
(***************************************************************************)
(* Once the service's shutdown has returned nothing owns a transaction any *)
(* more and no v1 call is in flight: a reconcile queued a moment earlier,  *)
(* or racing the latch, cannot put a core back up behind the shutdown.     *)
(***************************************************************************)
NothingBehindShutdown == service = "returned" => ~Holding /\ v1 = "none"

(***************************************************************************)
(* The service is torn down only once the manager has given the core up:   *)
(* stopped, or quarantined with its death unconfirmed.  "Do not tear down  *)
(* this service (and potentially its TUN/core) while that state is         *)
(* uncertain" (manager_bridge.rs:349).                                     *)
(***************************************************************************)
CoreDownAtTeardown == service = "returned" => core # "up"

(***************************************************************************)
(* The bridge asks the control plane at most twice: after an error it      *)
(* either sees the executor closed, or its second request is answered by   *)
(* an executor on its way out.  The retry loop cannot spin on a dead plane.*)
(***************************************************************************)
AskedAtMostTwice == attempt <= 2

(***************************************************************************)
(* Once the shutdown has returned nothing owns a transaction and no v1     *)
(* call is in flight, so nothing puts a core back up behind it; and the    *)
(* control plane was asked at most twice, whatever failed or took long.    *)
(***************************************************************************)
TeardownInv == ServiceTypeOK /\ NothingBehindShutdown /\ AskedAtMostTwice

(***************************************************************************)
(* The service's shutdown returns: "If it expires, the service waits for   *)
(* the executor transaction to finish and retries through the manager      *)
(* directly before allowing service teardown" (manager_bridge.rs:49).      *)
(***************************************************************************)
TeardownCompletes == service = "attempt" ~> service = "returned"
=============================================================================
