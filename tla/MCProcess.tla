----------------------------- MODULE MCProcess -----------------------------
(***************************************************************************)
(* Processes and who ends them: a behaviour is one of the supervisor, of   *)
(* the reaper of pid files, of the process engine or of the legacy core    *)
(* instance, and focus says which.  The parts share no state, so a         *)
(* property of a part holds here iff it holds of the part.                 *)
(***************************************************************************)
EXTENDS Supervisor, PidFile, ProcessEngine, LegacyCore

VARIABLE focus

(* The supervisor that counts a core as ready by time, and whose kills     *)
(* succeed.                                                                *)
Timed == INSTANCE Supervisor WITH Acknowledged <- FALSE, KillMayFail <- FALSE

processVars == <<focus, vars, pvars, evars, yvars>>

ProcessInit ==
  /\ focus \in {"supervisor", "timed", "reaper", "engine", "legacy"}
  /\ (IF focus = "timed" THEN Timed!Init ELSE Init) /\ PidInit /\ EngineInit /\ LegacyInit
  /\ focus # "engine" => ~windows

OnSupervisor == focus = "supervisor" /\ Next /\ UNCHANGED <<focus, pvars, evars, yvars>>
OnTimed      == focus = "timed" /\ Timed!Next /\ UNCHANGED <<focus, pvars, evars, yvars>>
OnReaper     == focus = "reaper" /\ PidNext /\ UNCHANGED <<focus, vars, evars, yvars>>
OnEngine     == focus = "engine" /\ EngineNext /\ UNCHANGED <<focus, vars, pvars, yvars>>
OnLegacy     == focus = "legacy" /\ LegacyNext /\ UNCHANGED <<focus, vars, pvars, evars>>

ProcessNext == OnSupervisor \/ OnTimed \/ OnReaper \/ OnEngine \/ OnLegacy

(* The fairness of the supervisor and of the engine (FairSpec,             *)
(* EngineFairness) while they have the focus.                              *)
ProcessFairness ==
  /\ WF_vars(focus = "supervisor" /\ TaskStep) /\ WF_vars(focus = "supervisor" /\ KillStep)
  /\ WF_vars(focus = "supervisor" /\ StopStep)
  /\ WF_vars(focus = "timed" /\ Timed!TaskStep) /\ WF_vars(focus = "timed" /\ Timed!KillStep)
  /\ WF_vars(focus = "timed" /\ Timed!StopStep)
  /\ WF_evars(focus = "engine" /\ PumpStep)
  /\ \A p \in Members : WF_evars(focus = "engine" /\ p \in hit /\ Dies(p))
  /\ \A c \in Callers : WF_evars(focus = "engine" /\ (ReplyDropped(c) \/ Waited(c)))

ProcessSpec == ProcessInit /\ [][ProcessNext]_processVars /\ ProcessFairness

(* A stop() that waits for ever waits for a child that outlived its kill:  *)
(* also when the cancellation lands while a respawn is under way, the task *)
(* ends once its child has, and the stop returns.                          *)
StopReturns ==
  <>[](stop.pc \notin {"idle", "ok", "err"} => focus # "timed" /\ \E n \in Children : Alive(n))

(* What else holds of the parts: every state has its shape and no channel, *)
(* retry or restart exceeds its bound; a record stays while its core may   *)
(* run; a storm of crashes is cut off; the receiver of a process gets all  *)
(* its output before Terminated; console helpers die with their process; a *)
(* legacy kill has seen its child die, and one legacy child runs at most.  *)
ProcessInv ==
  /\ focus # "timed" => TypeOK
  /\ focus = "timed" => Timed!TypeOK
  /\ StormBounded
  /\ PidTypeOK /\ EvidenceKept
  /\ EngineTypeOK /\ RecordTracksChild /\ NothingLost /\ HelperOwned
  /\ LegacyTypeOK /\ LegacyKillProven /\ LegacyOneChild
============================================================================
