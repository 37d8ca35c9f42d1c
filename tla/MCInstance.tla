----------------------------- MODULE MCInstance -----------------------------
(***************************************************************************)
(* From a config and a binary to a healthy core: a behaviour is one of     *)
(* config changes, of capability resolution and endpoint authorization, or *)
(* of the instance and its monitor, and focus says which.  The parts share *)
(* no state, so a property of a part holds here iff it holds of the part.  *)
(***************************************************************************)
EXTENDS Instance, CoreLaunch, MCConfigChange

VARIABLE focus

instanceVars == <<focus, ivars, lvars, gvars>>

(* The parts that have no focus stay in one of their initial states.       *)
AtRest ==
  /\ focus # "instance" => sup.torn
  /\ focus # "launch" =>
       /\ builds = <<CHOOSE b \in Built : TRUE>>
       /\ target = [kind |-> "Mihomo", declared |-> Unresolved, policy |-> "Prefer",
                    os |-> "unix", access |-> "host"]
  /\ focus # "config" => file = <<>>

MCInstanceInit ==
  /\ focus \in {"instance", "launch", "config"}
  /\ InstanceInit /\ LaunchInit /\ ConfigInit
  /\ AtRest

OnInstance == focus = "instance" /\ InstanceNext /\ UNCHANGED <<focus, lvars, gvars>>
OnLaunch   == focus = "launch" /\ LaunchNext /\ UNCHANGED <<focus, ivars, gvars>>
OnConfig   == focus = "config" /\ ConfigNext /\ UNCHANGED <<focus, ivars, lvars>>

MCInstanceNext == OnInstance \/ OnLaunch \/ OnConfig

(* The fairness of the instance (InstanceFairness) while it has the focus. *)
MCInstanceFairness ==
  /\ WF_ivars(focus = "instance" /\ SupervisorStep) /\ WF_ivars(focus = "instance" /\ MonitorStep)
  /\ WF_ivars(focus = "instance" /\ StopStep) /\ WF_ivars(focus = "instance" /\ ChildKilled)
  /\ WF_ivars(focus = "instance" /\ LogSend)
  /\ WF_ivars(focus = "instance" /\ \E ok \in BOOLEAN : DriverReconciles(ok))
  /\ \A which \in {"initial", "respawn"} : WF_ivars(focus = "instance" /\ DeadlinePasses(which))

MCInstanceSpec == MCInstanceInit /\ [][MCInstanceNext]_instanceVars /\ MCInstanceFairness

(* What else holds of the parts: every state has its shape; a cached       *)
(* version is that of the file with the key's modification time; under     *)
(* Force a healthy core is reached at the endpoint the manager chose; the  *)
(* controller that is called is one the process serves; and two epochs run *)
(* side by side only without an inbound or an address in common.           *)
InstanceInv ==
  /\ InstanceTypeOK
  /\ LaunchTypeOK /\ CacheTruthful /\ ForceMeansLocal
  /\ ControllerServed /\ OverlapDisjoint
=============================================================================
