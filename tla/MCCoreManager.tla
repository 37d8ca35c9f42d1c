--------------------------- MODULE MCCoreManager ---------------------------
(***************************************************************************)
(* The manager's transactions, the DNS override they keep and the feed of  *)
(* the status they publish: a behaviour is one of these, and focus says    *)
(* which.  CoreManager knows of the override only whether it is there, and *)
(* of the status only the newest; DnsOverride follows the override to the  *)
(* host and over crashes of the daemon, StatusFeed the status to clients.  *)
(* A property of a part holds here iff it holds of the part.               *)
(***************************************************************************)
EXTENDS CoreManager, DnsOverride, StatusFeed

VARIABLE focus

(* The override when the restore at startup can fail or time out too.      *)
Faulty == INSTANCE DnsOverride WITH BootRestoreMayFail <- TRUE

managerVars == <<focus, mvars, vars, fvars>>

MCManagerInit == focus \in {"manager", "dns", "faulty dns", "feed"} /\ ManagerInit /\ Init /\ FeedInit

OnManager == focus = "manager" /\ ManagerNext /\ UNCHANGED <<focus, vars, fvars>>
OnDns     == focus = "dns" /\ Next /\ UNCHANGED <<focus, mvars, fvars>>

OnFaulty  == focus = "faulty dns" /\ Faulty!Next /\ UNCHANGED <<focus, mvars, fvars>>
OnFeed    == focus = "feed" /\ FeedNext /\ UNCHANGED <<focus, mvars, vars>>

MCManagerNext == OnManager \/ OnDns \/ OnFaulty \/ OnFeed

(* The fairness of FairSpec while DnsOverride has the focus.               *)
MCManagerFairness ==
  /\ WF_vars(focus = "dns" /\ Procedure) /\ WF_vars(focus = "dns" /\ Transaction)
  /\ WF_vars(focus = "dns" /\ Boot)

MCManagerSpec == MCManagerInit /\ [][MCManagerNext]_managerVars /\ MCManagerFairness

(* While the restore at startup works (a failed one leaves what it found), *)
(* a transaction that returns Ok leaves the override on exactly when a     *)
(* protected core runs.                                                    *)
OkConverges == focus = "dns" => OkIsConverged

(* And an override that a crashed daemon left behind does not stay.        *)
OrphanUndone == focus = "dns" => OrphanIsUndone

(* What else holds of the parts: every state has its shape; a relaunch of  *)
(* an epoch never runs next to an earlier process of it; a reconcile that  *)
(* failed or rolled back leaves the plan it found; the legacy stream of an *)
(* idle bridge agrees with the status.                                     *)
ManagerInv ==
  /\ ManagerTypeOK /\ OneProcessPerEpoch /\ CleanAbort
  /\ TypeOK
  /\ FeedTypeOK /\ LegacyCurrent
=============================================================================
