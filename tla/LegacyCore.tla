----------------------------- MODULE LegacyCore -----------------------------
(***************************************************************************)
(* CoreInstance of chimera-utils (core/instance.rs): the older way to run  *)
(* a core, kept as a library.  A run leaves three threads behind, the      *)
(* waiter, the check point after 1.5 seconds and the pipe readers; they    *)
(* write the shared state of the instance long after the run returned.     *)
(*                                                                         *)
(* One caller at a time uses the instance; the pipe readers and what the   *)
(* core prints are left out, the channel is drained or closed.             *)
(***************************************************************************)
EXTENDS Naturals, FiniteSets

CONSTANTS
  MaxKids,       \* bound: processes started
  MaxPolls,      \* try_wait attempts after a signal (20 and 30 in the code)
  MaxLegacyFaults \* bound: failing system calls

ASSUME LegacyAssumption ==
  MaxKids \in Nat \ {0} /\ MaxPolls \in Nat \ {0} /\ MaxLegacyFaults \in Nat

VARIABLES
  kids,       \* the processes: none, alive, stubborn (ignores SIGTERM), dead
  doomed,     \* those sent a signal they cannot ignore
  asked,      \* those sent SIGTERM
  shared,     \* the instance's state and the child it holds (0: None)
  pidFile,    \* the child the pid file names, 0 if there is none
  waiter,     \* the waiting thread of every child
  checker,    \* the check-point thread of every child
  user,       \* the call in progress
  lost,       \* the children whose pid was not written
  legacyFaults

yvars == <<kids, doomed, asked, shared, pidFile, waiter, checker, user, lost, legacyFaults>>

Kids == 1 .. MaxKids
Lives(k) == kids[k] \in {"alive", "stubborn"}
NoCall == [op |-> "none", pc |-> "idle", kid |-> 0, polls |-> 0, result |-> "none"]

LegacyInit ==
  /\ kids = [k \in Kids |-> "none"] /\ doomed = {} /\ asked = {}
  /\ shared = [state |-> "Stopped", held |-> 0, dropped |-> FALSE]
  /\ pidFile = 0
  /\ waiter = [k \in Kids |-> "none"] /\ checker = [k \in Kids |-> "none"]
  /\ user = NoCall /\ lost = {} /\ legacyFaults = 0

LegacyFault == legacyFaults < MaxLegacyFaults /\ legacyFaults' = legacyFaults + 1
Calls(pc) == user' = [user EXCEPT !.pc = pc, !.polls = 0]
Returns(result) == user' = [user EXCEPT !.pc = "idle", !.result = result]
At(pc) == user.pc = pc

(***************************************************************************)
(* The process                                                             *)
(***************************************************************************)
KidExits(k) ==
  /\ Lives(k) /\ kids' = [kids EXCEPT ![k] = "dead"]
  /\ UNCHANGED <<doomed, asked, shared, pidFile, waiter, checker, user, lost, legacyFaults>>

(* What a signal does: the process dies sooner or later.                   *)
KidDies(k) ==
  (k \in doomed \/ (k \in asked /\ kids[k] = "alive")) /\ KidExits(k)

(***************************************************************************)
(* run                                                                     *)
(***************************************************************************)
RunCheck ==
  /\ At("idle") /\ ~shared.dropped /\ kids[MaxKids] = "none"
  /\ user' = [NoCall EXCEPT !.op = "run",
                !.pc = IF shared.state = "Running" THEN "idle" ELSE "reap",
                !.result = IF shared.state = "Running" THEN "Err" ELSE "none"]
  /\ UNCHANGED <<kids, doomed, asked, shared, pidFile, waiter, checker, lost, legacyFaults>>

(* kill_by_pid_file: the tree the file names is killed, not waited for,    *)
(* and the file goes.                                                      *)
RunReap ==
  /\ At("reap") /\ Calls("spawn")
  /\ doomed' = IF pidFile # 0 /\ Lives(pidFile) THEN doomed \union {pidFile} ELSE doomed
  /\ pidFile' = 0
  /\ UNCHANGED <<kids, asked, shared, waiter, checker, lost, legacyFaults>>

(* The child and its threads; or the spawn fails.                          *)
RunSpawn(mood) ==
  /\ At("spawn")
  /\ LET k == CHOOSE x \in Kids : kids[x] = "none" /\ \A y \in 1 .. x - 1 : kids[y] # "none" IN
     /\ kids' = [kids EXCEPT ![k] = mood]
     /\ waiter' = [waiter EXCEPT ![k] = "waiting"]
     /\ checker' = [checker EXCEPT ![k] = "sleeping"]
     /\ user' = [user EXCEPT !.pc = "record", !.kid = k]
  /\ UNCHANGED <<doomed, asked, shared, pidFile, lost, legacyFaults>>

RunSpawnFails ==
  /\ At("spawn") /\ LegacyFault /\ Returns("Err")
  /\ UNCHANGED <<kids, doomed, asked, shared, pidFile, waiter, checker, lost>>

(* A pid file that cannot be written is only logged.                       *)
RunRecord ==
  /\ At("record") /\ Calls("hold")
  /\ \/ pidFile' = user.kid /\ UNCHANGED <<lost, legacyFaults>>
     \/ LegacyFault /\ lost' = lost \union {user.kid} /\ UNCHANGED pidFile
  /\ UNCHANGED <<kids, doomed, asked, shared, waiter, checker>>

RunHold ==
  /\ At("hold") /\ Returns("Ok")
  /\ shared' = [shared EXCEPT !.held = user.kid]
  /\ UNCHANGED <<kids, doomed, asked, pidFile, waiter, checker, lost, legacyFaults>>

(***************************************************************************)
(* The threads of a run                                                    *)
(***************************************************************************)
WaiterWakes(k) ==
  /\ waiter[k] = "waiting" /\ kids[k] = "dead"
  /\ waiter' = [waiter EXCEPT ![k] = "reports"]
  /\ shared' = [shared EXCEPT !.state = "Stopped"]
  /\ UNCHANGED <<kids, doomed, asked, pidFile, checker, user, lost, legacyFaults>>

WaiterReports(k) ==
  /\ waiter[k] = "reports" /\ waiter' = [waiter EXCEPT ![k] = "done"]
  /\ UNCHANGED <<kids, doomed, asked, shared, pidFile, checker, user, lost, legacyFaults>>

(* try_wait, and only later the state: it may be the state of a child that *)
(* died, or was replaced, in between.                                      *)
CheckerLooks(k) ==
  /\ checker[k] = "sleeping"
  /\ checker' = [checker EXCEPT ![k] = IF Lives(k) THEN "passes" ELSE "done"]
  /\ UNCHANGED <<kids, doomed, asked, shared, pidFile, waiter, user, lost, legacyFaults>>

CheckerPasses(k) ==
  /\ checker[k] = "passes" /\ checker' = [checker EXCEPT ![k] = "done"]
  /\ shared' = [shared EXCEPT !.state = "Running"]
  /\ UNCHANGED <<kids, doomed, asked, pidFile, waiter, user, lost, legacyFaults>>

(***************************************************************************)
(* kill                                                                    *)
(***************************************************************************)
KillTake ==
  /\ At("idle") /\ ~shared.dropped
  /\ user' = [NoCall EXCEPT !.op = "kill", !.kid = shared.held,
                !.pc = IF shared.held = 0 THEN "idle" ELSE "ask",
                !.result = IF shared.held = 0 THEN "Err" ELSE "none"]
  /\ UNCHANGED <<kids, doomed, asked, shared, pidFile, waiter, checker, lost, legacyFaults>>

(* gracefully_kill; an error goes straight to the hard kill.               *)
KillAsk ==
  /\ At("ask")
  /\ \/ Calls("graceful") /\ asked' = asked \union {user.kid} /\ UNCHANGED legacyFaults
     \/ Calls("force") /\ LegacyFault /\ UNCHANGED asked
  /\ UNCHANGED <<kids, doomed, shared, pidFile, waiter, checker, lost>>

KillPoll ==
  /\ At("graceful")
  /\ CASE ~Lives(user.kid) -> Calls("forget")
       [] Lives(user.kid) /\ user.polls + 1 < MaxPolls -> user' = [user EXCEPT !.polls = @ + 1]
       [] OTHER -> Calls("force")
  /\ UNCHANGED <<kids, doomed, asked, shared, pidFile, waiter, checker, lost, legacyFaults>>

KillForce ==
  /\ At("force")
  /\ \/ Calls("forced") /\ UNCHANGED legacyFaults
        /\ doomed' = IF Lives(user.kid) THEN doomed \union {user.kid} ELSE doomed
     \/ Returns("Err") /\ LegacyFault /\ UNCHANGED doomed
  /\ UNCHANGED <<kids, asked, shared, pidFile, waiter, checker, lost>>

KillForcePoll ==
  /\ At("forced")
  /\ CASE ~Lives(user.kid) -> Calls("forget")
       [] Lives(user.kid) /\ user.polls + 1 < MaxPolls -> user' = [user EXCEPT !.polls = @ + 1]
       [] OTHER -> Returns("Err")
  /\ UNCHANGED <<kids, doomed, asked, shared, pidFile, waiter, checker, lost, legacyFaults>>

(* The holder is emptied, then the state is written.                       *)
KillForget ==
  /\ At("forget") /\ Returns("Ok")
  /\ shared' = [shared EXCEPT !.held = 0, !.state = "Stopped"]
  /\ UNCHANGED <<kids, doomed, asked, pidFile, waiter, checker, lost, legacyFaults>>

(* Drop: the child that is held is killed with the instance.               *)
DropInstance ==
  /\ At("idle") /\ ~shared.dropped
  /\ doomed' = IF shared.held # 0 /\ Lives(shared.held) THEN doomed \union {shared.held} ELSE doomed
  /\ shared' = [shared EXCEPT !.held = 0, !.dropped = TRUE]
  /\ UNCHANGED <<kids, asked, pidFile, waiter, checker, user, lost, legacyFaults>>

UserStep ==
  \/ RunReap \/ RunSpawnFails \/ RunRecord \/ RunHold
  \/ \E mood \in {"alive", "stubborn"} : RunSpawn(mood)
  \/ KillAsk \/ KillPoll \/ KillForce \/ KillForcePoll \/ KillForget

Thread(k) == WaiterWakes(k) \/ WaiterReports(k) \/ CheckerLooks(k) \/ CheckerPasses(k)

LegacyNext ==
  \/ RunCheck \/ KillTake \/ DropInstance \/ UserStep
  \/ \E k \in Kids : KidExits(k) \/ Thread(k)

LegacySpec == LegacyInit /\ [][LegacyNext]_yvars

(***************************************************************************)
(* Properties                                                              *)
(***************************************************************************)
(* The state is what the types of instance.rs say.                         *)
LegacyTypeOK ==
  /\ kids \in [Kids -> {"none", "alive", "stubborn", "dead"}]
  /\ doomed \subseteq Kids /\ asked \subseteq Kids /\ lost \subseteq Kids
  /\ shared.state \in {"Stopped", "Running"} /\ shared.held \in 0 .. MaxKids
  /\ pidFile \in 0 .. MaxKids
  /\ user.polls \in 0 .. MaxPolls - 1 /\ legacyFaults \in 0 .. MaxLegacyFaults

(* A kill that succeeded has seen the very child it took die, whatever the *)
(* signals did and however many of them it needed.                         *)
LegacyKillProven == user.op = "kill" /\ user.result = "Ok" => ~Lives(user.kid)

(* A second run within the first 1.5 seconds is not refused; still at most *)
(* one child lives that is neither condemned nor without a pid file.       *)
LegacyOneChild == Cardinality({k \in Kids : Lives(k) /\ k \notin doomed \union lost}) <= 1

=============================================================================
