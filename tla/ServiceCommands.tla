-------------------------- MODULE ServiceCommands --------------------------
(***************************************************************************)
(* The command line that installs, starts, stops, updates and removes the  *)
(* service (chimera_service/src/cmds), the operating system's service      *)
(* manager as those commands use it, and the daemon as it sees them: its   *)
(* Windows service host (win_service.rs) or its signal handler (main.rs).  *)
(*                                                                         *)
(* A command is the list of the steps it has left; between two steps it    *)
(* sleeps or waits, and the daemon and the service manager go on.  One     *)
(* command runs at a time; every one may come from another version of the  *)
(* program.                                                                *)
(***************************************************************************)
EXTENDS Integers, Sequences

CONSTANTS
  Platforms,    \* "linux", "windows"
  MaxVersion,   \* bound: versions of the program
  MaxCommands,  \* bound: commands issued
  MaxMishaps    \* bound: crashes and failed copies

ASSUME CommandsAssumption ==
  /\ Platforms \subseteq {"linux", "windows"} /\ Platforms # {}
  /\ MaxVersion \in Nat \ {0} /\ MaxCommands \in Nat /\ MaxMishaps \in Nat

VARIABLES
  platform,   \* where this is
  files,      \* the version of the binary at each place, Missing or Mangled
  svc,        \* the service manager's entry: registered program and state
  host,       \* the daemon process
  cli,        \* the command that runs
  issued,     \* how many so far
  mishaps     \* how many so far

cvars == <<platform, files, svc, host, cli, issued, mishaps>>

Missing == 0
Mangled == -1
Versions == 1 .. MaxVersion
Places == {"usr", "data"}

(* token: SHUTDOWN_TOKEN holds the server's token; shut: the service       *)
(* control handler cancelled its own; closing: the server's was cancelled. *)
NoHost == [pc |-> "none", ver |-> 0, token |-> FALSE, shut |-> FALSE, closing |-> FALSE]
NoCommand == [op |-> "none", todo |-> <<>>, ver |-> 1, plan |-> "none", result |-> "none"]

CommandsInit ==
  /\ platform \in Platforms
  /\ files = [p \in Places |-> Missing]
  /\ svc = [reg |-> "none", state |-> "stopped"]
  /\ host = NoHost
  /\ cli = NoCommand
  /\ issued = 0 /\ mishaps = 0

Mishap == mishaps < MaxMishaps /\ mishaps' = mishaps + 1

(***************************************************************************)
(* The service manager (external) and the daemon                           *)
(***************************************************************************)
(* ServiceManager::status; a pending stop is answered either way.          *)
Statuses ==
  IF svc.reg = "none" THEN {"NotInstalled"}
  ELSE CASE svc.state = "running" -> {"Running"}
         [] svc.state = "stopped" -> {"Stopped"}
         [] OTHER -> {"Running", "Stopped"}

Launches == svc.reg # "none" /\ svc.state = "stopped" /\ files[svc.reg] \in Versions
DaemonLaunched ==
  /\ svc' = [svc EXCEPT !.state = "running"]
  /\ host' = [NoHost EXCEPT !.pc = "up", !.ver = files[svc.reg]]

(* autostart, the restart of a service that failed, or a start asked for   *)
(* with the operating system's own tools.                                 *)
AutoStart ==
  /\ Launches /\ DaemonLaunched
  /\ UNCHANGED <<platform, files, cli, issued, mishaps>>

(* server: the token is published, then server_inner serves ...            *)
PublishToken ==
  /\ host.pc = "up" /\ ~host.token
  /\ host' = [host EXCEPT !.token = TRUE]
  /\ UNCHANGED <<platform, files, svc, cli, issued, mishaps>>

Serve ==
  /\ host.pc = "up" /\ host.token /\ ~host.closing
  /\ host' = [host EXCEPT !.pc = "serving"]
  /\ UNCHANGED <<platform, files, svc, cli, issued, mishaps>>

(* A process that ends takes its entry to stopped.                         *)
Exited == host' = NoHost /\ svc' = [svc EXCEPT !.state = "stopped"]

(* ... until its token is cancelled; under the Windows host only the       *)
(* thread ends here.                                                       *)
ServerEnds ==
  /\ host.pc \in {"up", "serving"} /\ host.closing
  /\ host' = [host EXCEPT !.pc = "ended"]
  /\ UNCHANGED <<platform, files, svc, cli, issued, mishaps>>

(* server_inner fails (a directory, the pid file, the core manager): a     *)
(* plain process exits, the Windows host goes on waiting for a stop.       *)
ServerFails ==
  /\ host.pc \in {"up", "serving"} /\ host.token /\ Mishap
  /\ IF platform = "windows" THEN host' = [host EXCEPT !.pc = "ended"] /\ UNCHANGED svc
     ELSE Exited
  /\ UNCHANGED <<platform, files, cli, issued>>

HostCrashes ==
  /\ host.pc # "none" /\ Mishap /\ Exited
  /\ UNCHANGED <<platform, files, cli, issued>>

(* main: the signal wins the biased select, and the process returns.       *)
SignalHandled ==
  /\ platform = "linux" /\ host.shut /\ Exited
  /\ UNCHANGED <<platform, files, cli, issued, mishaps>>

(* run_service: set_stop_pending, then the server's token, if server() has *)
(* published it by now.                                                    *)
StopPending ==
  /\ platform = "windows" /\ host.shut /\ svc.state = "running"
  /\ svc' = [svc EXCEPT !.state = "stopping"]
  /\ host' = [host EXCEPT !.closing = host.token]
  /\ UNCHANGED <<platform, files, cli, issued, mishaps>>

(* handle.join(), and the guard reports Stopped.                           *)
ServiceStopped ==
  /\ platform = "windows" /\ svc.state = "stopping" /\ host.pc = "ended" /\ Exited
  /\ UNCHANGED <<platform, files, cli, issued, mishaps>>

(***************************************************************************)
(* The commands as lists of steps                                          *)
(***************************************************************************)
(* On Linux the service is installed from /usr/bin, elsewhere from the     *)
(* service's data directory.                                               *)
InstallTarget == IF platform = "linux" THEN "usr" ELSE "data"

(* update: the data directory, on every platform.                          *)
UpdateTarget == "data"

StartSteps == <<"start", "started">>
StopSteps == <<"stop", "stopping", "stopped">>
InstallSteps == <<"absent", "copy", "register">>
UninstallSteps == <<"halt", "unregister">>

(* plan_update: `installed` is what the running service answers, if it     *)
(* does.                                                                   *)
PlanUpdate(exists, source, installed) ==
  IF ~exists THEN "Seed"
  ELSE IF installed = Missing THEN "ReplaceOffline"
  ELSE IF source > installed THEN "StopReplaceStart" ELSE "UpToDate"

UpdateSteps(plan) ==
  CASE plan \in {"Seed", "ReplaceOffline"} -> <<"replace">>
    [] plan = "StopReplaceStart" -> StopSteps \o <<"replace">> \o StartSteps
    [] OTHER -> <<>>

Steps(op) ==
  CASE op = "install" -> InstallSteps
    [] op = "uninstall" -> UninstallSteps
    [] op = "start" -> StartSteps
    [] op = "stop" -> StopSteps
    [] op = "restart" -> <<"restart">>
    [] OTHER -> <<"plan">>

(* process: one command of one version of the program.                     *)
Issue(op, ver) ==
  /\ cli.todo = <<>> /\ issued < MaxCommands
  /\ cli' = [NoCommand EXCEPT !.op = op, !.ver = ver, !.todo = Steps(op)]
  /\ issued' = issued + 1
  /\ UNCHANGED <<platform, files, svc, host, mishaps>>

At(step) == cli.todo # <<>> /\ Head(cli.todo) = step
GoesOn(todo) ==
  cli' = [cli EXCEPT !.todo = todo, !.result = IF todo = <<>> THEN "Ok" ELSE "none"]
Onwards == GoesOn(Tail(cli.todo))
Err == cli' = [cli EXCEPT !.todo = <<>>, !.result = "Err"]
Still == UNCHANGED <<platform, files, svc, host, issued, mishaps>>

(***************************************************************************)
(* The steps                                                               *)
(***************************************************************************)
(* install                                                                 *)
CheckAbsent ==
  /\ At("absent") /\ Still
  /\ IF svc.reg = "none" THEN Onwards ELSE Err

(* std::fs::copy writes in place: an executable that runs cannot be        *)
(* opened for writing, and a copy that fails half way leaves half a file.  *)
InUse(p) == host.pc # "none" /\ svc.reg = p
Copy(p) ==
  /\ IF InUse(p) THEN Err /\ UNCHANGED files
     ELSE Onwards /\ files' = [files EXCEPT ![p] = cli.ver]
  /\ UNCHANGED <<platform, svc, host, issued, mishaps>>
CopyFails(p) ==
  /\ Mishap /\ Err
  /\ files' = IF InUse(p) THEN files ELSE [files EXCEPT ![p] = Mangled]
  /\ UNCHANGED <<platform, svc, host, issued>>

InstallCopy == At("copy") /\ (Copy(InstallTarget) \/ CopyFails(InstallTarget))

(* Group and access list, then the registration, which is confirmed.       *)
Register ==
  /\ At("register")
  /\ \/ svc' = [reg |-> InstallTarget, state |-> "stopped"] /\ Onwards /\ UNCHANGED mishaps
     \/ Mishap /\ Err /\ UNCHANGED svc
  /\ UNCHANGED <<platform, files, host, issued>>

(* uninstall: a running service is asked to stop, for three seconds.       *)
Halt(status) ==
  /\ At("halt") /\ status \in Statuses
  /\ IF status = "NotInstalled" THEN Err ELSE Onwards
  /\ host' = IF status = "Running" THEN [host EXCEPT !.shut = host.pc # "none"] ELSE host
  /\ UNCHANGED <<platform, files, svc, issued, mishaps>>

(* Only an entry whose process is gone disappears at once.                 *)
Unregister ==
  /\ At("unregister")
  /\ IF host.pc = "none" THEN Onwards /\ svc' = [reg |-> "none", state |-> "stopped"]
     ELSE Err /\ UNCHANGED svc
  /\ UNCHANGED <<platform, files, host, issued, mishaps>>

(* start: the request, and a look at the state three seconds later.        *)
StartRequest(status) ==
  /\ At("start") /\ status \in Statuses
  /\ IF status = "Stopped" /\ Launches THEN DaemonLaunched /\ Onwards
     ELSE Err /\ UNCHANGED <<svc, host>>
  /\ UNCHANGED <<platform, files, issued, mishaps>>

StartConfirm(status) ==
  /\ At("started") /\ status \in Statuses /\ Still
  /\ IF status = "Running" THEN Onwards ELSE Err

(* stop: the request ...                                                   *)
StopRequest(status) ==
  /\ At("stop") /\ status \in Statuses
  /\ IF status = "Running" THEN Onwards ELSE Err
  /\ host' = IF status = "Running" THEN [host EXCEPT !.shut = host.pc # "none"] ELSE host
  /\ UNCHANGED <<platform, files, svc, issued, mishaps>>

(* ... which returns once it is accepted (Windows) or done (Linux) ...     *)
StopReturned ==
  /\ At("stopping") /\ (platform = "windows" \/ host.pc = "none")
  /\ Onwards /\ Still

(* ... within eight seconds; otherwise every process under the service's   *)
(* directory is killed.                                                    *)
StopTimesOut ==
  /\ At("stopping") /\ host.pc # "none"
  /\ Exited /\ Onwards
  /\ UNCHANGED <<platform, files, issued, mishaps>>

StopConfirm(status) ==
  /\ At("stopped") /\ status \in Statuses /\ Still
  /\ IF status = "Running" THEN Err ELSE Onwards

Restart(status) ==
  /\ At("restart") /\ status \in Statuses /\ Still
  /\ CASE status = "NotInstalled" -> Err
       [] status = "Stopped" -> GoesOn(StartSteps)
       [] OTHER -> GoesOn(StopSteps \o StartSteps)

(* update: the version comes from the service that answers the status RPC. *)
Plan ==
  /\ At("plan") /\ Still
  /\ LET exists == files[UpdateTarget] # Missing
         answered == IF exists /\ host.pc = "serving" THEN host.ver ELSE Missing
         plan == PlanUpdate(exists, cli.ver, answered) IN
     cli' = [cli EXCEPT !.plan = plan, !.todo = UpdateSteps(plan),
                        !.result = IF UpdateSteps(plan) = <<>> THEN "Ok" ELSE "none"]

Replace == At("replace") /\ (Copy(UpdateTarget) \/ CopyFails(UpdateTarget))

DaemonStep == PublishToken \/ Serve \/ ServerEnds \/ SignalHandled \/ StopPending \/ ServiceStopped

CommandStep ==
  \/ CheckAbsent \/ InstallCopy \/ Register \/ Unregister
  \/ \E s \in {"NotInstalled", "Stopped", "Running"} :
       Halt(s) \/ StartRequest(s) \/ StartConfirm(s) \/ StopRequest(s) \/ StopConfirm(s) \/ Restart(s)
  \/ StopReturned \/ StopTimesOut \/ Plan \/ Replace

CommandsNext ==
  \/ \E op \in {"install", "uninstall", "start", "stop", "restart", "update"}, v \in Versions :
       Issue(op, v)
  \/ CommandStep \/ DaemonStep
  \/ AutoStart \/ ServerFails \/ HostCrashes

CommandsSpec == CommandsInit /\ [][CommandsNext]_cvars

(***************************************************************************)
(* Properties                                                              *)
(***************************************************************************)
(* The state is what the commands and the daemon can make of it.           *)
CommandsTypeOK ==
  /\ files \in [Places -> Versions \union {Missing, Mangled}]
  /\ svc.reg \in {"none", InstallTarget}
  /\ svc.state \in {"stopped", "running", "stopping"} /\ (svc.state # "stopped" => svc.reg # "none")
  /\ host.pc \in {"none", "up", "serving", "ended"}
  /\ host.pc # "none" => host.ver \in Versions
  /\ cli.ver \in Versions /\ cli.result \in {"none", "Ok", "Err"}
  /\ issued \in 0 .. MaxCommands /\ mishaps \in 0 .. MaxMishaps

Updated == cli.op = "update" /\ cli.plan = "StopReplaceStart" /\ cli.result = "Ok"

(* Where the service runs from its data directory: an update that stopped, *)
(* replaced and started it and reported success has left no daemon of an   *)
(* older version running, whatever else started or stopped it meanwhile.   *)
UpdateTakesEffect ==
  Updated /\ platform # "linux" /\ host.pc # "none" => host.ver >= cli.ver

(* The help text of the command, "Update the installed service binary",    *)
(* says it of every platform: the program the service manager runs is the  *)
(* new one.                                                                *)
UpdateReachesService == Updated /\ svc.reg # "none" => files[svc.reg] >= cli.ver

=============================================================================
