------------------------------ MODULE CoreLaunch ------------------------------
(***************************************************************************)
(* How a core is launched and how its controller becomes usable.  Three    *)
(* pieces of code meet here without a common lock:                         *)
(*  - capability.rs asks the binary on disk for its version, caches the    *)
(*    answer under the file's modification time, and turns it with the     *)
(*    local IPC policy into what the epoch's plan enables;                 *)
(*  - runtime/process.rs and build_command turn the plan into a command,   *)
(*    with or without the descriptor the core must put on its pipe; the    *)
(*    supervisor runs that command again after every death, whatever file  *)
(*    is on disk by then;                                                  *)
(*  - controller_access.rs sets, or verifies, the permissions of the       *)
(*    endpoint in front of every readiness and liveness probe.             *)
(*                                                                         *)
(* Versions are ranks against the two feature floors of feature/clash.rs:  *)
(* Below both, between UnixFloor and PipeFloor, from PipeFloor on.  The    *)
(* manager's callers hold its control lock, so one resolution runs at a    *)
(* time; the disk, the core and the probe task do not wait for it.         *)
(***************************************************************************)
EXTENDS Naturals, Sequences, FiniteSets

CONSTANTS
    LaunchKinds,   \* the core kinds that are launched
    BuildVersions, \* the versions the files at the path have
    MaxBuilds,     \* files put at the core's path, the first one included
    MaxPlans,      \* resolutions (launches attempted by the manager)
    MaxPids        \* processes spawned

ASSUME LaunchAssumption ==
    BuildVersions \subseteq 1 .. 5 /\ MaxBuilds \in Nat \ {0} /\ MaxPlans \in Nat /\ MaxPids \in Nat

VARIABLES
    target,     \* the CoreSpec and the host: kind, declared version, policy, os, access
    builds,     \* builds[m]: the file whose modification time is m, newest at the path
    entries,    \* VersionCache: the entry of this path, or NoEntry
    resolver,   \* the resolution in progress
    plan,       \* the plan of the epoch, NoPlan while there is none
    proc,       \* the core process the supervisor runs, NoProcess between two
    endpoint,   \* the pipe or socket at the plan's path
    attempt,    \* the probe attempt in progress
    healthy,    \* the process the last accepted observation calls healthy
    planned, pids

lvars == <<target, builds, entries, resolver, plan, proc, endpoint, attempt, healthy,
           planned, pids>>

UnixFloor == 2
PipeFloor == 3
Releases == 1 .. 3
Nightly == 4
Unknown == 5
Unresolved == 0
Features == {"NamedPipeIpc", "UnixSocketIpc", "NamedPipeSecurityDescriptor"}
NoEntry == [modified |-> 0, version |-> Unresolved]
NoPlan == [up |-> FALSE, local |-> FALSE, descriptor |-> FALSE]
NoProcess == [pid |-> 0, build |-> 0]
NoEndpoint == [owner |-> 0, wanted |-> FALSE]
NoAttempt == [pc |-> "idle", pid |-> 0, phase |-> "Readiness"]
NoResolution == [pc |-> "idle", key |-> 0, version |-> Unresolved, local |-> FALSE]

-----------------------------------------------------------------------------
(* chimera-core-metadata: which kind speaks what, from which release on.   *)

Since(floor, version) ==
    CASE version = Unresolved -> "Since"
      [] version = Nightly -> "Yes"
      [] version = Unknown -> "No"
      [] version \in Releases -> IF version >= floor THEN "Yes" ELSE "No"

Supports(kind, feature, version) ==
    CASE kind = "Mihomo" ->
            Since(IF feature = "UnixSocketIpc" THEN UnixFloor ELSE PipeFloor, version)
      [] kind \in {"ClashRust", "ChimeraClient"} ->
            IF feature = "NamedPipeSecurityDescriptor" THEN "No"
            ELSE Since(IF feature = "UnixSocketIpc" THEN UnixFloor ELSE PipeFloor, version)
      [] kind \in {"ClashPremium", "Meow"} -> "No"

FeaturesOf(kind, version) == {f \in Features : Supports(kind, f, version) = "Yes"}
PotentialFeatures(kind) == {f \in Features : Supports(kind, f, Unresolved) # "No"}

LocalTransport == IF target.os = "windows" THEN "NamedPipeIpc" ELSE "UnixSocketIpc"

(* What a file at the path really does on this host (external): a release  *)
(* does what the floors say, any other build has some of the features.     *)
OnHost == {LocalTransport} \union
          (IF target.os = "windows" THEN {"NamedPipeSecurityDescriptor"} ELSE {})
Abilities(version) ==
    IF version \in Releases THEN {OnHost \intersect FeaturesOf(target.kind, version)}
    ELSE SUBSET (OnHost \intersect FeaturesOf(target.kind, Nightly))
Built == {b \in [version: BuildVersions, can: SUBSET OnHost] : b.can \in Abilities(b.version)}

LaunchInit ==
    /\ target \in [kind: LaunchKinds, declared: {Unresolved, PipeFloor}, policy: {"Force", "Prefer", "Disable"},
                   os: {"windows", "unix"}, access: {"host", "unavailable"}]
    /\ target.access = "unavailable" => target.os = "unix" \* controller_access_for_host
    /\ \E b \in Built : builds = <<b>>
    /\ entries = NoEntry /\ resolver = NoResolution /\ plan = NoPlan /\ proc = NoProcess
    /\ endpoint = NoEndpoint /\ attempt = NoAttempt /\ healthy = 0
    /\ planned = 0 /\ pids = 0

Modified == Len(builds)
Present == builds[Modified]
-----------------------------------------------------------------------------
(* capability.rs and CoreManager::resolve_features.                        *)

Available == target.access = "host"
Steps(pc) == resolver' = [resolver EXCEPT !.pc = pc]
Rest == <<target, builds, plan, proc, endpoint, attempt, healthy, planned, pids>>

(* The declared version is taken as it is; a kind that supports nothing at *)
(* any version is not asked; the file is looked at before the cache.       *)
Resolve ==
    /\ resolver.pc = "idle" /\ planned < MaxPlans /\ planned' = planned + 1
    /\ \/ ~Available /\ target.policy = "Force" /\ UNCHANGED resolver
       \/ /\ Available \/ target.policy # "Force"
          /\ resolver' = IF PotentialFeatures(target.kind) = {} \/ target.declared # Unresolved
                         THEN [NoResolution EXCEPT !.pc = "known", !.version = target.declared]
                         ELSE [NoResolution EXCEPT !.pc = "keyed", !.key = Modified]
    /\ UNCHANGED <<target, builds, entries, plan, proc, endpoint, attempt, healthy, pids>>

LookUp ==
    /\ resolver.pc = "keyed"
    /\ resolver' = IF entries.modified = resolver.key
                   THEN [resolver EXCEPT !.pc = "known", !.version = entries.version]
                   ELSE [resolver EXCEPT !.pc = "probing"]
    /\ UNCHANGED <<entries, Rest>>

(* `-v` runs whatever file is at the path now, or fails.                   *)
ProbeVersion(ok) ==
    /\ resolver.pc = "probing"
    /\ resolver' = IF ok THEN [resolver EXCEPT !.pc = "probed", !.version = Present.version]
                   ELSE NoResolution
    /\ UNCHANGED <<entries, Rest>>

RememberUnchecked ==
    /\ resolver.pc = "probed"
    /\ entries' = [modified |-> resolver.key, version |-> resolver.version]
    /\ Steps("known")
    /\ UNCHANGED Rest

(* The answer is kept only for the file it was asked of.                   *)
Remember ==
    /\ resolver.pc = "probed"
    /\ IF Modified # resolver.key THEN resolver' = NoResolution /\ UNCHANGED entries
       ELSE /\ entries' = [modified |-> resolver.key, version |-> resolver.version]
            /\ Steps("known")
    /\ UNCHANGED Rest

Capabilities ==
    IF PotentialFeatures(target.kind) = {} THEN {} ELSE FeaturesOf(target.kind, resolver.version)
Policy == IF Available THEN target.policy ELSE "Disable"

ResolveRuntime ==
    LET supported == LocalTransport \in Capabilities
    IN  CASE Policy = "Force" /\ ~supported -> "RequiredLocalIpcUnsupported"
          [] Policy \in {"Force", "Prefer"} /\ supported -> "LocalIpc"
          [] (Policy = "Prefer" /\ ~supported) \/ Policy = "Disable" -> "http"

(* The features are decided before anything of the running epoch changes.  *)
Decide ==
    /\ resolver.pc = "known"
    /\ resolver' = IF ResolveRuntime = "RequiredLocalIpcUnsupported" THEN NoResolution
                   ELSE [resolver EXCEPT !.pc = "decided", !.local = ResolveRuntime = "LocalIpc"]
    /\ UNCHANGED <<entries, Rest>>

-----------------------------------------------------------------------------
(* ProcessRuntimeBackend::launch, build_command and the supervisor's       *)
(* respawns.  Only a host with a descriptor of its own (Windows) gives one.*)

Descriptor ==
    /\ target.os = "windows" /\ resolver.local
    /\ "NamedPipeSecurityDescriptor" \in Capabilities
Mode == IF plan.descriptor THEN "Core" ELSE "Host"

Launch ==
    /\ resolver.pc = "decided" /\ ~plan.up
    /\ plan' = [up |-> TRUE, local |-> resolver.local, descriptor |-> Descriptor]
    /\ resolver' = NoResolution
    /\ UNCHANGED <<target, builds, entries, proc, endpoint, attempt, healthy, planned, pids>>

(* A hard switch or a stop retires the epoch and sweeps its endpoint.      *)
Retire ==
    /\ plan.up /\ resolver.pc \in {"idle", "decided"}
    /\ plan' = NoPlan /\ proc' = NoProcess /\ endpoint' = NoEndpoint
    /\ attempt' = NoAttempt /\ healthy' = 0
    /\ UNCHANGED <<target, builds, entries, resolver, planned, pids>>

(* The command names the path: the file there now is what runs.            *)
SpawnCore ==
    /\ plan.up /\ proc = NoProcess /\ pids < MaxPids
    /\ pids' = pids + 1
    /\ proc' = [pid |-> pids + 1, build |-> Modified]
    /\ UNCHANGED <<target, builds, entries, resolver, plan, endpoint, attempt, healthy, planned>>

(* The core opens its endpoint if its build can (external); it honours the *)
(* descriptor it was given if its build can, and replaces a stale socket.  *)
CoreBinds ==
    /\ proc # NoProcess /\ plan.local /\ endpoint.owner # proc.pid
    /\ LocalTransport \in builds[proc.build].can
    /\ endpoint' = [owner |-> proc.pid,
                    wanted |-> plan.descriptor /\
                               "NamedPipeSecurityDescriptor" \in builds[proc.build].can]
    /\ UNCHANGED <<target, builds, entries, resolver, plan, proc, attempt, healthy, planned, pids>>

(* A pipe goes with its process, a socket file stays behind.               *)
CoreDies ==
    /\ proc # NoProcess
    /\ proc' = NoProcess
    /\ endpoint' = IF target.os = "windows" THEN NoEndpoint ELSE endpoint
    /\ UNCHANGED <<target, builds, entries, resolver, plan, attempt, healthy, planned, pids>>

(* An update puts another file at the path (external): a newer time stamp. *)
ReplaceBinary(b) ==
    /\ Modified < MaxBuilds
    /\ builds' = Append(builds, b)
    /\ UNCHANGED <<target, entries, resolver, plan, proc, endpoint, attempt, healthy, planned, pids>>

-----------------------------------------------------------------------------
(* AuthorizedProbe: both probes authorize the endpoint first.              *)

Probing == <<target, builds, entries, resolver, plan, proc, planned, pids>>
Observes(yes) ==
    /\ healthy' = IF proc.pid # attempt.pid THEN healthy ELSE IF yes THEN attempt.pid ELSE 0
    /\ attempt' = NoAttempt
Exists == endpoint # NoEndpoint
Listening == proc # NoProcess /\ (plan.local => endpoint.owner = proc.pid)

Wrapped(phase) == plan.local /\ phase \in {"Readiness", "Liveness"}

Attempt ==
    /\ attempt.pc = "idle" /\ proc # NoProcess
    /\ LET phase == IF healthy = proc.pid THEN "Liveness" ELSE "Readiness"
       IN  attempt' = [pc |-> IF Wrapped(phase) THEN "authorize" ELSE "inner",
                       pid |-> proc.pid, phase |-> phase]
    /\ UNCHANGED <<Probing, endpoint, healthy>>

AuthorizePipeTrusting ==
    /\ attempt.pc = "authorize" /\ target.os = "windows"
    /\ IF ~Exists \/ endpoint.owner # attempt.pid THEN Observes(FALSE) /\ UNCHANGED endpoint
       ELSE /\ endpoint' = [endpoint EXCEPT !.wanted = @ \/ Mode = "Host"]
            /\ attempt' = [attempt EXCEPT !.pc = "inner"]
            /\ UNCHANGED healthy
    /\ UNCHANGED Probing

(* The entries of the pipe's access list are those of the service's policy.*)
HasServiceRights == endpoint.wanted

(* One handle is opened, its owner compared, its list of rights compared,  *)
(* set when the host may set it, and compared again.                       *)
AuthorizePipe ==
    /\ attempt.pc = "authorize" /\ target.os = "windows"
    /\ IF \/ ~Exists \/ endpoint.owner # attempt.pid
          \/ ~HasServiceRights /\ Mode = "Core"
       THEN Observes(FALSE) /\ UNCHANGED endpoint
       ELSE /\ endpoint' = [endpoint EXCEPT !.wanted = TRUE]
            /\ attempt' = [attempt EXCEPT !.pc = "inner"]
            /\ UNCHANGED healthy
    /\ UNCHANGED Probing

(* The socket is looked at and changed through its path, whoever owns it.  *)
LookAtSocket ==
    /\ attempt.pc = "authorize" /\ target.os = "unix"
    /\ IF Exists THEN attempt' = [attempt EXCEPT !.pc = "chmod"] /\ UNCHANGED healthy
       ELSE Observes(FALSE)
    /\ UNCHANGED <<Probing, endpoint>>

ChangeSocket ==
    /\ attempt.pc = "chmod"
    /\ endpoint' = [endpoint EXCEPT !.wanted = TRUE]
    /\ attempt' = [attempt EXCEPT !.pc = "inner"]
    /\ UNCHANGED <<Probing, healthy>>

(* Readiness asks the controller for its version; liveness answers Healthy *)
(* unless a probe of its own was configured.                               *)
CheckInner ==
    /\ attempt.pc = "inner"
    /\ Observes(attempt.phase = "Liveness" \/ Listening)
    /\ UNCHANGED <<Probing, endpoint>>

(* The monitor drops the attempt of a process whose exit it has seen.      *)
AttemptDropped ==
    /\ attempt.pc # "idle" /\ proc.pid # attempt.pid
    /\ attempt' = NoAttempt
    /\ UNCHANGED <<Probing, endpoint, healthy>>

DriverStep == Attempt \/ AuthorizePipe \/ LookAtSocket \/ ChangeSocket \/ CheckInner

LaunchNext ==
    \/ Resolve \/ LookUp \/ Remember \/ Decide
    \/ \E ok \in BOOLEAN : ProbeVersion(ok)
    \/ Launch \/ Retire \/ SpawnCore \/ CoreBinds \/ CoreDies
    \/ \E b \in Built : ReplaceBinary(b)
    \/ DriverStep \/ AttemptDropped

LaunchSpec == LaunchInit /\ [][LaunchNext]_lvars

-----------------------------------------------------------------------------
(* The launch state is well formed; in particular only a pipe is given a   *)
(* descriptor to be created with (ProcessRuntimeBackend::launch).          *)
LaunchTypeOK ==
    /\ Modified \in 1 .. MaxBuilds
    /\ resolver.pc \in {"idle", "keyed", "probing", "probed", "known", "decided"}
    /\ plan \in [up: BOOLEAN, local: BOOLEAN, descriptor: BOOLEAN]
    /\ plan.descriptor => plan.local /\ target.os = "windows"
    /\ proc.pid \in 0 .. MaxPids /\ proc.build \in 0 .. Modified
    /\ endpoint \in [owner: 0 .. MaxPids, wanted: BOOLEAN]
    /\ attempt.pc \in {"idle", "authorize", "chmod", "inner"}
    /\ healthy \in 0 .. MaxPids

(* VersionCache::resolve: a cached version is the version of the file that *)
(* had the key's modification time, even when the file was replaced while  *)
(* `-v` was running.                                                       *)
CacheTruthful ==
    entries # NoEntry => builds[entries.modified].version = entries.version

(* PipeSecurity::authorize and AuthorizedProbe: a core is called healthy   *)
(* over a named pipe only while the pipe is its own and has the service's  *)
(* rights, although the file at the path may have been replaced since its  *)
(* capabilities were resolved.                                             *)
HealthyIsAuthorized ==
    (target.os = "windows" /\ plan.local /\ proc.pid # 0 /\ healthy = proc.pid) =>
        endpoint = [owner |-> proc.pid, wanted |-> TRUE]

(* resolve_runtime and the probes: under Force a healthy core is reached   *)
(* through the endpoint the manager chose, never through a fallback.       *)
ForceMeansLocal ==
    (target.policy = "Force" /\ proc.pid # 0 /\ healthy = proc.pid) =>
        endpoint.owner = proc.pid

===============================================================================
