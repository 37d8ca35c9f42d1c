------------------------------ MODULE PidFile -------------------------------
(***************************************************************************)
(* The pid record of one epoch (chimera-utils/src/process/pid_file.rs):    *)
(* written for a spawned core, removed when it ended, and used by a later  *)
(* daemon (or by a stop that could not confirm a death) to find and kill   *)
(* what is left.  Numeric pids are reused by the host between any two      *)
(* calls; a process is identified by its start token and executable.       *)
(*                                                                         *)
(* The recorded core is `root`, with one `child`.  `alien` is a process of *)
(* somebody else that may take a pid either of them has left; it may have  *)
(* a child of its own, `kin`.                                              *)
(***************************************************************************)
EXTENDS Naturals, FiniteSets

CONSTANTS
  KillModes,     \* subset of {"handle", "pid"}: how the host signals a process
  MaxTries       \* bound: IDENTITY_WAIT_ATTEMPTS and KILL_WAIT_ATTEMPTS

ASSUME PidAssumption == MaxTries \in Nat \ {0} /\ KillModes \subseteq {"handle", "pid"}

VARIABLES
  at,        \* process behind every pid, or Free
  started,   \* processes that exist or have existed
  signalled, \* processes sent SIGKILL
  hidden,    \* processes whose executable this daemon cannot read
  file,      \* core-N.pid
  guard,     \* the PidFileGuard of the daemon that spawned the core
  rp         \* the reaper

pvars == <<at, started, signalled, hidden, file, guard, rp>>

Free == "free"
Procs == {"root", "child", "alien", "kin"}
Pids == {1, 2, 3}
RootPid == 1
IsAlive(p) == \E n \in Pids : at[n] = p

Parent(p) == IF p = "child" THEN "root" ELSE "alien"

(* descendant_pids: processes whose parent is the process now at the pid;  *)
(* an orphan is reparented.                                                *)
Descendants == {n \in Pids : at[n] \in {"child", "kin"} /\ at[RootPid] = Parent(at[n])}

NoReap == [pc |-> "idle", mode |-> "handle", target |-> RootPid, token |-> "root", first |-> {},
           queue |-> {}, tries |-> 0, fd |-> Free, killError |-> FALSE, root |-> "none",
           killed |-> FALSE, failed |-> FALSE, result |-> "none"]

PidInit ==
  /\ at = [n \in Pids |-> Free] /\ started = {} /\ signalled = {}
  /\ hidden = {}
  /\ file = "none" /\ guard = "idle"
  /\ rp = NoReap

(***************************************************************************)
(* The host                                                                *)
(***************************************************************************)
Start(p, n) ==
  /\ p \notin started /\ at[n] = Free
  /\ started' = started \union {p}
  /\ at' = [at EXCEPT ![n] = p]

ChildStarts ==
  /\ at[RootPid] = "root" /\ \E n \in Pids : Start("child", n)
  /\ UNCHANGED <<signalled, hidden, file, guard, rp>>

(* Pids wrap around: one that was used is given to another process.        *)
PidReused ==
  /\ "root" \in started /\ \E n \in {1, 2} : Start("alien", n)
  /\ UNCHANGED <<signalled, hidden, file, guard, rp>>

KinStarts ==
  /\ at[RootPid] = "alien" /\ \E n \in Pids : Start("kin", n)
  /\ UNCHANGED <<signalled, hidden, file, guard, rp>>

(* A process ends by itself or by the signal it was sent; one stuck in the *)
(* kernel may take for ever.                                               *)
Exits(n) ==
  /\ at[n] # Free
  /\ at' = [at EXCEPT ![n] = Free]
  /\ UNCHANGED <<started, signalled, hidden, file, guard, rp>>

(* A process of another uid, a binary whose path cannot be read or does not *)
(* match any more, a record with the coarse start token of older versions  *)
(* on macOS: its identity stays uncertain.                                 *)
Hides(p) ==
  /\ IsAlive(p) /\ p \notin hidden /\ rp.pc = "idle" /\ p \in {"root", "child"}
  /\ hidden' = hidden \union {p}
  /\ UNCHANGED <<at, started, signalled, file, guard, rp>>

(***************************************************************************)
(* Identity                                                                *)
(***************************************************************************)
(* process_identity: what a query of the pid answers.  The start token is  *)
(* read before and after the executable, so both are of one process; the   *)
(* query may be refused or fail, and the executable of a process that is   *)
(* dying may be gone before it is.                                         *)
ProcessIdentity(n) ==
  IF at[n] = Free THEN {[answer |-> "none"]}
  ELSE {[answer |-> "denied"], [answer |-> "error"]} \union
       {[answer |-> "identity", token |-> at[n], executable |-> e] :
          e \in IF at[n] \in hidden THEN {FALSE} ELSE {TRUE, at[n] \notin signalled}}

(* compare_identity: another start token is another process, whatever its  *)
(* executable; the same one with another executable proves nothing.        *)
CompareIdentity(token, identity) ==
  IF identity.token # token THEN "reused"
  ELSE IF identity.executable THEN "same" ELSE "uncertain"

Seen(n, token) ==
  {IF i.answer = "identity" THEN CompareIdentity(token, i) ELSE i.answer : i \in ProcessIdentity(n)}

(* attributable_identity: the processes of a snapshot that could be read.  *)
Captures(pids) == {[pid |-> n, token |-> at[n]] : n \in {m \in pids : at[m] \notin hidden}}

(***************************************************************************)
(* PidFileGuard                                                            *)
(***************************************************************************)
SpawnRoot ==
  /\ guard = "idle" /\ file = "none" /\ rp.pc = "idle"
  /\ Start("root", RootPid)
  /\ guard' = "spawned"
  /\ UNCHANGED <<signalled, hidden, file, rp>>

(* write_epoch_record: staged beside its place, synced, and moved there by *)
(* one step that fails if something is there already.                      *)
PublishRecord == file = "none" /\ file' = "record"

(* write: the identity is awaited, its executable must be the expected     *)
(* one, and the record is published by one atomic move.                    *)
Write ==
  /\ guard = "spawned" /\ "same" \in Seen(RootPid, "root")
  /\ PublishRecord /\ guard' = "recorded"
  /\ UNCHANGED <<at, started, signalled, hidden, rp>>

(* The identity was not readable in time, or the file could not be         *)
(* written: the engine kills the group and reports the failure.            *)
WriteFails ==
  /\ guard = "spawned"
  /\ guard' = "closed"
  /\ signalled' = signalled \union ({"root"} \intersect {at[RootPid]})
  /\ UNCHANGED <<at, started, hidden, file, rp>>

(* cleanup: after the child was waited for, its own record goes.           *)
GuardCleanup ==
  /\ guard = "recorded" /\ ~IsAlive("root")
  /\ file' = "none" /\ guard' = "closed"
  /\ UNCHANGED <<at, started, signalled, hidden, rp>>

(* The daemon dies, at any point; what it leaves is on disk.               *)
GuardLost ==
  /\ guard \in {"spawned", "recorded"} /\ rp.pc = "idle"
  /\ guard' = IF guard = "recorded" THEN "lost" ELSE "closed"
  /\ UNCHANGED <<at, started, signalled, hidden, file, rp>>

(***************************************************************************)
(* reap_epoch_pid_file                                                     *)
(***************************************************************************)
Reaping(r) == rp' = r /\ UNCHANGED <<at, started, hidden, guard>>
Quiet == UNCHANGED <<signalled, file>>
ReapReturns(result) == [rp EXCEPT !.pc = "done", !.result = result]

(* The file is read; it may belong to a live guard, whose stop could not   *)
(* confirm the death, or to a daemon that died.                            *)
ReapStart(mode) ==
  /\ rp.pc = "idle" /\ guard \in {"recorded", "lost", "closed"}
  /\ Reaping(IF file = "none" THEN [NoReap EXCEPT !.pc = "done", !.result = "NotFound"]
             ELSE [NoReap EXCEPT !.pc = "check", !.mode = mode])
  /\ Quiet

(* The names, directories and fields are validated before anything is done. *)
ReapRefused ==
  /\ rp.pc = "check" /\ rp.tries = 0
  /\ Reaping(ReapReturns("Err")) /\ Quiet

Retries == rp.tries + 1 < MaxTries
Again == [rp EXCEPT !.tries = @ + 1]
Forward(pc) == [rp EXCEPT !.pc = pc, !.tries = 0]

(* reap_record: identity_for_reap, and nothing but a full match goes on.   *)
ReapCheck(seen) ==
  /\ rp.pc = "check" /\ seen \in Seen(RootPid, "root")
  /\ Reaping(CASE seen = "same" -> Forward("snap1")
               [] seen \in {"none", "reused"} -> [Forward("remove") EXCEPT !.result = "AlreadyExited"]
               [] seen = "denied" /\ Retries -> Again
               [] OTHER -> ReapReturns("Err"))
  /\ Quiet

(* capture_descendants: two snapshots, the second one wins; a pid seen     *)
(* only in the first stays, one that can no longer be read goes.           *)
Snapshot1 ==
  /\ rp.pc = "snap1"
  /\ Reaping([Forward("snap2") EXCEPT !.first = Captures(Descendants)]) /\ Quiet

Snapshot2 ==
  /\ rp.pc = "snap2"
  /\ Reaping([Forward("recheck") EXCEPT
       !.queue = {c \in rp.first : c.pid \notin Descendants} \union Captures(Descendants)])
  /\ Quiet

IsRoot == rp.target = RootPid /\ rp.token = "root"

(* The end of reap_record_with_kill for one target: an error of the root   *)
(* ends the reap, one of a descendant is remembered.                       *)
NextTarget(r) ==
  IF r.queue = {} THEN
    IF r.failed THEN [r EXCEPT !.pc = "done", !.result = "Err"]
    ELSE [r EXCEPT !.pc = "remove", !.result = IF r.killed THEN "Killed" ELSE r.root]
  ELSE LET c == CHOOSE x \in r.queue : TRUE IN
    [r EXCEPT !.pc = "recheck", !.target = c.pid, !.token = c.token, !.queue = @ \ {c},
              !.tries = 0, !.fd = Free, !.killError = FALSE]

TargetDead(outcome) ==
  NextTarget(IF IsRoot THEN [rp EXCEPT !.root = outcome]
             ELSE [rp EXCEPT !.killed = @ \/ outcome = "Killed"])

TargetFails == IF IsRoot THEN ReapReturns("Err") ELSE NextTarget([rp EXCEPT !.failed = TRUE])

(* reap_record_with_kill: the identity once more; a descendant that cannot *)
(* be attributed is not ours (unowned_is_dead).                            *)
ReapRecheck(seen) ==
  /\ rp.pc = "recheck" /\ seen \in Seen(rp.target, rp.token)
  /\ Reaping(CASE seen = "same" -> Forward("open")
               [] seen \in {"none", "reused"} -> TargetDead("AlreadyExited")
               [] seen = "denied" /\ Retries -> Again
               [] OTHER -> IF IsRoot THEN ReapReturns("Err") ELSE TargetDead("AlreadyExited"))
  /\ Quiet

(* kill_recorded_process: a handle (pidfd, process handle) is opened ...   *)
ReapOpen ==
  /\ rp.pc = "open"
  /\ Reaping(IF rp.mode = "pid" THEN Forward("verify")
             ELSE IF at[rp.target] = Free THEN [Forward("poll") EXCEPT !.killError = TRUE]
             ELSE [Forward("verify") EXCEPT !.fd = at[rp.target]])
  /\ Quiet

(* Mutant: the signal is sent without a last look at the identity.         *)
ReapVerifyBlind(seen) ==
  /\ rp.pc = "verify" /\ seen \in Seen(rp.target, rp.token)
  /\ Reaping(Forward("signal")) /\ Quiet

(* ... the identity is read again ...                                      *)
ReapVerify(seen) ==
  /\ rp.pc = "verify" /\ seen \in Seen(rp.target, rp.token)
  /\ Reaping(IF seen = "same" THEN Forward("signal")
             ELSE [Forward("poll") EXCEPT !.killError = TRUE])
  /\ Quiet

(* ... and the signal goes to the handle, or to whoever has the pid now.   *)
ReapSignal(sent) ==
  /\ rp.pc = "signal"
  /\ LET victim == IF rp.mode = "pid" THEN at[rp.target] ELSE rp.fd IN
     signalled' = IF sent /\ victim # Free /\ IsAlive(victim) THEN signalled \union {victim}
                  ELSE signalled
  /\ Reaping([Forward("poll") EXCEPT !.killError = ~sent])
  /\ UNCHANGED file

(* Mutants: a refused query is taken for the death that was asked for; a   *)
(* survivor is killed again and again.                                     *)
ReapPollTrusting(seen) ==
  /\ rp.pc = "poll" /\ seen \in Seen(rp.target, rp.token)
  /\ Reaping(IF seen = "same" /\ Retries THEN Again
             ELSE IF seen = "same" THEN TargetFails ELSE TargetDead("Killed"))
  /\ Quiet

(* A kill error is provisional: only the identity tells.                   *)
ReapPoll(seen) ==
  /\ rp.pc = "poll" /\ seen \in Seen(rp.target, rp.token)
  /\ Reaping(CASE seen \in {"none", "reused", "uncertain"} -> TargetDead("Killed")
               [] seen \in {"denied", "error"} /\ ~IsRoot -> TargetDead("Killed")
               [] (seen = "same" \/ (seen = "denied" /\ IsRoot)) /\ Retries -> Again
               [] OTHER -> TargetFails)
  /\ Quiet

(* remove_record_if_matches                                                *)
ReapRemove ==
  /\ rp.pc = "remove"
  /\ file' = "none"
  /\ Reaping([rp EXCEPT !.pc = "done"])
  /\ UNCHANGED signalled

(* The caller may try again: recover_quarantine, the next boot.            *)
ReapAgain ==
  /\ rp.pc = "done" /\ rp.result = "Err"
  /\ Reaping(NoReap) /\ Quiet

ReapStep ==
  \/ \E mode \in KillModes : ReapStart(mode)
  \/ ReapRefused \/ Snapshot1 \/ Snapshot2 \/ ReapOpen \/ ReapRemove
  \/ \E seen \in {"none", "same", "reused", "uncertain", "denied", "error"} :
       ReapCheck(seen) \/ ReapRecheck(seen) \/ ReapVerify(seen) \/ ReapPoll(seen)
  \/ \E sent \in BOOLEAN : ReapSignal(sent)

PidNext ==
  \/ ChildStarts \/ PidReused \/ KinStarts \/ \E n \in Pids : Exits(n)
  \/ \E p \in Procs : Hides(p)
  \/ SpawnRoot \/ Write \/ WriteFails \/ GuardCleanup \/ GuardLost
  \/ ReapStep \/ ReapAgain

PidSpec == PidInit /\ [][PidNext]_pvars

(***************************************************************************)
(* Properties                                                              *)
(***************************************************************************)
Doomed(p) == ~IsAlive(p) \/ p \in signalled

(* The state is well-typed, and no two pids lead to one process.           *)
PidTypeOK ==
  /\ at \in [Pids -> Procs \union {Free}]
  /\ \A m, n \in Pids : at[m] = at[n] /\ at[m] # Free => m = n
  /\ signalled \subseteq started /\ started \subseteq Procs /\ hidden \subseteq Procs
  /\ file \in {"none", "record"} /\ rp.tries < MaxTries

(* A reap that reports success has proof: the recorded core is gone, or it *)
(* was sent the signal it cannot survive.                                  *)
ReapProvesDeath ==
  rp.pc = "done" /\ rp.result \in {"AlreadyExited", "Killed"} => Doomed("root")

(* As long as a recorded core may run, its record stays on disk: no        *)
(* failure or doubt in the middle of a reap takes the evidence away.       *)
EvidenceKept ==
  guard \in {"recorded", "lost"} /\ ~Doomed("root") => file = "record"

(* With process handles, a process that took over the pid of the core or   *)
(* of its child is never signalled.                                        *)
AlienSpared == "pid" \notin KillModes => "alien" \notin signalled

=============================================================================
