---------------------------- MODULE ProcessProofs ----------------------------
(***************************************************************************)
(* Proofs about processes and who ends them: the pid record and its        *)
(* reaper, the pump of one process tree, and the legacy core instance.     *)
(* Every claim is that a success has proof: a reap, a kill or a legacy     *)
(* kill that reports a death has seen it, however pids are reused and      *)
(* queries refused, and for any number of retries, callers and children.   *)
(***************************************************************************)
EXTENDS MCProcess, SupervisorProofs, FiniteSetTheorems, TLAPS

-----------------------------------------------------------------------------
(***************************************************************************)
(* The pid record and the reaper                                           *)
(***************************************************************************)
TargetPcs == {"recheck", "open", "verify", "signal", "poll"}
ReapPcs == {"idle", "check", "snap1", "snap2", "remove", "done"} \union TargetPcs
CaptureSet == [pid: Pids, token: {"child", "kin"}]
Reaps ==
  [pc: ReapPcs, mode: KillModes \union {"handle"}, target: Pids, token: {"root", "child", "kin"},
   first: SUBSET CaptureSet, queue: SUBSET CaptureSet, tries: Nat, fd: Procs \union {Free},
   killError: BOOLEAN, root: {"none", "AlreadyExited", "Killed"}, killed: BOOLEAN,
   failed: BOOLEAN, result: {"none", "NotFound", "AlreadyExited", "Killed", "Err"}]

(* A process has one pid, the core has its own, and what lives or was      *)
(* signalled has been started.                                             *)
HostTyped ==
  /\ at \in [Pids -> Procs \union {Free}]
  /\ \A m, n \in Pids : at[m] = at[n] /\ at[m] # Free => m = n
  /\ \A n \in Pids : at[n] # Free => at[n] \in started
  /\ \A n \in Pids : at[n] = "root" => n = RootPid
  /\ signalled \subseteq started /\ started \subseteq Procs /\ hidden \subseteq Procs
  /\ file \in {"none", "record"}
  /\ guard \in {"idle", "spawned", "recorded", "lost", "closed"}
  /\ guard # "idle" => "root" \in started

OnRoot(r) == r.target = RootPid /\ r.token = "root"

(* The reaper has gone past the root only with proof of its death.         *)
RootFirst(r) ==
  /\ r.pc \in {"check", "snap1", "snap2"} => OnRoot(r)
  /\ r.pc \in TargetPcs => OnRoot(r) \/ Doomed("root")
  /\ r.pc = "remove" => Doomed("root")
  /\ r.pc = "done" /\ r.result \in {"AlreadyExited", "Killed"} => Doomed("root")
  /\ r.pc # "idle" => guard # "idle"
  /\ r.pc \in TargetPcs \union {"snap1", "snap2"} => "root" \notin hidden

(* The process behind an open handle, if it lives, still has its pid; and  *)
(* when the signal goes out, it is the process that was looked for.        *)
HandleHeld(r) ==
  r.mode = "handle" =>
    /\ r.pc \in {"verify", "signal"} => /\ r.fd \in started
                                        /\ IsAlive(r.fd) => at[r.target] = r.fd
    /\ r.pc = "signal" /\ IsAlive(r.fd) => r.fd = r.token

ReapOK(r) == r \in Reaps /\ r.tries < MaxTries /\ RootFirst(r) /\ HandleHeld(r)

PidInv == HostTyped /\ ReapOK(rp) /\ EvidenceKept /\ AlienSpared

(* What a query of a pid tells: `none` and `reused` say the process is not *)
(* there, `same` that it is and can be read, and a process that can be     *)
(* read turns `uncertain` only when it is dying.                           *)
LEMMA SeenMeans ==
  ASSUME NEW n \in Pids, NEW t \in Procs, NEW seen \in Seen(n, t)
  PROVE  /\ seen \in {"none", "reused"} => at[n] # t
         /\ seen = "same" => at[n] = t /\ t \notin hidden
         /\ seen = "uncertain" => t \in hidden \/ t \in signalled
<1>1. CASE at[n] = Free
  <2>1. seen = "none"
    BY <1>1 DEF Seen, ProcessIdentity
  <2> QED
    BY <1>1, <2>1 DEF Procs, Free
<1>2. CASE at[n] # Free
  <2>1. PICK i \in ProcessIdentity(n) :
          seen = IF i.answer = "identity" THEN CompareIdentity(t, i) ELSE i.answer
    BY DEF Seen
  <2>2. CASE i \in {[answer |-> "denied"], [answer |-> "error"]}
    BY <2>1, <2>2
  <2>3. CASE i \notin {[answer |-> "denied"], [answer |-> "error"]}
    <3>1. PICK e \in IF at[n] \in hidden THEN {FALSE} ELSE {TRUE, at[n] \notin signalled} :
            i = [answer |-> "identity", token |-> at[n], executable |-> e]
      BY <1>2, <2>3 DEF ProcessIdentity
    <3>2. seen = IF at[n] # t THEN "reused" ELSE IF e THEN "same" ELSE "uncertain"
      BY <2>1, <3>1 DEF CompareIdentity
    <3>3. CASE e
      <4>1. at[n] \notin hidden
        BY <3>1, <3>3
      <4> QED
        BY <3>2, <3>3, <4>1
    <3>4. CASE ~e
      <4>1. at[n] \in hidden \/ at[n] \in signalled
        BY <3>1, <3>4, Zenon
      <4> QED
        BY <3>2, <3>4, <4>1
    <3> QED
      BY <3>3, <3>4
  <2> QED
    BY <2>2, <2>3
<1> QED
  BY <1>1, <1>2

(* The core has only ever had one pid: if it is not there, it is dead.     *)
LEMMA RootGone ==
  ASSUME HostTyped, at[RootPid] # "root"
  PROVE  Doomed("root")
  BY DEF HostTyped, Doomed, IsAlive

(* A step of the reaper that is quiet keeps the invariant if its next      *)
(* state is one the reaper may be in.                                      *)
LEMMA QuietReap ==
  ASSUME PidInv, NEW r, Reaping(r), Quiet, ReapOK(r)
  PROVE  PidInv'
<1>1. UNCHANGED <<at, started, hidden, guard, signalled, file>> /\ rp' = r
  BY DEF Reaping, Quiet
<1>2. HostTyped' /\ EvidenceKept' /\ AlienSpared'
  BY <1>1 DEF PidInv, HostTyped, EvidenceKept, AlienSpared, Doomed, IsAlive
<1>3. ReapOK(rp)'
  BY <1>1 DEF ReapOK, RootFirst, HandleHeld, OnRoot, Doomed, IsAlive
<1> QED
  BY <1>2, <1>3 DEF PidInv

(* Forward, Again and ReapReturns move the reaper and keep its target.     *)
LEMMA ForwardFields ==
  ASSUME rp \in Reaps, NEW pc \in ReapPcs
  PROVE  /\ Forward(pc) \in Reaps /\ Forward(pc).pc = pc /\ Forward(pc).tries = 0
         /\ Forward(pc).target = rp.target /\ Forward(pc).token = rp.token
         /\ Forward(pc).mode = rp.mode /\ Forward(pc).fd = rp.fd
  BY DEF Forward, Reaps

(* A reap that gives up claims nothing.                                    *)
LEMMA ReapReturnsErr ==
  ASSUME PidInv, guard # "idle"
  PROVE  ReapOK(ReapReturns("Err"))
<1> DEFINE r == ReapReturns("Err")
<1>1. r \in Reaps /\ r.pc = "done" /\ r.result = "Err" /\ r.tries = rp.tries
  BY DEF PidInv, ReapOK, ReapReturns, Reaps, ReapPcs
<1> QED
  BY <1>1 DEF PidInv, ReapOK, RootFirst, HandleHeld, TargetPcs

(* A query is made again within the attempts allowed.                      *)
LEMMA AgainOK ==
  ASSUME PidInv, Retries, rp.pc \notin {"verify", "signal"}
  PROVE  ReapOK(Again)
<1>1. rp \in Reaps /\ rp.tries \in Nat /\ rp.tries + 1 \in Nat /\ rp.tries + 1 < MaxTries
  BY PidAssumption DEF PidInv, ReapOK, Reaps, Retries
<1> DEFINE r == [rp EXCEPT !.tries = rp.tries + 1]
<1>2. /\ r \in Reaps /\ r.tries = rp.tries + 1 /\ r.pc = rp.pc /\ r.target = rp.target
      /\ r.token = rp.token /\ r.result = rp.result
  BY <1>1 DEF Reaps
<1>3. r = Again
  BY DEF Again
<1> HIDE DEF r
<1>4. ReapOK(r)
  BY <1>1, <1>2 DEF PidInv, ReapOK, RootFirst, HandleHeld, OnRoot
<1> QED
  BY <1>3, <1>4

(* The next target is taken only when the root is known to be dead.        *)
LEMMA NextTargetOK ==
  ASSUME NEW r \in Reaps, r.tries < MaxTries, Doomed("root"), guard # "idle",
         "root" \notin hidden
  PROVE  ReapOK(NextTarget(r))
<1> USE PidAssumption
<1>1. CASE r.queue = {} /\ r.failed
  <2> DEFINE d == [r EXCEPT !.pc = "done", !.result = "Err"]
  <2>1. d \in Reaps /\ d.pc = "done" /\ d.tries = r.tries
    BY DEF Reaps, ReapPcs
  <2>2. NextTarget(r) = d
    BY <1>1 DEF NextTarget
  <2> HIDE DEF d
  <2> QED
    BY <2>1, <2>2 DEF ReapOK, RootFirst, HandleHeld
<1>2. CASE r.queue = {} /\ ~r.failed
  <2> DEFINE x == IF r.killed THEN "Killed" ELSE r.root
             d == [r EXCEPT !.pc = "remove", !.result = x]
  <2>0. x \in {"none", "AlreadyExited", "Killed"}
    BY DEF Reaps
  <2>1. NextTarget(r) = d
    BY <1>2 DEF NextTarget
  <2> HIDE DEF x
  <2>2. d \in Reaps /\ d.pc = "remove" /\ d.tries = r.tries
    BY <2>0 DEF Reaps, ReapPcs
  <2> HIDE DEF d
  <2> QED
    BY <2>1, <2>2 DEF ReapOK, RootFirst, HandleHeld
<1>3. CASE r.queue # {}
  <2> DEFINE c == CHOOSE x \in r.queue : TRUE
             d == [r EXCEPT !.pc = "recheck", !.target = c.pid, !.token = c.token,
                            !.queue = r.queue \ {c}, !.tries = 0, !.fd = Free,
                            !.killError = FALSE]
  <2>1. c \in CaptureSet /\ r.queue \ {c} \in SUBSET CaptureSet
    BY <1>3 DEF Reaps
  <2>2. c.pid \in Pids /\ c.token \in {"child", "kin"}
    BY <2>1 DEF CaptureSet
  <2>3. NextTarget(r) = d
    BY <1>3 DEF NextTarget
  <2> HIDE DEF c
  <2>4. d \in Reaps /\ d.pc = "recheck" /\ d.tries = 0
    BY <2>1, <2>2, ZenonT(40) DEF Reaps, ReapPcs, TargetPcs
  <2> HIDE DEF d
  <2> QED
    BY <2>3, <2>4 DEF ReapOK, RootFirst, HandleHeld, TargetPcs
<1> QED
  BY <1>1, <1>2, <1>3

(* One target is done with: its death or its failure is booked.            *)
LEMMA TargetDeadOK ==
  ASSUME PidInv, rp.pc \in TargetPcs, NEW outcome \in {"AlreadyExited", "Killed"},
         IsRoot => Doomed("root")
  PROVE  ReapOK(TargetDead(outcome))
<1>1. Doomed("root") /\ guard # "idle" /\ "root" \notin hidden
  BY DEF PidInv, ReapOK, RootFirst, OnRoot, IsRoot, TargetPcs
<1>2. rp \in Reaps /\ rp.tries < MaxTries
  BY DEF PidInv, ReapOK
<1>3. CASE IsRoot
  <2> DEFINE r == [rp EXCEPT !.root = outcome]
  <2>1. r \in Reaps /\ r.tries = rp.tries
    BY <1>2 DEF Reaps
  <2>2. TargetDead(outcome) = NextTarget(r)
    BY <1>3 DEF TargetDead
  <2> HIDE DEF r
  <2> QED
    BY <1>1, <1>2, <2>1, <2>2, NextTargetOK
<1>4. CASE ~IsRoot
  <2> DEFINE k == rp.killed \/ outcome = "Killed"
             r == [rp EXCEPT !.killed = k]
  <2>1. TargetDead(outcome) = NextTarget(r)
    BY <1>4 DEF TargetDead
  <2>2. k \in BOOLEAN
    OBVIOUS
  <2> HIDE DEF k
  <2>3. r \in Reaps /\ r.tries = rp.tries
    BY <1>2, <2>2 DEF Reaps
  <2> HIDE DEF r
  <2> QED
    BY <1>1, <1>2, <2>1, <2>3, NextTargetOK
<1> QED
  BY <1>3, <1>4

LEMMA TargetFailsOK ==
  ASSUME PidInv, rp.pc \in TargetPcs
  PROVE  ReapOK(TargetFails)
<1>1. guard # "idle" /\ "root" \notin hidden /\ rp \in Reaps /\ rp.tries < MaxTries
  BY DEF PidInv, ReapOK, RootFirst, TargetPcs
<1>2. CASE IsRoot
  BY <1>1, <1>2, ReapReturnsErr DEF TargetFails
<1>3. CASE ~IsRoot
  <2> DEFINE r == [rp EXCEPT !.failed = TRUE]
  <2>1. r \in Reaps /\ r.tries = rp.tries
    BY <1>1 DEF Reaps
  <2>2. TargetFails = NextTarget(r) /\ Doomed("root")
    BY <1>3 DEF TargetFails, PidInv, ReapOK, RootFirst, OnRoot, IsRoot
  <2> HIDE DEF r
  <2> QED
    BY <1>1, <2>1, <2>2, NextTargetOK
<1> QED
  BY <1>2, <1>3

(* The file is read.                                                       *)
LEMMA ReapStartKeeps ==
  ASSUME PidInv, NEW mode \in KillModes, ReapStart(mode)
  PROVE  PidInv'
<1> DEFINE a == [NoReap EXCEPT !.pc = "done", !.result = "NotFound"]
           b == [NoReap EXCEPT !.pc = "check", !.mode = mode]
<1>1. NoReap \in Reaps /\ NoReap.tries = 0 /\ NoReap.target = RootPid /\ NoReap.token = "root"
  BY DEF NoReap, Reaps, ReapPcs, Pids, RootPid, Free
<1>2. a \in Reaps /\ a.pc = "done" /\ a.result = "NotFound" /\ a.tries = 0
  BY <1>1 DEF Reaps, ReapPcs
<1>3. /\ b \in Reaps /\ b.pc = "check" /\ b.tries = 0
      /\ b.target = RootPid /\ b.token = "root"
  BY <1>1 DEF Reaps, ReapPcs
<1>4. PICK r \in {a, b} : Reaping(r) /\ Quiet
  BY DEF ReapStart
<1>5. guard # "idle"
  BY DEF ReapStart
<1>6. ReapOK(a) /\ ReapOK(b)
  <2> HIDE DEF a, b
  <2> QED
    BY <1>2, <1>3, <1>5, PidAssumption DEF ReapOK, RootFirst, HandleHeld, OnRoot, TargetPcs
<1> HIDE DEF a, b
<1> QED
  BY <1>4, <1>6, QuietReap

(* reap_record's first look.                                               *)
LEMMA ReapCheckKeeps ==
  ASSUME PidInv, NEW seen, ReapCheck(seen)
  PROVE  PidInv'
<1>1. /\ rp \in Reaps /\ OnRoot(rp) /\ guard # "idle" /\ rp.pc = "check" /\ HostTyped
      /\ seen \in Seen(RootPid, "root")
  BY DEF PidInv, ReapOK, RootFirst, ReapCheck
<1>2. /\ seen \in {"none", "reused"} => at[RootPid] # "root"
      /\ seen = "same" => "root" \notin hidden
  BY <1>1, SeenMeans DEF Pids, Procs, RootPid
<1>3. CASE seen = "same"
  <2>1. Reaping(Forward("snap1")) /\ Quiet
    BY <1>3 DEF ReapCheck
  <2>2. ReapOK(Forward("snap1"))
    BY <1>1, <1>2, <1>3, ForwardFields, PidAssumption
    DEF ReapOK, RootFirst, HandleHeld, OnRoot, ReapPcs, TargetPcs
  <2> QED
    BY <2>1, <2>2, QuietReap
<1>4. CASE seen \in {"none", "reused"}
  <2> DEFINE f == Forward("remove")
             r == [f EXCEPT !.result = "AlreadyExited"]
  <2>1. f \in Reaps /\ f.pc = "remove" /\ f.tries = 0
    BY <1>1, ForwardFields DEF ReapPcs
  <2>2. Reaping(r) /\ Quiet
    BY <1>4 DEF ReapCheck
  <2> HIDE DEF f
  <2>3. r \in Reaps /\ r.pc = "remove" /\ r.tries = 0
    BY <2>1 DEF Reaps
  <2> HIDE DEF r
  <2>4. ReapOK(r)
    BY <1>1, <1>2, <1>4, <2>3, RootGone, PidAssumption
    DEF ReapOK, RootFirst, HandleHeld, TargetPcs
  <2> QED
    BY <2>2, <2>4, QuietReap
<1>5. CASE seen = "denied" /\ Retries
  BY <1>1, <1>5, AgainOK, QuietReap DEF ReapCheck
<1>6. CASE seen \notin {"same", "none", "reused"} /\ ~(seen = "denied" /\ Retries)
  BY <1>1, <1>6, ReapReturnsErr, QuietReap DEF ReapCheck
<1> QED
  BY <1>3, <1>4, <1>5, <1>6

(* What is captured are descendants, never the core or a stranger.         *)
LEMMA CapturesDescendants ==
  Captures(Descendants) \in SUBSET CaptureSet
  BY DEF Captures, Descendants, CaptureSet

(* capture_descendants.                                                    *)
LEMMA SnapshotsKeep ==
  ASSUME PidInv, Snapshot1 \/ Snapshot2
  PROVE  PidInv'
<1>1. rp \in Reaps /\ OnRoot(rp) /\ guard # "idle" /\ "root" \notin hidden
  BY DEF PidInv, ReapOK, RootFirst, Snapshot1, Snapshot2
<1>2. CASE Snapshot1
  <2> DEFINE f == Forward("snap2")
             c == Captures(Descendants)
             r == [f EXCEPT !.first = c]
  <2>1. /\ f \in Reaps /\ f.pc = "snap2" /\ f.tries = 0 /\ f.target = rp.target
        /\ f.token = rp.token /\ c \in SUBSET CaptureSet
    BY <1>1, ForwardFields, CapturesDescendants DEF ReapPcs
  <2>2. Reaping(r) /\ Quiet
    BY <1>2 DEF Snapshot1
  <2> HIDE DEF f, c
  <2>3. /\ r \in Reaps /\ r.pc = "snap2" /\ r.tries = 0 /\ r.target = rp.target
        /\ r.token = rp.token
    BY <2>1 DEF Reaps
  <2> HIDE DEF r
  <2>4. ReapOK(r)
    BY <1>1, <2>3, PidAssumption DEF ReapOK, RootFirst, HandleHeld, OnRoot, TargetPcs
  <2> QED
    BY <2>2, <2>4, QuietReap
<1>3. CASE Snapshot2
  <2> DEFINE f == Forward("recheck")
             c == {x \in rp.first : x.pid \notin Descendants} \union Captures(Descendants)
             r == [f EXCEPT !.queue = c]
  <2>1. /\ f \in Reaps /\ f.pc = "recheck" /\ f.tries = 0 /\ f.target = rp.target
        /\ f.token = rp.token
    BY <1>1, ForwardFields DEF ReapPcs, TargetPcs
  <2>2. c \in SUBSET CaptureSet
    BY <1>1, CapturesDescendants DEF Reaps
  <2>3. Reaping(r) /\ Quiet
    BY <1>3 DEF Snapshot2
  <2> HIDE DEF f, c
  <2>4. /\ r \in Reaps /\ r.pc = "recheck" /\ r.tries = 0 /\ r.target = rp.target
        /\ r.token = rp.token
    BY <2>1, <2>2 DEF Reaps
  <2> HIDE DEF r
  <2>5. ReapOK(r)
    BY <1>1, <2>4, PidAssumption DEF ReapOK, RootFirst, HandleHeld, OnRoot, TargetPcs
  <2> QED
    BY <2>3, <2>5, QuietReap
<1> QED
  BY <1>2, <1>3

(* reap_record_with_kill: the second look at a target.                     *)
LEMMA ReapRecheckKeeps ==
  ASSUME PidInv, NEW seen, ReapRecheck(seen)
  PROVE  PidInv'
<1>1. /\ rp \in Reaps /\ rp.pc = "recheck" /\ rp.pc \in TargetPcs /\ HostTyped
      /\ seen \in Seen(rp.target, rp.token)
      /\ guard # "idle" /\ "root" \notin hidden /\ (OnRoot(rp) \/ Doomed("root"))
  BY DEF PidInv, ReapOK, RootFirst, ReapRecheck, TargetPcs
<1>2. rp.target \in Pids /\ rp.token \in Procs
  BY <1>1 DEF Reaps, Procs
<1>3. IsRoot /\ seen \in {"none", "reused"} => Doomed("root")
  BY <1>1, <1>2, SeenMeans, RootGone DEF IsRoot
<1>4. CASE seen = "same"
  <2>1. Reaping(Forward("open")) /\ Quiet
    BY <1>4 DEF ReapRecheck
  <2>2. ReapOK(Forward("open"))
    BY <1>1, ForwardFields, PidAssumption
    DEF ReapOK, RootFirst, HandleHeld, OnRoot, ReapPcs, TargetPcs
  <2> QED
    BY <2>1, <2>2, QuietReap
<1>5. CASE seen \in {"none", "reused"}
  <2>1. Reaping(TargetDead("AlreadyExited")) /\ Quiet
    BY <1>5 DEF ReapRecheck
  <2> QED
    BY <1>1, <1>3, <1>5, <2>1, TargetDeadOK, QuietReap
<1>6. CASE seen = "denied" /\ Retries
  BY <1>1, <1>6, AgainOK, QuietReap DEF ReapRecheck
<1>7. CASE seen \notin {"same", "none", "reused"} /\ ~(seen = "denied" /\ Retries)
  <2>1. /\ Reaping(IF IsRoot THEN ReapReturns("Err") ELSE TargetDead("AlreadyExited"))
        /\ Quiet
    BY <1>7 DEF ReapRecheck
  <2> QED
    BY <1>1, <2>1, ReapReturnsErr, TargetDeadOK, QuietReap
<1> QED
  BY <1>4, <1>5, <1>6, <1>7

(* A handle is opened, and its process has the pid for as long as it       *)
(* lives.                                                                  *)
LEMMA ReapOpenKeeps ==
  ASSUME PidInv, ReapOpen
  PROVE  PidInv'
<1>1. /\ rp \in Reaps /\ rp.pc = "open" /\ HostTyped /\ rp.target \in Pids
      /\ guard # "idle" /\ "root" \notin hidden /\ (OnRoot(rp) \/ Doomed("root"))
  BY DEF PidInv, ReapOK, RootFirst, ReapOpen, TargetPcs, Reaps
<1>2. CASE rp.mode = "pid"
  <2>1. Reaping(Forward("verify")) /\ Quiet
    BY <1>2 DEF ReapOpen
  <2>2. ReapOK(Forward("verify"))
    BY <1>1, <1>2, ForwardFields, PidAssumption
    DEF ReapOK, RootFirst, HandleHeld, OnRoot, ReapPcs, TargetPcs
  <2> QED
    BY <2>1, <2>2, QuietReap
<1>3. CASE rp.mode # "pid" /\ at[rp.target] = Free
  <2> DEFINE f == Forward("poll")
             r == [f EXCEPT !.killError = TRUE]
  <2>1. /\ f \in Reaps /\ f.pc = "poll" /\ f.tries = 0 /\ f.target = rp.target
        /\ f.token = rp.token
    BY <1>1, ForwardFields DEF ReapPcs, TargetPcs
  <2>2. Reaping(r) /\ Quiet
    BY <1>3 DEF ReapOpen
  <2> HIDE DEF f
  <2>3. /\ r \in Reaps /\ r.pc = "poll" /\ r.tries = 0 /\ r.target = rp.target
        /\ r.token = rp.token
    BY <2>1 DEF Reaps
  <2> HIDE DEF r
  <2>4. ReapOK(r)
    BY <1>1, <2>3, PidAssumption DEF ReapOK, RootFirst, HandleHeld, OnRoot, TargetPcs
  <2> QED
    BY <2>2, <2>4, QuietReap
<1>4. CASE rp.mode # "pid" /\ at[rp.target] # Free
  <2> DEFINE f == Forward("verify")
             q == at[rp.target]
             r == [f EXCEPT !.fd = q]
  <2>1. /\ f \in Reaps /\ f.pc = "verify" /\ f.tries = 0 /\ f.target = rp.target
        /\ f.token = rp.token
    BY <1>1, ForwardFields DEF ReapPcs, TargetPcs
  <2>2. Reaping(r) /\ Quiet
    BY <1>4 DEF ReapOpen
  <2>3. q \in Procs /\ q \in started
    BY <1>1, <1>4 DEF HostTyped
  <2>4. q = at[rp.target]
    OBVIOUS
  <2> HIDE DEF f, q
  <2>5. /\ r \in Reaps /\ r.pc = "verify" /\ r.tries = 0 /\ r.target = rp.target
        /\ r.token = rp.token /\ r.fd = q
    BY <2>1, <2>3 DEF Reaps
  <2> HIDE DEF r
  <2>6. ReapOK(r)
    BY <1>1, <2>3, <2>4, <2>5, PidAssumption
    DEF ReapOK, RootFirst, HandleHeld, OnRoot, TargetPcs
  <2> QED
    BY <2>2, <2>6, QuietReap
<1> QED
  BY <1>2, <1>3, <1>4

(* The last look: what the handle leads to is the target, or is dead.      *)
LEMMA ReapVerifyKeeps ==
  ASSUME PidInv, NEW seen, ReapVerify(seen)
  PROVE  PidInv'
<1>1. /\ rp \in Reaps /\ rp.pc = "verify" /\ HandleHeld(rp) /\ rp.target \in Pids
      /\ rp.token \in Procs /\ seen \in Seen(rp.target, rp.token)
      /\ guard # "idle" /\ "root" \notin hidden /\ (OnRoot(rp) \/ Doomed("root"))
  BY DEF PidInv, ReapOK, RootFirst, ReapVerify, TargetPcs, Reaps, Procs
<1>2. CASE seen = "same"
  <2>1. Reaping(Forward("signal")) /\ Quiet
    BY <1>2 DEF ReapVerify
  <2>2. at[rp.target] = rp.token
    BY <1>1, <1>2, SeenMeans
  <2> DEFINE r == Forward("signal")
  <2>3. /\ r \in Reaps /\ r.pc = "signal" /\ r.tries = 0 /\ r.target = rp.target
        /\ r.token = rp.token /\ r.fd = rp.fd /\ r.mode = rp.mode
    BY <1>1, ForwardFields DEF ReapPcs, TargetPcs
  <2> HIDE DEF r
  <2>4. HandleHeld(r)
    BY <1>1, <2>2, <2>3 DEF HandleHeld
  <2>5. ReapOK(r)
    BY <1>1, <2>3, <2>4, PidAssumption DEF ReapOK, RootFirst, OnRoot, TargetPcs
  <2> QED
    BY <2>1, <2>5, QuietReap DEF r
<1>3. CASE seen # "same"
  <2> DEFINE f == Forward("poll")
             r == [f EXCEPT !.killError = TRUE]
  <2>1. /\ f \in Reaps /\ f.pc = "poll" /\ f.tries = 0 /\ f.target = rp.target
        /\ f.token = rp.token
    BY <1>1, ForwardFields DEF ReapPcs, TargetPcs
  <2>2. Reaping(r) /\ Quiet
    BY <1>3 DEF ReapVerify
  <2> HIDE DEF f
  <2>3. /\ r \in Reaps /\ r.pc = "poll" /\ r.tries = 0 /\ r.target = rp.target
        /\ r.token = rp.token
    BY <2>1 DEF Reaps
  <2> HIDE DEF r
  <2>4. ReapOK(r)
    BY <1>1, <2>3, PidAssumption DEF ReapOK, RootFirst, HandleHeld, OnRoot, TargetPcs
  <2> QED
    BY <2>2, <2>4, QuietReap
<1> QED
  BY <1>2, <1>3

(* The signal: with a handle, it cannot reach a stranger.                  *)
LEMMA ReapSignalKeeps ==
  ASSUME PidInv, NEW sent \in BOOLEAN, ReapSignal(sent)
  PROVE  PidInv'
<1> DEFINE victim == IF rp.mode = "pid" THEN at[rp.target] ELSE rp.fd
           f == Forward("poll")
           r == [f EXCEPT !.killError = ~sent]
<1>1. /\ rp \in Reaps /\ rp.pc = "signal" /\ HandleHeld(rp) /\ rp.target \in Pids /\ HostTyped
      /\ guard # "idle" /\ "root" \notin hidden /\ (OnRoot(rp) \/ Doomed("root"))
      /\ rp.token # "alien" /\ rp.mode \in KillModes \union {"handle"}
  BY DEF PidInv, ReapOK, RootFirst, ReapSignal, TargetPcs, Reaps
<1>2. /\ UNCHANGED <<at, started, hidden, guard, file>> /\ rp' = r
      /\ signalled' = signalled \/ (signalled' = signalled \union {victim} /\ IsAlive(victim) /\ victim # Free)
  BY DEF ReapSignal, Reaping
<1>3. "pid" \notin KillModes /\ IsAlive(victim) => victim # "alien"
  BY <1>1, PidAssumption DEF HandleHeld
<1>4. IsAlive(victim) /\ victim # Free => victim \in started
  BY <1>1 DEF IsAlive, HostTyped
<1> HIDE DEF victim
<1>5. HostTyped'
  BY <1>1, <1>2, <1>4 DEF HostTyped
<1>6. EvidenceKept' /\ AlienSpared' /\ (Doomed("root") => Doomed("root")')
  BY <1>2, <1>3 DEF PidInv, EvidenceKept, AlienSpared, Doomed, IsAlive
<1>7. /\ f \in Reaps /\ f.pc = "poll" /\ f.tries = 0 /\ f.target = rp.target
      /\ f.token = rp.token
  BY <1>1, ForwardFields DEF ReapPcs, TargetPcs
<1> HIDE DEF f
<1>8. /\ r \in Reaps /\ r.pc = "poll" /\ r.tries = 0 /\ r.target = rp.target
      /\ r.token = rp.token
  BY <1>7 DEF Reaps
<1> HIDE DEF r
<1>9. ReapOK(rp)'
  BY <1>1, <1>2, <1>6, <1>8, PidAssumption DEF ReapOK, RootFirst, HandleHeld, OnRoot, TargetPcs
<1> QED
  BY <1>5, <1>6, <1>9 DEF PidInv

(* The poll: a core that can no longer be read was signalled.              *)
LEMMA ReapPollKeeps ==
  ASSUME PidInv, NEW seen, ReapPoll(seen)
  PROVE  PidInv'
<1>1. /\ rp \in Reaps /\ rp.pc = "poll" /\ rp.pc \in TargetPcs /\ HostTyped
      /\ rp.target \in Pids /\ rp.token \in Procs /\ seen \in Seen(rp.target, rp.token)
      /\ "root" \notin hidden
  BY DEF PidInv, ReapOK, RootFirst, ReapPoll, TargetPcs, Reaps, Procs
<1>2. IsRoot /\ seen \in {"none", "reused", "uncertain"} => Doomed("root")
  BY <1>1, SeenMeans, RootGone DEF IsRoot, Doomed
<1>3. CASE seen \in {"none", "reused", "uncertain"}
  <2>1. Reaping(TargetDead("Killed")) /\ Quiet
    BY <1>3 DEF ReapPoll
  <2> QED
    BY <1>1, <1>2, <1>3, <2>1, TargetDeadOK, QuietReap
<1>4. CASE seen \in {"denied", "error"} /\ ~IsRoot
  <2>1. Reaping(TargetDead("Killed")) /\ Quiet
    BY <1>4 DEF ReapPoll
  <2> QED
    BY <1>1, <1>4, <2>1, TargetDeadOK, QuietReap
<1>5. CASE /\ seen \notin {"none", "reused", "uncertain"}
           /\ ~(seen \in {"denied", "error"} /\ ~IsRoot)
  <2>1. CASE (seen = "same" \/ (seen = "denied" /\ IsRoot)) /\ Retries
    <3>1. Reaping(Again) /\ Quiet
      BY <1>5, <2>1 DEF ReapPoll
    <3> QED
      BY <1>1, <2>1, <3>1, AgainOK, QuietReap
  <2>2. CASE ~((seen = "same" \/ (seen = "denied" /\ IsRoot)) /\ Retries)
    <3>1. Reaping(TargetFails) /\ Quiet
      BY <1>5, <2>2 DEF ReapPoll
    <3> QED
      BY <1>1, <3>1, TargetFailsOK, QuietReap
  <2> QED
    BY <2>1, <2>2
<1> QED
  BY <1>3, <1>4, <1>5

(* A refusal, the end of a reap and the next attempt.                      *)
LEMMA ReapEndsKeep ==
  ASSUME PidInv, ReapRefused \/ ReapRemove \/ ReapAgain
  PROVE  PidInv'
<1>1. CASE ReapRefused
  <2>1. guard # "idle" /\ Reaping(ReapReturns("Err")) /\ Quiet
    BY <1>1 DEF ReapRefused, PidInv, ReapOK, RootFirst
  <2> QED
    BY <2>1, ReapReturnsErr, QuietReap
<1>2. CASE ReapRemove
  <2> DEFINE r == [rp EXCEPT !.pc = "done"]
  <2>1. rp \in Reaps /\ rp.pc = "remove" /\ guard # "idle" /\ Doomed("root") /\ rp.tries < MaxTries
    BY <1>2 DEF ReapRemove, PidInv, ReapOK, RootFirst
  <2>2. r \in Reaps /\ r.pc = "done" /\ r.tries = rp.tries
    BY <2>1 DEF Reaps, ReapPcs
  <2>3. UNCHANGED <<at, started, hidden, guard, signalled>> /\ rp' = r /\ file' = "none"
    BY <1>2 DEF ReapRemove, Reaping
  <2> HIDE DEF r
  <2>4. Doomed("root")'
    BY <2>1, <2>3 DEF Doomed, IsAlive
  <2>5. HostTyped' /\ EvidenceKept' /\ AlienSpared'
    BY <2>3, <2>4 DEF PidInv, HostTyped, EvidenceKept, AlienSpared
  <2>6. ReapOK(rp)'
    BY <2>1, <2>2, <2>3, <2>4 DEF ReapOK, RootFirst, HandleHeld, TargetPcs
  <2> QED
    BY <2>5, <2>6 DEF PidInv
<1>3. CASE ReapAgain
  <2>1. NoReap \in Reaps /\ NoReap.tries = 0 /\ NoReap.pc = "idle"
    BY DEF NoReap, Reaps, ReapPcs, Pids, RootPid, Free
  <2>2. ReapOK(NoReap)
    BY <2>1, PidAssumption DEF ReapOK, RootFirst, HandleHeld, TargetPcs
  <2> QED
    BY <1>3, <2>2, QuietReap DEF ReapAgain
<1> QED
  BY <1>1, <1>2, <1>3

(* The host and the guard move beside a reaper that stands still: no       *)
(* process comes back, and a reap in progress keeps what it knows.         *)
LEMMA HostKeepsReap ==
  ASSUME PidInv, UNCHANGED rp, started \subseteq started', signalled \subseteq signalled',
         HostTyped',
         \A n \in Pids : at'[n] \in started => at[n] = at'[n],
         rp.pc = "idle" \/ UNCHANGED hidden, guard # "idle" => guard' # "idle"
  PROVE  ReapOK(rp)' /\ ("root" \in started /\ Doomed("root") => Doomed("root")')
<1>1. \A p \in started : IsAlive(p)' => IsAlive(p)
  BY DEF IsAlive
<1>2. "root" \in started /\ Doomed("root") => Doomed("root")'
  BY <1>1 DEF Doomed
<1>3. guard # "idle" => "root" \in started
  BY DEF PidInv, HostTyped
<1>4. RootFirst(rp)'
  BY <1>2, <1>3 DEF PidInv, ReapOK, RootFirst, OnRoot, TargetPcs
<1>5. HandleHeld(rp)'
  <2> SUFFICES ASSUME rp.mode = "handle", rp.pc \in {"verify", "signal"}
               PROVE  /\ rp.fd \in started'
                      /\ IsAlive(rp.fd)' => at'[rp.target] = rp.fd
                      /\ rp.pc = "signal" /\ IsAlive(rp.fd)' => rp.fd = rp.token
    BY DEF HandleHeld, IsAlive
  <2>1. /\ rp.fd \in started /\ (IsAlive(rp.fd) => at[rp.target] = rp.fd)
        /\ rp.pc = "signal" /\ IsAlive(rp.fd) => rp.fd = rp.token
    BY DEF PidInv, ReapOK, HandleHeld
  <2>2. rp.fd \in Procs /\ rp.fd # Free
    BY <2>1 DEF PidInv, HostTyped, Procs, Free
  <2>3. ASSUME IsAlive(rp.fd)' PROVE at'[rp.target] = rp.fd
    <3>1. PICK n \in Pids : at'[n] = rp.fd
      BY <2>3 DEF IsAlive
    <3>2. at[n] = rp.fd /\ at[rp.target] = rp.fd
      BY <1>1, <2>1, <3>1 DEF IsAlive
    <3>3. n = rp.target
      BY <2>2, <3>2 DEF PidInv, HostTyped, ReapOK, Reaps
    <3> QED
      BY <3>1, <3>3
  <2> QED
    BY <1>1, <2>1, <2>3
<1> QED
  BY <1>2, <1>4, <1>5 DEF PidInv, ReapOK

(* A process starts: at a free pid, and for the first time.                *)
LEMMA StartTyped ==
  ASSUME HostTyped, NEW p \in Procs, NEW n \in Pids, Start(p, n),
         p = "root" => n = RootPid, UNCHANGED <<signalled, hidden, file>>,
         guard' \in {"idle", "spawned", "recorded", "lost", "closed"},
         guard' # "idle" => guard # "idle" \/ p = "root"
  PROVE  /\ HostTyped' /\ started \subseteq started'
         /\ \A m \in Pids : at'[m] \in started => at[m] = at'[m]
<1>1. /\ p \notin started /\ at[n] = Free /\ started' = started \union {p}
      /\ at' = [at EXCEPT ![n] = p] /\ at \in [Pids -> Procs \union {Free}]
  BY DEF Start, HostTyped
<1>2. p # Free
  BY DEF Procs, Free
<1> QED
  BY <1>1, <1>2 DEF HostTyped

(* What the host does.                                                     *)
LEMMA HostKeeps ==
  ASSUME PidInv, NEW n \in Pids, NEW p \in Procs,
         ChildStarts \/ PidReused \/ KinStarts \/ SpawnRoot \/ Exits(n) \/ Hides(p)
  PROVE  PidInv'
<1>1. /\ HostTyped' /\ started \subseteq started' /\ UNCHANGED <<signalled, file, rp>>
      /\ \A m \in Pids : at'[m] \in started => at[m] = at'[m]
      /\ rp.pc = "idle" \/ UNCHANGED hidden
      /\ UNCHANGED guard \/ (guard = "idle" /\ guard' = "spawned")
  <2>1. CASE ChildStarts \/ PidReused \/ KinStarts
    <3>1. /\ UNCHANGED <<signalled, hidden, file, guard, rp>>
          /\ \E q \in {"child", "alien", "kin"}, m \in Pids : Start(q, m)
      BY <2>1 DEF ChildStarts, PidReused, KinStarts, Pids
    <3>2. PICK q \in {"child", "alien", "kin"}, m \in Pids : Start(q, m)
      BY <3>1
    <3> QED
      BY <3>1, <3>2, StartTyped DEF Procs, PidInv, HostTyped
  <2>2. CASE SpawnRoot
    <3>1. /\ UNCHANGED <<signalled, hidden, file, rp>> /\ guard = "idle" /\ guard' = "spawned"
          /\ Start("root", RootPid)
      BY <2>2 DEF SpawnRoot
    <3> QED
      BY <3>1, StartTyped DEF Procs, PidInv, Pids, RootPid
  <2>3. CASE Exits(n)
    <3>1. /\ at' = [at EXCEPT ![n] = Free]
          /\ UNCHANGED <<started, signalled, hidden, file, guard, rp>>
          /\ at \in [Pids -> Procs \union {Free}]
      BY <2>3 DEF Exits, PidInv, HostTyped
    <3>2. Free \notin Procs /\ Free # "root"
      BY DEF Procs, Free
    <3> QED
      BY <3>1, <3>2 DEF PidInv, HostTyped
  <2>4. CASE Hides(p)
    BY <2>4 DEF Hides, PidInv, HostTyped
  <2> QED
    BY <2>1, <2>2, <2>3, <2>4
<1>2. ReapOK(rp)' /\ ("root" \in started /\ Doomed("root") => Doomed("root")')
  BY <1>1, HostKeepsReap
<1>3. EvidenceKept'
  BY <1>1, <1>2 DEF PidInv, HostTyped, EvidenceKept
<1>4. AlienSpared'
  BY <1>1 DEF PidInv, AlienSpared
<1> QED
  BY <1>1, <1>2, <1>3, <1>4 DEF PidInv

(* What the guard does.                                                    *)
LEMMA GuardKeeps ==
  ASSUME PidInv, Write \/ WriteFails \/ GuardCleanup \/ GuardLost
  PROVE  PidInv'
<1>1. /\ UNCHANGED <<at, started, hidden, rp>> /\ guard # "idle"
      /\ guard' \in {"recorded", "lost", "closed"} /\ file' \in {"none", "record"}
      /\ signalled \subseteq signalled' /\ signalled' \subseteq signalled \union {"root"}
  BY DEF Write, PublishRecord, WriteFails, GuardCleanup, GuardLost, PidInv, HostTyped
<1>2. HostTyped'
  BY <1>1 DEF PidInv, HostTyped
<1>3. ReapOK(rp)' /\ (Doomed("root") => Doomed("root")')
  BY <1>1, <1>2, HostKeepsReap DEF PidInv, HostTyped
<1>4. EvidenceKept'
  BY <1>1, <1>3
  DEF Write, PublishRecord, WriteFails, GuardCleanup, GuardLost, PidInv, EvidenceKept, Doomed
<1>5. AlienSpared'
  BY <1>1 DEF PidInv, AlienSpared
<1> QED
  BY <1>2, <1>3, <1>4, <1>5 DEF PidInv

(* An empty record, and no reap under way.                                 *)
LEMMA PidInitially == PidInit => PidInv
<1> SUFFICES ASSUME PidInit PROVE PidInv
  OBVIOUS
<1>1. NoReap \in Reaps /\ NoReap.tries = 0 /\ NoReap.pc = "idle"
  BY DEF NoReap, Reaps, ReapPcs, Pids, RootPid, Free
<1>2. ReapOK(rp)
  BY <1>1, PidAssumption DEF PidInit, ReapOK, RootFirst, HandleHeld, TargetPcs
<1>3. HostTyped /\ EvidenceKept /\ AlienSpared
  BY DEF PidInit, HostTyped, EvidenceKept, AlienSpared, Free
<1> QED
  BY <1>2, <1>3 DEF PidInv

(* Every step of the reaper, of the daemon and of the host keeps it.       *)
LEMMA PidSteps == PidInv /\ [PidNext]_pvars => PidInv'
<1> SUFFICES ASSUME PidInv, [PidNext]_pvars PROVE PidInv'
  OBVIOUS
<1>1. CASE ReapStep
  <2>1. ASSUME NEW mode \in KillModes, ReapStart(mode) PROVE PidInv'
    BY <2>1, ReapStartKeeps
  <2>2. ASSUME NEW seen, ReapCheck(seen) \/ ReapRecheck(seen) \/ ReapVerify(seen) \/ ReapPoll(seen)
        PROVE  PidInv'
    BY <2>2, ReapCheckKeeps, ReapRecheckKeeps, ReapVerifyKeeps, ReapPollKeeps
  <2>3. ASSUME NEW sent \in BOOLEAN, ReapSignal(sent) PROVE PidInv'
    BY <2>3, ReapSignalKeeps
  <2> QED
    BY <1>1, <2>1, <2>2, <2>3, SnapshotsKeep, ReapOpenKeeps, ReapEndsKeep DEF ReapStep
<1>2. CASE ReapAgain
  BY <1>2, ReapEndsKeep
<1>3. CASE Write \/ WriteFails \/ GuardCleanup \/ GuardLost
  BY <1>3, GuardKeeps
<1>4. CASE ChildStarts \/ PidReused \/ KinStarts \/ SpawnRoot
  BY <1>4, HostKeeps DEF Pids, Procs
<1>5. ASSUME NEW n \in Pids, Exits(n) PROVE PidInv'
  BY <1>5, HostKeeps DEF Procs
<1>6. ASSUME NEW p \in Procs, Hides(p) PROVE PidInv'
  BY <1>6, HostKeeps DEF Pids
<1>7. CASE UNCHANGED pvars
  BY <1>7 DEF pvars, PidInv, HostTyped, ReapOK, RootFirst, HandleHeld, OnRoot, EvidenceKept,
              AlienSpared, Doomed, IsAlive
<1> QED
  BY <1>1, <1>2, <1>3, <1>4, <1>5, <1>6, <1>7 DEF PidNext

(* The invariant of the pid record is inductive.                           *)
THEOREM PidInvariant == PidSpec => []PidInv
  BY PidInitially, PidSteps, PTL DEF PidSpec

(* The invariant gives the reaper its shape.                               *)
LEMMA PidShape == PidInv => PidTypeOK
  BY DEF PidInv, PidTypeOK, HostTyped, ReapOK

(* PidTypeOK: the reaper's state has its shape, no retry exceeds its       *)
(* bound, and no two pids lead to one process.                             *)
THEOREM PidTypes == PidSpec => []PidTypeOK
  BY PidShape, PidInvariant, PTL

(* ReapProvesDeath: reap_epoch_pid_file reports AlreadyExited or Killed    *)
(* only if the recorded core is dead or was sent the signal it cannot      *)
(* survive, although pids are reused between any two of its calls.         *)
THEOREM ReapIsProof == PidSpec => []ReapProvesDeath
<1>1. PidInv => ReapProvesDeath
  BY DEF PidInv, ReapOK, RootFirst, ReapProvesDeath
<1> QED
  BY <1>1, PidInvariant, PTL

(* EvidenceKept: the record of a core that may run stays on disk, whatever *)
(* fails in the middle of a reap, and wherever its daemon dies.            *)
THEOREM RecordIsKept == PidSpec => []EvidenceKept
<1>1. PidInv => EvidenceKept
  BY DEF PidInv
<1> QED
  BY <1>1, PidInvariant, PTL

(* AlienSpared: on a host with process handles the reaper never signals a  *)
(* process that took over a pid.                                           *)
THEOREM StrangersSpared == PidSpec => []AlienSpared
<1>1. PidInv => AlienSpared
  BY DEF PidInv
<1> QED
  BY <1>1, PidInvariant, PTL

-----------------------------------------------------------------------------
(***************************************************************************)
(* The process engine                                                      *)
(***************************************************************************)
PumpPcs == {"new", "recording", "failing", "failed", "loop", "wait", "cleanup", "flush", "done"}
Over == {"cleanup", "flush", "done"}
PumpSet ==
  [pc: PumpPcs, armed: BOOLEAN, pending: BOOLEAN, evOpen: BOOLEAN, ctrlOpen: BOOLEAN,
   dying: BOOLEAN, drop: BOOLEAN, stall: BOOLEAN, abandoned: BOOLEAN, finished: BOOLEAN,
   dropped: BOOLEAN, helper: {"none", "running", "killed"}, target: BOOLEAN, launched: Nat,
   left: Nat]
PipeSet == [lines: Nat, written: Nat, child: BOOLEAN, descendant: BOOLEAN]
ReceiverSet == [mode: {"reading", "stalled", "dropped"}, got: Nat, terminated: BOOLEAN]
CallSet == [pc: {"idle", "queued", "waiting", "done"}, op: {"none"} \union Ops,
            res: {"none", "ok", "err"}, n: Nat]

(* The state of the process, of its pump and of the callers.               *)
TreeTyped == windows \in BOOLEAN /\ tree \in [Members -> {"absent", "alive", "dead"}] /\ hit \subseteq Members
PumpTyped == pump \in PumpSet /\ pipe \in PipeSet /\ record \in BOOLEAN /\ term \in {"none", "ok"}
ChannelsTyped == /\ ctrl \in Seq(Callers) /\ Len(ctrl) <= CtrlCapacity
                 /\ room \in 0 .. EventCapacity /\ rcv \in ReceiverSet
                 /\ call \in [Callers -> CallSet]

(* Whoever says that the child ended has seen it dead.                     *)
Witnessed ==
  /\ term = "ok" \/ pump.finished \/ pump.pc \in Over => tree["child"] = "dead"
  /\ \A c \in Callers : call[c].res = "ok" => term = "ok"
  /\ pump.pc = "new" => term = "none" /\ ~pump.finished

(* The pid record follows the pump.                                        *)
Recorded ==
  /\ pump.pc \in {"loop", "wait"} => record
  /\ pump.pc \in {"flush", "done"} => ~record
  /\ rcv.terminated => pump.pc \in {"flush", "done"}

InFlight == IF pump.pending THEN 1 ELSE 0

(* Every line that was written is in the pipe, in the pump or with the     *)
(* receiver that reads; after the loop none is on the way.                 *)
Delivery ==
  /\ pipe.lines <= pipe.written /\ pipe.written <= MaxLines
  /\ pump.pc \in Over \union {"wait"} => pipe.lines = 0 /\ ~pump.pending /\ ~pipe.child
  /\ rcv.mode = "reading" =>
       ~pump.drop /\ pump.evOpen /\ rcv.got + pipe.lines + InFlight = pipe.written

EngineInv ==
  /\ TreeTyped /\ PumpTyped /\ ChannelsTyped
  /\ Witnessed /\ Recorded /\ HelperOwned /\ Delivery

(* What the timers and the helper of a pump have nothing to do with.       *)
Same(p, q) ==
  /\ q.pc = p.pc /\ q.pending = p.pending /\ q.evOpen = p.evOpen /\ q.drop = p.drop
  /\ q.finished = p.finished /\ q.target = p.target

(* A pump that runs into its deadline is the same to all the rest.         *)
LEMMA DyingSame ==
  ASSUME NEW p \in PumpSet
  PROVE  /\ Dying(p) \in PumpSet /\ Same(p, Dying(p))
         /\ Dying(p).helper = p.helper /\ Dying(p).launched = p.launched
<1>1. CASE InLoop
  <2> DEFINE b == p.stall \/ p.pending
             q == [p EXCEPT !.dying = TRUE, !.stall = b]
  <2>1. Dying(p) = q
    BY <1>1 DEF Dying
  <2>2. b \in BOOLEAN
    OBVIOUS
  <2> HIDE DEF b
  <2>3. q \in PumpSet /\ Same(p, q) /\ q.helper = p.helper /\ q.launched = p.launched
    BY <2>2 DEF PumpSet, Same
  <2> HIDE DEF q
  <2> QED
    BY <2>1, <2>3
<1>2. CASE ~InLoop
  BY <1>2 DEF Dying, Same
<1> QED
  BY <1>1, <1>2

LEMMA HelperStopsSame ==
  ASSUME NEW p \in PumpSet
  PROVE  /\ HelperStops(p) \in PumpSet /\ Same(p, HelperStops(p))
         /\ HelperStops(p).helper # "running" /\ HelperStops(p).launched = p.launched
  BY DEF HelperStops, PumpSet, Same

(* The answer to the request at the head of the channel.                   *)
LEMMA ReplyTyped ==
  ASSUME ChannelsTyped, ctrl # <<>>, NEW ok, Reply(ok)
  PROVE  /\ ctrl' \in Seq(Callers) /\ Len(ctrl') <= CtrlCapacity
         /\ call' \in [Callers -> CallSet]
         /\ \A c \in Callers : call'[c].res = "ok" => call[c].res = "ok"
<1>1. /\ Head(ctrl) \in Callers /\ ctrl' = Tail(ctrl) /\ ctrl' \in Seq(Callers)
      /\ Len(ctrl') = Len(ctrl) - 1 /\ Len(ctrl) \in Nat /\ Len(ctrl) <= CtrlCapacity
  BY DEF ChannelsTyped, Reply
<1>2. Len(ctrl') <= CtrlCapacity
  BY <1>1, EngineAssumption
<1> DEFINE k == Head(ctrl)
           r == IF ok THEN [call[k] EXCEPT !.pc = "waiting"]
                ELSE [call[k] EXCEPT !.pc = "done", !.res = "err"]
<1>3. call' = [call EXCEPT ![k] = r] /\ call \in [Callers -> CallSet]
  BY DEF Reply, ChannelsTyped
<1>4. r \in CallSet /\ (r.res = "ok" => call[k].res = "ok")
  BY <1>1, <1>3 DEF CallSet
<1> HIDE DEF r
<1> QED
  BY <1>1, <1>2, <1>3, <1>4

(* A step of the pump that kills, arms or disarms, answers or not: what    *)
(* was written, recorded and seen stays.                                   *)
LEMMA KillStepKeeps ==
  ASSUME EngineInv, pump' \in PumpSet, Same(pump, pump'), pump'.launched <= 1,
         pump'.helper = "running" => pump.helper = "running" \/ pump.target,
         UNCHANGED <<windows, tree, pipe, record, term, room, rcv>>, hit' \subseteq Members,
         \/ UNCHANGED <<ctrl, call>>
         \/ ctrl # <<>> /\ \E ok \in BOOLEAN : Reply(ok)
  PROVE  EngineInv'
<1>1. TreeTyped' /\ PumpTyped'
  BY DEF EngineInv, TreeTyped, PumpTyped
<1>2. ChannelsTyped' /\ \A c \in Callers : call'[c].res = "ok" => call[c].res = "ok"
  <2>1. CASE UNCHANGED <<ctrl, call>>
    BY <2>1 DEF EngineInv, ChannelsTyped
  <2>2. CASE ctrl # <<>> /\ \E ok \in BOOLEAN : Reply(ok)
    BY <2>2, ReplyTyped DEF EngineInv, ChannelsTyped
  <2> QED
    BY <2>1, <2>2
<1>3. Witnessed'
  BY <1>2 DEF EngineInv, Witnessed, Same
<1>4. Recorded' /\ HelperOwned'
  BY DEF EngineInv, Recorded, HelperOwned, Same
<1>5. Delivery'
  BY DEF EngineInv, Delivery, InFlight, Same
<1> QED
  BY <1>1, <1>2, <1>3, <1>4, <1>5 DEF EngineInv

(* group.kill_all reaches members of the tree only.                        *)
LEMMA KillAllMembers ==
  ASSUME EngineInv, NEW works, KillAll(works)
  PROVE  hit' \subseteq Members
  BY DEF EngineInv, TreeTyped, KillAll, Living

(* handle_ctrl, Kill                                                       *)
LEMMA CtrlKillKeeps ==
  ASSUME EngineInv, NEW works \in BOOLEAN, CtrlKill(works)
  PROVE  EngineInv'
<1> DEFINE a == [pump EXCEPT !.armed = FALSE]
           b == HelperStops(a)
<1>1. /\ a \in PumpSet /\ Same(pump, a) /\ a.launched = pump.launched
      /\ pump.launched <= 1
  BY DEF EngineInv, PumpTyped, PumpSet, Same, HelperOwned
<1>2. pump' = Dying(b) /\ KillAll(works) /\ Reply(works) /\ ctrl # <<>>
      /\ UNCHANGED <<windows, tree, pipe, record, term, room, rcv>>
  BY DEF CtrlKill
<1> HIDE DEF a
<1>3. /\ b \in PumpSet /\ Same(a, b) /\ b.helper # "running" /\ b.launched = a.launched
  BY <1>1, HelperStopsSame
<1> HIDE DEF b
<1>4. /\ pump' \in PumpSet /\ Same(b, pump') /\ pump'.helper = b.helper
      /\ pump'.launched = b.launched
  BY <1>2, <1>3, DyingSame
<1>5. Same(pump, pump')
  BY <1>1, <1>3, <1>4 DEF Same
<1>6. hit' \subseteq Members
  BY <1>2, KillAllMembers
<1> QED
  BY <1>1, <1>2, <1>3, <1>4, <1>5, <1>6, KillStepKeeps

(* handle_ctrl, GracefulKill on Unix                                       *)
LEMMA CtrlGracefulKeeps ==
  ASSUME EngineInv, NEW signals \in BOOLEAN, NEW works \in BOOLEAN, CtrlGraceful(signals, works)
  PROVE  EngineInv'
<1> DEFINE a == [pump EXCEPT !.armed = TRUE]
<1>1. /\ a \in PumpSet /\ Same(pump, a) /\ a.launched = pump.launched /\ a.helper = pump.helper
      /\ pump \in PumpSet /\ Same(pump, pump) /\ pump.launched <= 1
  BY DEF EngineInv, PumpTyped, PumpSet, Same, HelperOwned
<1>2. /\ ctrl # <<>> /\ UNCHANGED <<windows, tree, pipe, record, term, room, rcv>>
      /\ \/ pump' = Dying(a) /\ NoKill /\ Reply(TRUE)
         \/ pump' = Dying(pump) /\ KillAll(works) /\ Reply(works)
  BY DEF CtrlGraceful
<1> HIDE DEF a
<1>3. PICK p \in {a, pump} : pump' = Dying(p)
  BY <1>2
<1>4. /\ pump' \in PumpSet /\ Same(p, pump') /\ pump'.helper = p.helper
      /\ pump'.launched = p.launched
  BY <1>1, <1>3, DyingSame
<1>5. Same(pump, pump')
  BY <1>1, <1>4 DEF Same
<1>6. hit' \subseteq Members
  BY <1>2, KillAllMembers DEF NoKill, EngineInv, TreeTyped
<1>7. \E ok \in BOOLEAN : Reply(ok)
  BY <1>2
<1> QED
  BY <1>1, <1>2, <1>4, <1>5, <1>6, <1>7, KillStepKeeps

(* handle_ctrl, GracefulKill on Windows: a console event goes out once,    *)
(* and only while the pid is the child's.                                  *)
LEMMA CtrlBreakKeeps ==
  ASSUME EngineInv, NEW launches \in BOOLEAN, NEW works \in BOOLEAN, CtrlBreak(launches, works)
  PROVE  EngineInv'
<1> DEFINE a == [pump EXCEPT !.armed = TRUE, !.helper = "running", !.launched = pump.launched + 1]
           b == [pump EXCEPT !.armed = FALSE, !.launched = pump.launched + 1]
           d == [pump EXCEPT !.armed = TRUE]
           e == HelperStops(pump)
<1>0. pump \in PumpSet /\ pump.launched \in Nat /\ pump.launched + 1 \in Nat /\ pump.launched <= 1
  BY DEF EngineInv, PumpTyped, PumpSet, HelperOwned
<1>1. /\ a \in PumpSet /\ Same(pump, a) /\ a.launched = pump.launched + 1 /\ a.helper = "running"
      /\ b \in PumpSet /\ Same(pump, b) /\ b.launched = pump.launched + 1 /\ b.helper = pump.helper
      /\ d \in PumpSet /\ Same(pump, d) /\ d.launched = pump.launched /\ d.helper = pump.helper
  BY <1>0 DEF PumpSet, Same
<1>2. e \in PumpSet /\ Same(pump, e) /\ e.launched = pump.launched /\ e.helper # "running"
  BY <1>0, HelperStopsSame
<1>3. /\ ctrl # <<>> /\ UNCHANGED <<windows, tree, pipe, record, term, room, rcv>>
      /\ NoKill \/ KillAll(works)
      /\ \E ok \in BOOLEAN : Reply(ok)
  BY DEF CtrlBreak
<1>4. \/ pump.target /\ pump.launched = 0 /\ (pump' = Dying(a) \/ pump' = Dying(b))
      \/ pump' = Dying(d) \/ pump' = Dying(e)
  BY DEF CtrlBreak, MayRequest
<1> HIDE DEF a, b, d, e
<1>5. PICK p \in {a, b, d, e} :
        /\ pump' = Dying(p) /\ p \in PumpSet /\ Same(pump, p) /\ p.launched <= 1
        /\ p.helper = "running" => pump.helper = "running" \/ pump.target
  BY <1>0, <1>1, <1>2, <1>4
<1>6. /\ pump' \in PumpSet /\ Same(p, pump') /\ pump'.helper = p.helper
      /\ pump'.launched = p.launched
  BY <1>5, DyingSame
<1>7. Same(pump, pump')
  BY <1>5, <1>6 DEF Same
<1>8. hit' \subseteq Members
  BY <1>3, KillAllMembers DEF NoKill, EngineInv, TreeTyped
<1> QED
  BY <1>3, <1>5, <1>6, <1>7, <1>8, KillStepKeeps

(* The timers, the helper and the abandoned pump.                          *)
LEMMA TimersKeep ==
  ASSUME EngineInv, NEW succeeds \in BOOLEAN, NEW works \in BOOLEAN,
         CtrlClosed \/ Abandon(works) \/ DeadlineFires(works) \/ HelperEnds(succeeds, works)
  PROVE  EngineInv'
<1>0. pump \in PumpSet /\ pump.launched <= 1
  BY DEF EngineInv, PumpTyped, HelperOwned
<1>1. /\ UNCHANGED <<windows, tree, pipe, record, term, room, rcv, ctrl, call>>
      /\ hit' = hit \/ KillAll(works)
  BY DEF CtrlClosed, Abandon, DeadlineFires, HelperEnds, NoKill
<1>2. /\ pump' \in PumpSet /\ Same(pump, pump') /\ pump'.launched = pump.launched
      /\ pump'.helper \in {pump.helper, "none"}
  <2>1. CASE CtrlClosed
    BY <1>0, <2>1 DEF CtrlClosed, PumpSet, Same
  <2>2. CASE Abandon(works)
    <3> DEFINE b == InLoop \/ pump.dying
    <3>1. pump' = [pump EXCEPT !.abandoned = TRUE, !.armed = FALSE, !.dying = b]
      BY <2>2 DEF Abandon
    <3>2. b \in BOOLEAN
      BY DEF InLoop
    <3> HIDE DEF b
    <3> QED
      BY <1>0, <3>1, <3>2 DEF PumpSet, Same
  <2>3. CASE DeadlineFires(works)
    <3> DEFINE a == [pump EXCEPT !.armed = FALSE, !.helper = "none"]
    <3>1. a \in PumpSet /\ Same(pump, a) /\ a.launched = pump.launched /\ a.helper = "none"
      BY <1>0 DEF PumpSet, Same
    <3>2. pump' = Dying(a)
      BY <2>3 DEF DeadlineFires
    <3> HIDE DEF a
    <3>3. /\ pump' \in PumpSet /\ Same(a, pump') /\ pump'.helper = a.helper
          /\ pump'.launched = a.launched
      BY <3>1, <3>2, DyingSame
    <3> QED
      BY <3>1, <3>3 DEF Same
  <2>4. CASE HelperEnds(succeeds, works)
    BY <1>0, <2>4 DEF HelperEnds, PumpSet, Same
  <2> QED
    BY <2>1, <2>2, <2>3, <2>4
<1>3. hit' \subseteq Members
  BY <1>1, KillAllMembers DEF EngineInv, TreeTyped
<1> QED
  BY <1>0, <1>1, <1>2, <1>3, KillStepKeeps

(* The spawn, and its failures.                                            *)
LEMMA SpawnKeeps ==
  ASSUME EngineInv, NEW t \in BOOLEAN,
         StartChild(t) \/ RecordPid \/ RecordFails \/ SpawnReturnsErr
  PROVE  EngineInv'
<1>0. pump \in PumpSet /\ pipe \in PipeSet /\ windows \in BOOLEAN
  BY DEF EngineInv, PumpTyped, TreeTyped
<1>1. CASE StartChild(t)
  <2>1. /\ pump' = [pump EXCEPT !.pc = "recording", !.armed = t, !.target = windows]
        /\ pipe' = [pipe EXCEPT !.child = TRUE] /\ tree' = [tree EXCEPT !["child"] = "alive"]
        /\ UNCHANGED <<windows, hit, record, term, ctrl, room, rcv, call>> /\ pump.pc = "new"
    BY <1>1 DEF StartChild
  <2>2. /\ pump' \in PumpSet /\ pump'.pc = "recording" /\ pump'.pending = pump.pending
        /\ pump'.evOpen = pump.evOpen /\ pump'.drop = pump.drop /\ pump'.launched = pump.launched
        /\ pump'.finished = pump.finished
    BY <1>0, <2>1 DEF PumpSet, PumpPcs
  <2>3. pipe' \in PipeSet /\ pipe'.lines = pipe.lines /\ pipe'.written = pipe.written
    BY <1>0, <2>1 DEF PipeSet
  <2>4. TreeTyped' /\ PumpTyped' /\ ChannelsTyped'
    BY <2>1, <2>2, <2>3 DEF EngineInv, TreeTyped, PumpTyped, ChannelsTyped
  <2>5. Witnessed' /\ Recorded' /\ HelperOwned'
    BY <2>1, <2>2 DEF EngineInv, Witnessed, Recorded, HelperOwned, Over
  <2>6. Delivery'
    BY <2>1, <2>2, <2>3 DEF EngineInv, Delivery, InFlight, Over
  <2> QED
    BY <2>4, <2>5, <2>6 DEF EngineInv
<1>2. CASE RecordPid \/ RecordFails \/ SpawnReturnsErr
  <2>1. PICK pc \in {"loop", "failing", "failed"} :
          pump' = [pump EXCEPT !.pc = pc] /\ (pc = "loop" => record') /\ record' \in BOOLEAN
    BY <1>2 DEF RecordPid, RecordFails, SpawnReturnsErr, EngineInv, PumpTyped
  <2>2. /\ UNCHANGED <<windows, tree, pipe, term, ctrl, room, rcv, call>> /\ hit' \subseteq Members
        /\ pump.pc \in {"recording", "failing"}
    BY <1>2 DEF RecordPid, RecordFails, SpawnReturnsErr, Living, EngineInv, TreeTyped
  <2>3. /\ pump' \in PumpSet /\ pump'.pc = pc /\ pump'.pending = pump.pending
        /\ pump'.evOpen = pump.evOpen /\ pump'.drop = pump.drop /\ pump'.launched = pump.launched
        /\ pump'.finished = pump.finished /\ pump'.target = pump.target
        /\ pump'.helper = pump.helper
    BY <1>0, <2>1 DEF PumpSet, PumpPcs
  <2>4. TreeTyped' /\ PumpTyped' /\ ChannelsTyped'
    BY <2>1, <2>2, <2>3 DEF EngineInv, TreeTyped, PumpTyped, ChannelsTyped
  <2>5. Witnessed' /\ Recorded' /\ HelperOwned'
    BY <2>1, <2>2, <2>3 DEF EngineInv, Witnessed, Recorded, HelperOwned, Over
  <2>6. Delivery'
    BY <2>2, <2>3 DEF EngineInv, Delivery, InFlight, Over
  <2> QED
    BY <2>4, <2>5, <2>6 DEF EngineInv
<1> QED
  BY <1>1, <1>2

(* What the processes do.                                                  *)
LEMMA TreeKeeps ==
  ASSUME EngineInv, NEW i \in BOOLEAN, NEW m \in Members,
         Forks(i) \/ Prints \/ ClosesOutput \/ Dies(m)
  PROVE  EngineInv'
<1>0. pipe \in PipeSet /\ tree \in [Members -> {"absent", "alive", "dead"}]
  BY DEF EngineInv, PumpTyped, TreeTyped
<1>1. UNCHANGED <<windows, hit, record, pump, term, ctrl, room, rcv, call>>
  BY DEF Forks, Prints, ClosesOutput, Dies
<1>2. tree' \in [Members -> {"absent", "alive", "dead"}]
      /\ (tree["child"] = "dead" => tree'["child"] = "dead")
  BY <1>0 DEF Forks, Prints, ClosesOutput, Dies, Members
<1>3. /\ pipe' \in PipeSet /\ (~pipe.child => ~pipe'.child)
      /\ \/ pipe'.lines = pipe.lines /\ pipe'.written = pipe.written
         \/ /\ pipe.child /\ pipe.written < MaxLines
            /\ pipe'.lines = pipe.lines + 1 /\ pipe'.written = pipe.written + 1
  <2>1. CASE Forks(i)
    <3> DEFINE b == i /\ pipe.child
    <3>1. pipe' = [pipe EXCEPT !.descendant = b] /\ b \in BOOLEAN
      BY <2>1 DEF Forks
    <3> HIDE DEF b
    <3> QED
      BY <1>0, <3>1 DEF PipeSet
  <2>2. CASE Prints
    <3>1. /\ pipe' = [pipe EXCEPT !.lines = pipe.lines + 1, !.written = pipe.written + 1]
          /\ pipe.child /\ pipe.written < MaxLines
      BY <2>2 DEF Prints
    <3>2. pipe.lines + 1 \in Nat /\ pipe.written + 1 \in Nat
      BY <1>0 DEF PipeSet
    <3> QED
      BY <1>0, <3>1, <3>2 DEF PipeSet
  <2>3. CASE ClosesOutput \/ Dies(m)
    <3>1. \/ pipe' = [pipe EXCEPT !.child = FALSE] \/ pipe' = [pipe EXCEPT !.descendant = FALSE]
      BY <2>3 DEF ClosesOutput, Dies
    <3>2. CASE pipe' = [pipe EXCEPT !.child = FALSE]
      BY <1>0, <3>2 DEF PipeSet
    <3>3. CASE pipe' = [pipe EXCEPT !.descendant = FALSE]
      BY <1>0, <3>3 DEF PipeSet
    <3> QED
      BY <3>1, <3>2, <3>3
  <2> QED
    BY <2>1, <2>2, <2>3
<1>4. TreeTyped' /\ PumpTyped' /\ ChannelsTyped'
  BY <1>1, <1>2, <1>3 DEF EngineInv, TreeTyped, PumpTyped, ChannelsTyped
<1>5. Witnessed' /\ Recorded' /\ HelperOwned'
  BY <1>1, <1>2 DEF EngineInv, Witnessed, Recorded, HelperOwned
<1>6. Delivery'
  <2>1. pipe.lines \in Nat /\ pipe.written \in Nat /\ rcv.got \in Nat /\ InFlight \in {0, 1}
    BY <1>0 DEF PipeSet, EngineInv, ChannelsTyped, ReceiverSet, InFlight
  <2>2. InFlight' = InFlight /\ MaxLines \in Nat
    BY <1>1, EngineAssumption DEF InFlight
  <2>3. pipe'.lines <= pipe'.written /\ pipe'.written <= MaxLines
    BY <1>3, <2>1, <2>2 DEF EngineInv, Delivery
  <2>4. pump'.pc \in Over \union {"wait"} => pipe'.lines = 0 /\ ~pump'.pending /\ ~pipe'.child
    BY <1>1, <1>3 DEF EngineInv, Delivery
  <2>5. rcv'.mode = "reading" =>
          ~pump'.drop /\ pump'.evOpen /\ rcv'.got + pipe'.lines + InFlight' = pipe'.written
    BY <1>1, <1>3, <2>1, <2>2 DEF EngineInv, Delivery
  <2> QED
    BY <2>3, <2>4, <2>5 DEF Delivery
<1> QED
  BY <1>4, <1>5, <1>6 DEF EngineInv

(* What the callers do.                                                    *)
LEMMA CallersKeep ==
  ASSUME EngineInv, NEW c \in Callers, NEW op \in Ops,
         Sends(c, op) \/ ReplyDropped(c) \/ Waited(c) \/ GivesUp(c) \/ DropHandles
  PROVE  EngineInv'
<1>0. call \in [Callers -> CallSet] /\ ctrl \in Seq(Callers) /\ Len(ctrl) <= CtrlCapacity
  BY DEF EngineInv, ChannelsTyped
<1>1. UNCHANGED <<windows, tree, hit, pipe, record, pump, term, room, rcv>>
  BY DEF Sends, ReplyDropped, Waited, GivesUp, DropHandles
<1>2. ctrl' \in Seq(Callers) /\ Len(ctrl') <= CtrlCapacity
  <2>1. CASE UNCHANGED ctrl
    BY <1>0, <2>1
  <2>2. CASE ctrl' # ctrl
    <3>1. ctrl' = Append(ctrl, c) /\ Len(ctrl) < CtrlCapacity
      BY <2>2 DEF Sends, ReplyDropped, Waited, GivesUp, DropHandles
    <3> QED
      BY <1>0, <3>1, EngineAssumption
  <2> QED
    BY <2>1, <2>2
<1>3. /\ call' \in [Callers -> CallSet]
      /\ \A x \in Callers : call'[x].res = "ok" => call[x].res = "ok" \/ term = "ok"
  <2>1. CASE Sends(c, op)
    <3>1. call[c].n + 1 \in Nat
      BY <1>0 DEF CallSet
    <3> DEFINE a == [pc |-> "waiting", op |-> op, res |-> "none", n |-> call[c].n + 1]
               b == [pc |-> "queued", op |-> op, res |-> "none", n |-> call[c].n + 1]
    <3>2. a \in CallSet /\ b \in CallSet /\ a.res = "none" /\ b.res = "none"
      BY <3>1 DEF CallSet
    <3>3. call' = [call EXCEPT ![c] = a] \/ call' = [call EXCEPT ![c] = b]
      BY <2>1 DEF Sends
    <3> HIDE DEF a, b
    <3> QED
      BY <1>0, <3>2, <3>3
  <2>2. CASE ReplyDropped(c) \/ GivesUp(c) \/ DropHandles
    BY ZenonT(40), <1>0, <2>2 DEF ReplyDropped, GivesUp, DropHandles, CallSet
  <2>3. CASE Waited(c)
    <3> DEFINE a == [call[c] EXCEPT !.pc = "done", !.res = term]
    <3>1. a \in CallSet /\ a.res = term
      BY <1>0 DEF CallSet, EngineInv, PumpTyped
    <3>2. call' = [call EXCEPT ![c] = a]
      BY <1>0, <2>3 DEF Waited
    <3> HIDE DEF a
    <3> QED
      BY <1>0, <3>1, <3>2
  <2> QED
    BY <2>1, <2>2, <2>3
<1>4. TreeTyped' /\ PumpTyped' /\ ChannelsTyped'
  BY <1>1, <1>2, <1>3 DEF EngineInv, TreeTyped, PumpTyped, ChannelsTyped
<1>5. Witnessed' /\ Recorded' /\ HelperOwned'
  BY <1>1, <1>3 DEF EngineInv, Witnessed, Recorded, HelperOwned
<1>6. Delivery'
  BY <1>1 DEF EngineInv, Delivery, InFlight
<1> QED
  BY <1>4, <1>5, <1>6 DEF EngineInv

(* The child is reaped.                                                    *)
LEMMA FinishKeeps ==
  ASSUME EngineInv, FinishInLoop \/ FinishAfterLoop
  PROVE  EngineInv'
<1> DEFINE a == [pump EXCEPT !.finished = TRUE, !.helper = "none", !.target = FALSE]
           f == Dying(a)
<1>0. pump \in PumpSet
  BY DEF EngineInv, PumpTyped
<1>1. /\ a \in PumpSet /\ a.finished /\ a.helper = "none" /\ ~a.target /\ a.pc = pump.pc
      /\ a.pending = pump.pending /\ a.evOpen = pump.evOpen /\ a.drop = pump.drop
      /\ a.launched = pump.launched
  BY <1>0 DEF PumpSet
<1>2. /\ tree["child"] = "dead" /\ term' = "ok"
      /\ UNCHANGED <<windows, tree, hit, pipe, record, ctrl, room, rcv, call>>
      /\ \/ pump' = f /\ pump.pc = "loop"
         \/ pump' = [f EXCEPT !.pc = "cleanup"] /\ pump.pc = "wait"
  BY DEF FinishInLoop, FinishAfterLoop, Finished, InLoop
<1> HIDE DEF a
<1>3. f \in PumpSet /\ Same(a, f) /\ f.helper = a.helper /\ f.launched = a.launched
  BY <1>1, DyingSame
<1> HIDE DEF f
<1>4. /\ pump' \in PumpSet /\ pump'.finished /\ pump'.helper = "none" /\ ~pump'.target
      /\ pump'.pending = pump.pending /\ pump'.evOpen = pump.evOpen /\ pump'.drop = pump.drop
      /\ pump'.launched = pump.launched
      /\ \/ pump'.pc = "loop" /\ pump.pc = "loop"
         \/ pump'.pc = "cleanup" /\ pump.pc = "wait"
  <2>1. CASE pump' = f /\ pump.pc = "loop"
    BY <1>1, <1>3, <2>1 DEF Same
  <2>2. CASE pump' = [f EXCEPT !.pc = "cleanup"] /\ pump.pc = "wait"
    BY <1>1, <1>3, <2>2 DEF Same, PumpSet, PumpPcs
  <2> QED
    BY <1>2, <2>1, <2>2
<1>5. TreeTyped' /\ PumpTyped' /\ ChannelsTyped'
  BY <1>2, <1>4 DEF EngineInv, TreeTyped, PumpTyped, ChannelsTyped
<1>6. Witnessed' /\ Recorded' /\ HelperOwned'
  BY <1>2, <1>4 DEF EngineInv, Witnessed, Recorded, HelperOwned
<1>7. Delivery'
  BY <1>2, <1>4 DEF EngineInv, Delivery, InFlight, Over
<1> QED
  BY <1>5, <1>6, <1>7 DEF EngineInv

(* Sending an event: a receiver that reads has it, one that stopped loses  *)
(* a slot.                                                                 *)
LEMMA SendTyped ==
  ASSUME EngineInv, NEW ev, MaySend, SendEvent(ev)
  PROVE  /\ rcv' \in ReceiverSet /\ rcv'.mode = rcv.mode /\ room' \in 0 .. EventCapacity
         /\ rcv.mode = "reading" =>
              /\ rcv'.got = IF ev = "line" THEN rcv.got + 1 ELSE rcv.got
              /\ rcv'.terminated => ev = "Terminated"
         /\ rcv.mode # "reading" => rcv' = rcv
<1>0. rcv \in ReceiverSet /\ rcv.got \in Nat /\ rcv.got + 1 \in Nat /\ room \in 0 .. EventCapacity
  BY DEF EngineInv, ChannelsTyped, ReceiverSet
<1>1. CASE rcv.mode = "reading"
  <2> DEFINE g == IF ev = "line" THEN rcv.got + 1 ELSE rcv.got
             t == ev = "Terminated"
  <2>1. rcv' = [rcv EXCEPT !.got = g, !.terminated = t] /\ UNCHANGED room
    BY <1>1 DEF SendEvent
  <2>2. g \in Nat /\ t \in BOOLEAN
    BY <1>0
  <2> HIDE DEF t
  <2>3. rcv' \in ReceiverSet /\ rcv'.mode = rcv.mode /\ rcv'.got = g /\ rcv'.terminated = t
    BY <1>0, <2>1, <2>2 DEF ReceiverSet
  <2>4. t => ev = "Terminated"
    BY DEF t
  <2> QED
    BY <1>0, <1>1, <2>1, <2>3, <2>4
<1>2. CASE rcv.mode # "reading"
  <2>1. room > 0 /\ room' = room - 1 /\ rcv' = rcv
    BY <1>2 DEF MaySend, SendEvent
  <2>2. room' \in 0 .. EventCapacity
    BY <1>0, <2>1, EngineAssumption
  <2> QED
    BY <1>0, <1>2, <2>1, <2>2
<1> QED
  BY <1>1, <1>2

(* Events and lines move while the pump is in its loop.                    *)
LEMMA LoopKeeps ==
  ASSUME EngineInv, StallFires \/ DeliverPending \/ EventsClosed \/ NextLine
  PROVE  EngineInv'
<1>0. pump \in PumpSet /\ pipe \in PipeSet /\ rcv \in ReceiverSet
  BY DEF EngineInv, PumpTyped, ChannelsTyped
<1>1. /\ UNCHANGED <<windows, tree, hit, record, term, ctrl, call>>
      /\ pump.pc \in {"loop", "wait", "flush"} /\ (~EventsClosed => pump.pc = "loop")
  BY DEF StallFires, DeliverPending, EventsClosed, NextLine, InLoop, Selecting
<1>2. /\ pump' \in PumpSet /\ pump'.pc = pump.pc /\ pump'.finished = pump.finished
      /\ pump'.helper = pump.helper /\ pump'.target = pump.target
      /\ pump'.launched = pump.launched
  <2>1. CASE StallFires \/ DeliverPending \/ EventsClosed
    <3>1. CASE StallFires
      BY <1>0, <3>1 DEF StallFires, PumpSet
    <3>2. CASE DeliverPending
      BY <1>0, <3>2 DEF DeliverPending, PumpSet
    <3>3. CASE EventsClosed
      BY ZenonT(40), <1>0, <3>3 DEF EventsClosed, PumpSet
    <3> QED
      BY <2>1, <3>1, <3>2, <3>3
  <2>2. CASE NextLine
    BY <1>0, <2>2, ZenonT(60) DEF NextLine, PumpSet
  <2> QED
    BY <2>1, <2>2
<1>3. Witnessed' /\ HelperOwned'
  BY <1>1, <1>2 DEF EngineInv, Witnessed, HelperOwned
<1>4. /\ pipe.lines \in Nat /\ pipe.written \in Nat /\ rcv.got \in Nat /\ MaxLines \in Nat
      /\ pipe.lines <= pipe.written /\ pipe.written <= MaxLines
  BY <1>0, EngineAssumption DEF PipeSet, ReceiverSet, EngineInv, Delivery
<1>5. CASE StallFires \/ EventsClosed
  <2>1. /\ UNCHANGED <<pipe, room, rcv>> /\ rcv.mode # "reading" /\ ~pump'.pending
    BY <1>0, <1>5 DEF StallFires, EventsClosed, PumpSet
  <2>2. TreeTyped' /\ PumpTyped' /\ ChannelsTyped' /\ Recorded'
    BY <1>1, <1>2, <2>1 DEF EngineInv, TreeTyped, PumpTyped, ChannelsTyped, Recorded
  <2>3. Delivery'
    BY <1>2, <2>1 DEF EngineInv, Delivery
  <2> QED
    BY <1>3, <2>2, <2>3 DEF EngineInv
<1>6. CASE DeliverPending
  <2>1. /\ UNCHANGED pipe /\ MaySend /\ SendEvent("line") /\ pump.pending /\ ~pump'.pending
        /\ pump'.evOpen = pump.evOpen /\ pump'.drop = pump.drop /\ pump.pc = "loop"
    BY <1>0, <1>6 DEF DeliverPending, PumpSet, InLoop
  <2>2. /\ rcv' \in ReceiverSet /\ rcv'.mode = rcv.mode /\ room' \in 0 .. EventCapacity
        /\ rcv.mode = "reading" => rcv'.got = rcv.got + 1 /\ ~rcv'.terminated
        /\ rcv.mode # "reading" => rcv' = rcv
    BY <2>1, SendTyped
  <2>3. TreeTyped' /\ PumpTyped' /\ ChannelsTyped'
    BY <1>1, <1>2, <2>1, <2>2 DEF EngineInv, TreeTyped, PumpTyped, ChannelsTyped
  <2>4. Recorded'
    BY <1>1, <1>2, <2>1, <2>2 DEF EngineInv, Recorded
  <2>5. InFlight = 1 /\ InFlight' = 0
    BY <2>1 DEF InFlight
  <2>6. Delivery'
    BY <1>2, <1>4, <2>1, <2>2, <2>5 DEF EngineInv, Delivery, Over
  <2> QED
    BY <1>3, <2>3, <2>4, <2>6 DEF EngineInv
<1>7. CASE NextLine
  <2>1. /\ UNCHANGED <<room, rcv>> /\ pump.pc = "loop" /\ ~pump.pending
        /\ pipe' = [pipe EXCEPT !.lines = pipe.lines - 1] /\ pipe.lines > 0
    BY <1>7 DEF NextLine, InLoop
  <2>2. pipe.lines - 1 \in Nat
    BY <1>4, <2>1
  <2>3. /\ pipe' \in PipeSet /\ pipe'.lines = pipe.lines - 1 /\ pipe'.written = pipe.written
    BY <1>0, <2>1, <2>2 DEF PipeSet
  <2>4. TreeTyped' /\ PumpTyped' /\ ChannelsTyped' /\ Recorded'
    BY <1>1, <1>2, <2>1, <2>3 DEF EngineInv, TreeTyped, PumpTyped, ChannelsTyped, Recorded
  <2>5. ASSUME rcv.mode = "reading"
        PROVE  ~pump'.drop /\ pump'.evOpen /\ InFlight = 0 /\ InFlight' = 1
    <3>1. ~pump.drop /\ pump.evOpen
      BY <2>5 DEF EngineInv, Delivery
    <3>2. pump' = [pump EXCEPT !.pending = TRUE, !.stall = pump.dying]
      BY <1>7, <3>1 DEF NextLine
    <3>3. pump'.pending /\ pump'.drop = pump.drop /\ pump'.evOpen = pump.evOpen
      BY <1>0, <3>2 DEF PumpSet
    <3> QED
      BY <2>1, <3>1, <3>3 DEF InFlight
  <2>6. pipe'.lines <= pipe'.written /\ pipe'.written <= MaxLines
    BY <1>4, <2>3
  <2>7. rcv'.mode = "reading" =>
          ~pump'.drop /\ pump'.evOpen /\ rcv'.got + pipe'.lines + InFlight' = pipe'.written
    BY <1>4, <2>1, <2>3, <2>5 DEF EngineInv, Delivery
  <2>8. Delivery'
    BY <1>2, <2>1, <2>6, <2>7 DEF Delivery, Over
  <2> QED
    BY <1>3, <2>4, <2>8 DEF EngineInv
<1> QED
  BY <1>5, <1>6, <1>7

(* The end of the pump: the stream is drained, the record goes, and only   *)
(* then Terminated is sent.                                                *)
LEMMA EndsKeep ==
  ASSUME EngineInv, StreamEnds \/ CleanUp \/ FlushOne \/ FlushStalls \/ PumpEnds
  PROVE  EngineInv'
<1>0. pump \in PumpSet
  BY DEF EngineInv, PumpTyped
<1>1. UNCHANGED <<windows, tree, pipe, term, ctrl, call>> /\ hit' \subseteq Members
  BY DEF StreamEnds, CleanUp, FlushOne, FlushStalls, PumpEnds, Living, EngineInv, TreeTyped
<1>2. CASE StreamEnds
  <2>1. PICK pc \in {"cleanup", "wait"} :
          pump' = [pump EXCEPT !.pc = pc] /\ (pc = "cleanup" => pump.finished)
    BY <1>2 DEF StreamEnds
  <2>2. /\ UNCHANGED <<record, room, rcv>> /\ pump.pc = "loop" /\ ~pump.pending
        /\ pipe.lines = 0 /\ ~pipe.child
    BY <1>2 DEF StreamEnds, InLoop
  <2>3. /\ pump' \in PumpSet /\ pump'.pc = pc /\ pump'.pending = pump.pending
        /\ pump'.evOpen = pump.evOpen /\ pump'.drop = pump.drop /\ pump'.launched = pump.launched
        /\ pump'.finished = pump.finished /\ pump'.target = pump.target
        /\ pump'.helper = pump.helper
    BY <1>0, <2>1 DEF PumpSet, PumpPcs
  <2>4. TreeTyped' /\ PumpTyped' /\ ChannelsTyped'
    BY <1>1, <2>2, <2>3 DEF EngineInv, TreeTyped, PumpTyped, ChannelsTyped
  <2>5. Witnessed' /\ Recorded' /\ HelperOwned'
    BY <1>1, <2>1, <2>2, <2>3 DEF EngineInv, Witnessed, Recorded, HelperOwned, Over
  <2>6. Delivery'
    BY <1>1, <2>2, <2>3 DEF EngineInv, Delivery, InFlight
  <2> QED
    BY <2>4, <2>5, <2>6 DEF EngineInv
<1>3. CASE CleanUp
  <2> DEFINE l == IF pump.dropped THEN 2 ELSE 1
  <2>1. /\ pump' = [pump EXCEPT !.pc = "flush", !.left = l] /\ l \in Nat
        /\ UNCHANGED <<room, rcv>> /\ pump.pc = "cleanup" /\ record' \in BOOLEAN /\ ~record'
    BY <1>3 DEF CleanUp
  <2> HIDE DEF l
  <2>2. /\ pump' \in PumpSet /\ pump'.pc = "flush" /\ pump'.pending = pump.pending
        /\ pump'.evOpen = pump.evOpen /\ pump'.drop = pump.drop /\ pump'.launched = pump.launched
        /\ pump'.finished = pump.finished /\ pump'.target = pump.target
        /\ pump'.helper = pump.helper
    BY <1>0, <2>1 DEF PumpSet, PumpPcs
  <2>3. TreeTyped' /\ PumpTyped' /\ ChannelsTyped'
    BY <1>1, <2>1, <2>2 DEF EngineInv, TreeTyped, PumpTyped, ChannelsTyped
  <2>4. Witnessed' /\ Recorded' /\ HelperOwned'
    BY <1>1, <2>1, <2>2 DEF EngineInv, Witnessed, Recorded, HelperOwned, Over
  <2>5. Delivery'
    BY <1>1, <2>1, <2>2 DEF EngineInv, Delivery, InFlight, Over
  <2> QED
    BY <2>3, <2>4, <2>5 DEF EngineInv
<1>4. CASE FlushOne \/ FlushStalls \/ PumpEnds
  <2>1. /\ pump' \in PumpSet /\ pump'.pc \in {"flush", "done"} /\ pump'.pending = pump.pending
        /\ pump'.drop = pump.drop /\ pump'.launched = pump.launched
        /\ pump'.finished = pump.finished
        /\ (pump'.target => pump.target) /\ (pump'.helper = "running" => pump.helper = "running")
        /\ pump.pc = "flush" /\ (rcv.mode = "reading" => pump'.evOpen = pump.evOpen)
    <3>1. CASE FlushOne
      <4>1. pump' = [pump EXCEPT !.left = pump.left - 1] /\ pump.left > 0 /\ pump.pc = "flush"
        BY <3>1 DEF FlushOne
      <4>2. pump.left - 1 \in Nat
        BY <1>0, <4>1 DEF PumpSet
      <4> QED
        BY <1>0, <4>1, <4>2 DEF PumpSet
    <3>2. CASE FlushStalls
      BY <1>0, <3>2 DEF FlushStalls, PumpSet
    <3>3. CASE PumpEnds
      BY <1>0, <3>3 DEF PumpEnds, PumpSet, PumpPcs
    <3> QED
      BY <1>4, <3>1, <3>2, <3>3
  <2>2. /\ rcv' \in ReceiverSet /\ rcv'.mode = rcv.mode /\ room' \in 0 .. EventCapacity
        /\ rcv'.got = rcv.got /\ UNCHANGED record
    <3>1. CASE FlushOne
      <4>1. PICK ev \in {"Terminated", "Error"} : MaySend /\ SendEvent(ev) /\ UNCHANGED record
        BY <3>1 DEF FlushOne
      <4> QED
        BY <4>1, SendTyped
    <3>2. CASE FlushStalls \/ PumpEnds
      BY <3>2 DEF FlushStalls, PumpEnds, EngineInv, ChannelsTyped
    <3> QED
      BY <1>4, <3>1, <3>2
  <2>3. TreeTyped' /\ PumpTyped' /\ ChannelsTyped'
    BY <1>1, <2>1, <2>2 DEF EngineInv, TreeTyped, PumpTyped, ChannelsTyped
  <2>4. Witnessed' /\ Recorded' /\ HelperOwned'
    BY <1>1, <2>1, <2>2 DEF EngineInv, Witnessed, Recorded, HelperOwned, Over
  <2>5. Delivery'
    BY <1>1, <2>1, <2>2 DEF EngineInv, Delivery, InFlight, Over
  <2> QED
    BY <2>3, <2>4, <2>5 DEF EngineInv
<1> QED
  BY <1>2, <1>3, <1>4

(* The receiver stops reading, or goes away.                               *)
LEMMA ReceiverKeeps ==
  ASSUME EngineInv, NEW mode \in {"stalled", "dropped"}, NEW free \in 0 .. EventCapacity,
         Receiver(mode, free)
  PROVE  EngineInv'
<1>1. /\ rcv' = [rcv EXCEPT !.mode = mode] /\ room' = free
      /\ UNCHANGED <<windows, tree, hit, pipe, record, pump, term, ctrl, call>>
  BY DEF Receiver
<1>2. /\ rcv' \in ReceiverSet /\ rcv'.mode # "reading" /\ rcv'.terminated = rcv.terminated
  BY <1>1 DEF EngineInv, ChannelsTyped, ReceiverSet
<1>3. TreeTyped' /\ PumpTyped' /\ ChannelsTyped'
  BY <1>1, <1>2 DEF EngineInv, TreeTyped, PumpTyped, ChannelsTyped
<1>4. Witnessed' /\ Recorded' /\ HelperOwned' /\ Delivery'
  BY <1>1, <1>2 DEF EngineInv, Witnessed, Recorded, HelperOwned, Delivery
<1> QED
  BY <1>3, <1>4 DEF EngineInv

(* A process that is about to be spawned.                                  *)
LEMMA EngineInitially == EngineInit => EngineInv
<1> SUFFICES ASSUME EngineInit PROVE EngineInv
  OBVIOUS
<1> USE EngineAssumption
<1>1. NewPump \in PumpSet
  BY DEF NewPump, PumpSet, PumpPcs
<1>2. TreeTyped /\ PumpTyped
  BY <1>1 DEF EngineInit, TreeTyped, PumpTyped, PipeSet
<1>3. ChannelsTyped
  BY DEF EngineInit, ChannelsTyped, ReceiverSet, CallSet
<1>4. Witnessed /\ Recorded /\ HelperOwned
  BY DEF EngineInit, Witnessed, Recorded, HelperOwned, NewPump, Over
<1>5. Delivery
  BY DEF EngineInit, Delivery, InFlight, NewPump, Over
<1> QED
  BY <1>2, <1>3, <1>4, <1>5 DEF EngineInv

(* Every step of the pump, the tree and the callers keeps it.              *)
LEMMA EngineSteps == EngineInv /\ [EngineNext]_evars => EngineInv'
<1> SUFFICES ASSUME EngineInv, [EngineNext]_evars PROVE EngineInv'
  OBVIOUS
<1>1. CASE PumpStep
  <2>1. ASSUME NEW w \in BOOLEAN, NEW x \in BOOLEAN,
               \/ CtrlKill(w) \/ Abandon(w) \/ DeadlineFires(w)
               \/ CtrlGraceful(x, w) \/ CtrlBreak(x, w) \/ HelperEnds(x, w)
        PROVE  EngineInv'
    BY <2>1, CtrlKillKeeps, TimersKeep, CtrlGracefulKeeps, CtrlBreakKeeps
  <2>2. CASE RecordPid \/ RecordFails \/ SpawnReturnsErr
    BY <2>2, SpawnKeeps
  <2>3. CASE CtrlClosed
    BY <2>3, TimersKeep
  <2>4. CASE FinishInLoop \/ FinishAfterLoop
    BY <2>4, FinishKeeps
  <2>5. CASE StallFires \/ DeliverPending \/ EventsClosed \/ NextLine
    BY <2>5, LoopKeeps
  <2>6. CASE StreamEnds \/ CleanUp \/ FlushOne \/ FlushStalls \/ PumpEnds
    BY <2>6, EndsKeep
  <2> QED
    BY <1>1, <2>1, <2>2, <2>3, <2>4, <2>5, <2>6 DEF PumpStep
<1>2. ASSUME NEW t \in BOOLEAN, StartChild(t) PROVE EngineInv'
  BY <1>2, SpawnKeeps
<1>3. ASSUME NEW i \in BOOLEAN, NEW m \in Members, Forks(i) \/ Prints \/ ClosesOutput \/ Dies(m)
      PROVE  EngineInv'
  BY <1>3, TreeKeeps
<1>4. ASSUME NEW c \in Callers, NEW op \in Ops,
             Sends(c, op) \/ ReplyDropped(c) \/ Waited(c) \/ GivesUp(c)
      PROVE  EngineInv'
  BY <1>4, CallersKeep
<1>5. CASE DropHandles
  BY <1>5 DEF DropHandles, EngineInv, TreeTyped, PumpTyped, ChannelsTyped, Witnessed, Recorded,
              HelperOwned, Delivery, InFlight
<1>6. ASSUME NEW n \in 0 .. EventCapacity, Receiver("stalled", n) \/ Receiver("dropped", n)
      PROVE  EngineInv'
  BY <1>6, ReceiverKeeps
<1>7. CASE UNCHANGED evars
  BY <1>7 DEF evars, EngineInv, TreeTyped, PumpTyped, ChannelsTyped, Witnessed, Recorded,
              HelperOwned, Delivery, InFlight
<1>8. EventCapacity \in 0 .. EventCapacity /\ "child" \in Members /\ "kill" \in Ops
  BY EngineAssumption DEF Members, Ops
<1> QED
  BY <1>1, <1>2, <1>3, <1>4, <1>5, <1>6, <1>7, <1>8 DEF EngineNext

(* The invariant of the engine is inductive.                               *)
THEOREM EngineInvariant == EngineSpec => []EngineInv
  BY EngineInitially, EngineSteps, PTL DEF EngineSpec

(* The invariant bounds the engine's channels.                             *)
LEMMA EngineShape == EngineInv => EngineTypeOK
<1> SUFFICES ASSUME EngineInv PROVE EngineTypeOK
  OBVIOUS
<1>1. pipe.lines \in Nat /\ pipe.written \in Nat /\ pipe.lines <= MaxLines
  BY EngineAssumption DEF EngineInv, PumpTyped, PipeSet, Delivery
<1> QED
  BY <1>1 DEF EngineInv, EngineTypeOK, TreeTyped, PumpTyped, PumpSet, PumpPcs, ChannelsTyped

(* EngineTypeOK: no channel exceeds its capacity.                          *)
THEOREM EngineTypes == EngineSpec => []EngineTypeOK
  BY EngineShape, EngineInvariant, PTL

(* KillProven: kill and graceful_kill return Ok only after the child's     *)
(* death was seen, also when the pump ended with the request unanswered.   *)
THEOREM KillIsProof == EngineSpec => []KillProven
<1>1. EngineInv => KillProven
  BY DEF EngineInv, Witnessed, KillProven
<1> QED
  BY <1>1, EngineInvariant, PTL

(* The invariant ties the record to the child.                             *)
LEMMA RecordTracked == EngineInv => RecordTracksChild
  BY DEF EngineInv, PumpTyped, PumpSet, PumpPcs, Witnessed, Recorded, Over, RecordTracksChild,
         Spawned

(* RecordTracksChild: the pid record is there while the child runs, and    *)
(* gone before anyone hears Terminated.                                    *)
THEOREM RecordTracks == EngineSpec => []RecordTracksChild
  BY RecordTracked, EngineInvariant, PTL

(* After Terminated nothing is in flight.                                  *)
LEMMA AllDelivered == EngineInv => NothingLost
<1> SUFFICES ASSUME EngineInv, rcv.terminated, rcv.mode = "reading"
             PROVE  rcv.got = pipe.written
  BY DEF NothingLost
<1>1. pump.pc \in Over /\ rcv.got \in Nat
  BY DEF EngineInv, Recorded, Over, ChannelsTyped, ReceiverSet
<1>2. pipe.lines = 0 /\ ~pump.pending /\ rcv.got + pipe.lines + InFlight = pipe.written
  BY <1>1 DEF EngineInv, Delivery
<1>3. InFlight = 0
  BY <1>2 DEF InFlight
<1> QED
  BY <1>1, <1>2, <1>3

(* NothingLost: a receiver that keeps reading has every line when it hears *)
(* Terminated.                                                             *)
THEOREM OutputComplete == EngineSpec => []NothingLost
  BY AllDelivered, EngineInvariant, PTL

(* HelperOwned: the console helper only runs against the child's own pid,  *)
(* and once.                                                               *)
THEOREM HelperIsOwned == EngineSpec => []HelperOwned
<1>1. EngineInv => HelperOwned
  BY DEF EngineInv
<1> QED
  BY <1>1, EngineInvariant, PTL

-----------------------------------------------------------------------------
(***************************************************************************)
(* The legacy core instance                                                *)
(***************************************************************************)
RunPcs == {"reap", "spawn", "record", "hold"}
KillPcs == {"ask", "graceful", "force", "forced", "forget"}
UserSet == [op: {"none", "run", "kill"}, pc: {"idle"} \union RunPcs \union KillPcs,
            kid: 0 .. MaxKids, polls: 0 .. MaxPolls - 1, result: {"none", "Ok", "Err"}]
SharedSet == [state: {"Stopped", "Running"}, held: 0 .. MaxKids, dropped: BOOLEAN]

KidsTyped ==
  /\ kids \in [Kids -> {"none", "alive", "stubborn", "dead"}]
  /\ doomed \subseteq Kids /\ asked \subseteq Kids /\ lost \subseteq Kids
  /\ pidFile \in 0 .. MaxKids /\ legacyFaults \in 0 .. MaxLegacyFaults
UserTyped == user \in UserSet /\ shared \in SharedSet

(* Children are started in the order of their numbers, so that a run that  *)
(* was let in finds one to start.                                          *)
Numbered ==
  /\ \E n \in 0 .. MaxKids : \A k \in Kids : kids[k] = "none" <=> k > n
  /\ user.pc \in {"reap", "spawn"} => kids[MaxKids] = "none"

(* What the call in progress knows of its child.                           *)
CallKnows(u) ==
  /\ u.pc \in RunPcs => u.op = "run"
  /\ u.pc \in KillPcs => u.op = "kill" /\ u.kid # 0 /\ u.result = "none"
  /\ u.pc = "record" => u.kid # 0
  /\ u.pc = "forget" \/ (u.op = "kill" /\ u.result = "Ok") => u.kid # 0 /\ ~Lives(u.kid)

(* A child that lives, is not condemned and has a record is the one the    *)
(* file names, or the one about to be recorded.                            *)
OneRecord ==
  /\ user.pc \in {"spawn", "record"} => pidFile = 0
  /\ \A k \in Kids : Lives(k) /\ k \notin doomed \union lost =>
       k = pidFile \/ (user.pc = "record" /\ k = user.kid)

LegacyInv == KidsTyped /\ UserTyped /\ Numbered /\ CallKnows(user) /\ OneRecord

(* What a call changes when it moves on, and when it returns.              *)
LEMMA CallFields ==
  ASSUME UserTyped, NEW p \in {"idle"} \union RunPcs \union KillPcs, NEW r \in {"none", "Ok", "Err"}
  PROVE  /\ Calls(p) => /\ user' \in UserSet /\ user'.pc = p /\ user'.op = user.op
                        /\ user'.kid = user.kid /\ user'.result = user.result
         /\ Returns(r) => /\ user' \in UserSet /\ user'.pc = "idle" /\ user'.op = user.op
                          /\ user'.kid = user.kid /\ user'.result = r
<1>1. 0 \in 0 .. MaxPolls - 1
  BY LegacyAssumption
<1> QED
  BY <1>1 DEF UserTyped, UserSet, Calls, Returns

(* A failing call is counted within its bound.                             *)
LEMMA FaultCounted ==
  ASSUME legacyFaults \in 0 .. MaxLegacyFaults, LegacyFault
  PROVE  legacyFaults' \in 0 .. MaxLegacyFaults
BY LegacyAssumption DEF LegacyFault

(* A step of the call that leaves the children alone.                      *)
LEMMA UserMoves ==
  ASSUME LegacyInv, user' \in UserSet, shared' \in SharedSet, UNCHANGED kids,
         legacyFaults' \in 0 .. MaxLegacyFaults, pidFile' \in 0 .. MaxKids,
         asked' \subseteq Kids, doomed' \subseteq Kids, lost' \subseteq Kids,
         doomed \subseteq doomed', lost \subseteq lost', CallKnows(user)',
         user'.pc \in {"reap", "spawn"} => kids[MaxKids] = "none",
         OneRecord'
  PROVE  LegacyInv'
<1>1. KidsTyped' /\ UserTyped'
  BY DEF LegacyInv, KidsTyped, UserTyped
<1>2. Numbered'
  BY DEF LegacyInv, Numbered
<1> QED
  BY <1>1, <1>2 DEF LegacyInv

(* A child that ends: nobody learns less of it.                            *)
LEMMA KidExitsKeeps ==
  ASSUME LegacyInv, NEW k \in Kids, KidExits(k)
  PROVE  LegacyInv'
<1>1. /\ kids' \in [Kids -> {"none", "alive", "stubborn", "dead"}] /\ kids'[k] = "dead"
      /\ kids[k] # "none" /\ \A x \in Kids : x # k => kids'[x] = kids[x]
      /\ UNCHANGED <<doomed, asked, shared, pidFile, user, lost, legacyFaults>>
  BY DEF KidExits, LegacyInv, KidsTyped, Lives
<1>2. KidsTyped' /\ UserTyped'
  BY <1>1 DEF LegacyInv, KidsTyped, UserTyped
<1>3. \A x \in Kids : (kids'[x] = "none" <=> kids[x] = "none") /\ (Lives(x)' => Lives(x))
  BY <1>1 DEF Lives
<1>4. Numbered'
  <2>1. PICK n \in 0 .. MaxKids : \A x \in Kids : kids[x] = "none" <=> x > n
    BY DEF LegacyInv, Numbered
  <2>2. \A x \in Kids : kids'[x] = "none" <=> x > n
    BY <1>3, <2>1
  <2>3. MaxKids \in Kids
    BY LegacyAssumption DEF Kids
  <2> QED
    BY <1>1, <1>3, <2>2, <2>3 DEF LegacyInv, Numbered
<1>5. CallKnows(user)'
  <2>1. user.kid \in 0 .. MaxKids /\ (user.kid # 0 => user.kid \in Kids)
    BY LegacyAssumption DEF LegacyInv, UserTyped, UserSet, Kids
  <2> QED
    BY <1>1, <1>3, <2>1 DEF LegacyInv, CallKnows
<1>6. OneRecord'
  BY <1>1, <1>3 DEF LegacyInv, OneRecord
<1> QED
  BY <1>2, <1>4, <1>5, <1>6 DEF LegacyInv

(* The threads of a run write the shared state and nothing of the call.    *)
LEMMA ThreadKeeps ==
  ASSUME LegacyInv, NEW k \in Kids, Thread(k)
  PROVE  LegacyInv'
<1>1. /\ shared' \in SharedSet
      /\ UNCHANGED <<kids, doomed, asked, pidFile, user, lost, legacyFaults>>
  BY DEF Thread, WaiterWakes, WaiterReports, CheckerLooks, CheckerPasses, LegacyInv, UserTyped,
         SharedSet
<1>2. CallKnows(user)' /\ OneRecord'
  BY <1>1 DEF LegacyInv, CallKnows, OneRecord, Lives
<1> QED
  BY <1>1, <1>2, UserMoves DEF LegacyInv, KidsTyped, UserTyped, Numbered

(* A new run, a new kill, and the end of the instance.                     *)
LEMMA EntryKeeps ==
  ASSUME LegacyInv, RunCheck \/ KillTake \/ DropInstance
  PROVE  LegacyInv'
<1>0. 0 \in 0 .. MaxPolls - 1 /\ 0 \in 0 .. MaxKids
  BY LegacyAssumption
<1>1. CASE RunCheck
  <2>1. /\ user' \in UserSet /\ user'.op = "run" /\ user'.pc \in {"idle", "reap"}
        /\ kids[MaxKids] = "none"
    BY <1>0, <1>1 DEF RunCheck, NoCall, UserSet, RunPcs, KillPcs
  <2>2. UNCHANGED <<kids, doomed, asked, shared, pidFile, lost, legacyFaults>> /\ user.pc = "idle"
    BY <1>1 DEF RunCheck, At
  <2>3. CallKnows(user)' /\ OneRecord'
    BY <2>1, <2>2 DEF LegacyInv, CallKnows, OneRecord, Lives, RunPcs, KillPcs
  <2> QED
    BY <2>1, <2>2, <2>3, UserMoves DEF LegacyInv, KidsTyped, UserTyped
<1>2. CASE KillTake
  <2>1. /\ user' \in UserSet /\ user'.op = "kill" /\ user'.kid = shared.held
        /\ IF shared.held = 0 THEN user'.pc = "idle" /\ user'.result = "Err"
           ELSE user'.pc = "ask" /\ user'.result = "none"
    BY <1>0, <1>2 DEF KillTake, NoCall, UserSet, RunPcs, KillPcs, LegacyInv, UserTyped, SharedSet
  <2>2. UNCHANGED <<kids, doomed, asked, shared, pidFile, lost, legacyFaults>> /\ user.pc = "idle"
    BY <1>2 DEF KillTake, At
  <2>3. CallKnows(user)' /\ OneRecord'
    BY <2>1, <2>2 DEF LegacyInv, CallKnows, OneRecord, Lives, RunPcs, KillPcs
  <2> QED
    BY <2>1, <2>2, <2>3, UserMoves DEF LegacyInv, KidsTyped, UserTyped
<1>3. CASE DropInstance
  <2>1. /\ UNCHANGED <<kids, asked, pidFile, user, lost, legacyFaults>> /\ shared' \in SharedSet
        /\ doomed \subseteq doomed' /\ doomed' \subseteq Kids
    <3>1. shared.held # 0 => shared.held \in Kids
      BY LegacyAssumption DEF LegacyInv, UserTyped, SharedSet, Kids
    <3> QED
      BY <1>0, <1>3, <3>1 DEF DropInstance, LegacyInv, KidsTyped, UserTyped, SharedSet
  <2>2. CallKnows(user)' /\ OneRecord'
    BY <2>1 DEF LegacyInv, CallKnows, OneRecord, Lives
  <2> QED
    BY <2>1, <2>2, UserMoves DEF LegacyInv, KidsTyped, UserTyped, Numbered
<1> QED
  BY <1>1, <1>2, <1>3

(* What the file names is condemned before the file goes.                  *)
LEMMA RunReapKeeps ==
  ASSUME LegacyInv, RunReap
  PROVE  LegacyInv'
<1>1. user.pc = "reap" /\ pidFile' = 0 /\ UNCHANGED <<kids, asked, shared, lost, legacyFaults>>
  BY DEF RunReap, At
<1>2. /\ user' \in UserSet /\ user'.pc = "spawn" /\ user'.op = user.op /\ user'.kid = user.kid
      /\ user'.result = user.result
  BY CallFields DEF RunReap, LegacyInv, RunPcs
<1>3. /\ doomed \subseteq doomed' /\ doomed' \subseteq Kids
      /\ pidFile # 0 /\ Lives(pidFile) => pidFile \in doomed'
  <2>1. pidFile # 0 => pidFile \in Kids
    BY LegacyAssumption DEF LegacyInv, KidsTyped, Kids
  <2> QED
    BY <2>1 DEF RunReap, LegacyInv, KidsTyped
<1>4. CallKnows(user)'
  BY <1>1, <1>2 DEF LegacyInv, CallKnows, Lives, RunPcs, KillPcs
<1>5. OneRecord'
  <2>1. \A k \in Kids : k # 0
    BY LegacyAssumption DEF Kids
  <2> QED
    BY <1>1, <1>2, <1>3, <2>1 DEF LegacyInv, OneRecord, Lives
<1>6. 0 \in 0 .. MaxKids /\ kids[MaxKids] = "none"
  BY <1>1, LegacyAssumption DEF LegacyInv, Numbered
<1> QED
  BY <1>1, <1>2, <1>3, <1>4, <1>5, <1>6, UserMoves DEF LegacyInv, KidsTyped, UserTyped

(* The next child starts; there is one, or the run had not been let in.    *)
LEMMA RunSpawnKeeps ==
  ASSUME LegacyInv, NEW mood \in {"alive", "stubborn"}, RunSpawn(mood)
  PROVE  LegacyInv'
<1> DEFINE next(x) == kids[x] = "none" /\ \A y \in 1 .. x - 1 : kids[y] # "none"
           k == CHOOSE x \in Kids : next(x)
<1>1. PICK n \in 0 .. MaxKids : \A x \in Kids : kids[x] = "none" <=> x > n
  BY DEF LegacyInv, Numbered
<1>2. user.pc = "spawn" /\ kids[MaxKids] = "none" /\ MaxKids \in Kids /\ pidFile = 0
  BY LegacyAssumption DEF RunSpawn, At, LegacyInv, Numbered, OneRecord, Kids
<1>3. n + 1 \in Kids /\ next(n + 1)
  <2>1. n < MaxKids /\ n \in Nat
    BY <1>1, <1>2, LegacyAssumption
  <2>2. n + 1 \in Kids /\ \A y \in 1 .. (n + 1) - 1 : y \in Kids /\ ~(y > n)
    BY <2>1, LegacyAssumption DEF Kids
  <2> QED
    BY <1>1, <2>1, <2>2
<1>4. k \in Kids /\ next(k)
  BY <1>3
<1>5. /\ kids' = [kids EXCEPT ![k] = mood]
      /\ user' = [user EXCEPT !.pc = "record", !.kid = k]
      /\ UNCHANGED <<doomed, asked, shared, pidFile, lost, legacyFaults>>
  BY DEF RunSpawn
<1> HIDE DEF k
<1>6. k = n + 1
  <2>1. ~(k > n + 1)
    BY <1>1, <1>3, <1>4, LegacyAssumption DEF Kids
  <2>2. k > n
    BY <1>1, <1>4
  <2> QED
    BY <1>1, <1>4, <2>1, <2>2, LegacyAssumption DEF Kids
<1> HIDE DEF next
<1>7. /\ kids' \in [Kids -> {"none", "alive", "stubborn", "dead"}] /\ kids'[k] = mood
      /\ \A x \in Kids : x # k => kids'[x] = kids[x]
  BY <1>4, <1>5 DEF LegacyInv, KidsTyped
<1>8. /\ user' \in UserSet /\ user'.pc = "record" /\ user'.kid = k /\ user'.op = user.op
      /\ user'.result = user.result /\ k # 0
  <2>1. k \in 0 .. MaxKids /\ k # 0
    BY <1>4, LegacyAssumption DEF Kids
  <2> QED
    BY <1>5, <2>1 DEF LegacyInv, UserTyped, UserSet, RunPcs
<1>9. KidsTyped' /\ UserTyped'
  BY <1>5, <1>7, <1>8 DEF LegacyInv, KidsTyped, UserTyped
<1>10. Numbered'
  <2>1. \A x \in Kids : kids'[x] = "none" <=> x > n + 1
    BY <1>1, <1>4, <1>6, <1>7, LegacyAssumption DEF Kids
  <2>2. n + 1 \in 0 .. MaxKids
    BY <1>3, LegacyAssumption DEF Kids
  <2> QED
    BY <1>8, <2>1, <2>2 DEF Numbered
<1>11. CallKnows(user)'
  BY <1>2, <1>8 DEF LegacyInv, CallKnows, RunPcs, KillPcs
<1>12. OneRecord'
  BY <1>2, <1>5, <1>7, <1>8 DEF LegacyInv, OneRecord, Lives
<1> QED
  BY <1>9, <1>10, <1>11, <1>12 DEF LegacyInv

(* The rest of a run.                                                      *)
LEMMA RunKeeps ==
  ASSUME LegacyInv, RunSpawnFails \/ RunRecord \/ RunHold
  PROVE  LegacyInv'
<1>0. user.kid \in 0 .. MaxKids /\ (user.kid # 0 => user.kid \in Kids)
  BY LegacyAssumption DEF LegacyInv, UserTyped, UserSet, Kids
<1>1. CASE RunSpawnFails
  <2>1. /\ user' \in UserSet /\ user'.pc = "idle" /\ user'.op = user.op /\ user.pc = "spawn"
        /\ UNCHANGED <<kids, doomed, asked, shared, pidFile, lost>>
    BY <1>1, CallFields DEF RunSpawnFails, At, LegacyInv
  <2>2. legacyFaults' \in 0 .. MaxLegacyFaults
    BY <1>1, FaultCounted DEF RunSpawnFails, LegacyInv, KidsTyped
  <2>3. CallKnows(user)' /\ OneRecord'
    BY <2>1 DEF LegacyInv, CallKnows, OneRecord, Lives, RunPcs, KillPcs
  <2> QED
    BY <2>1, <2>2, <2>3, UserMoves DEF LegacyInv, KidsTyped, UserTyped
<1>2. CASE RunRecord
  <2>1. /\ user' \in UserSet /\ user'.pc = "hold" /\ user'.op = user.op /\ user.pc = "record"
        /\ user'.kid = user.kid /\ UNCHANGED <<kids, doomed, asked, shared>>
    BY <1>2, CallFields DEF RunRecord, At, LegacyInv, RunPcs
  <2>2. /\ pidFile' \in 0 .. MaxKids /\ lost \subseteq lost' /\ lost' \subseteq Kids
        /\ pidFile' = user.kid \/ (user.kid \in lost' /\ pidFile' = pidFile)
        /\ legacyFaults' \in 0 .. MaxLegacyFaults
    <3>1. user.kid \in Kids
      BY <1>0, <2>1 DEF LegacyInv, CallKnows
    <3> QED
      BY <1>0, <1>2, <3>1, FaultCounted DEF RunRecord, LegacyInv, KidsTyped
  <2>3. CallKnows(user)'
    BY <2>1 DEF LegacyInv, CallKnows, Lives, RunPcs, KillPcs
  <2>4. OneRecord'
    <3>1. \A k \in Kids : k # 0
      BY LegacyAssumption DEF Kids
    <3> QED
      BY <2>1, <2>2, <3>1 DEF LegacyInv, OneRecord, Lives
  <2> QED
    BY <2>1, <2>2, <2>3, <2>4, UserMoves DEF LegacyInv, KidsTyped, UserTyped
<1>3. CASE RunHold
  <2>1. /\ user' \in UserSet /\ user'.pc = "idle" /\ user'.op = user.op /\ user.pc = "hold"
        /\ UNCHANGED <<kids, doomed, asked, pidFile, lost, legacyFaults>> /\ shared' \in SharedSet
    BY <1>0, <1>3, CallFields DEF RunHold, At, LegacyInv, UserTyped, SharedSet
  <2>2. CallKnows(user)' /\ OneRecord'
    BY <2>1 DEF LegacyInv, CallKnows, OneRecord, Lives, RunPcs, KillPcs
  <2> QED
    BY <2>1, <2>2, UserMoves DEF LegacyInv, KidsTyped, UserTyped
<1> QED
  BY <1>1, <1>2, <1>3

(* A poll sees the child dead, waits, or gives up.                         *)
LEMMA PollFields ==
  ASSUME UserTyped, user.pc \in KillPcs,
         \/ ~Lives(user.kid) /\ Calls("forget")
         \/ user.polls + 1 < MaxPolls /\ user' = [user EXCEPT !.polls = @ + 1]
         \/ Calls("force") \/ Returns("Err")
  PROVE  /\ user' \in UserSet /\ user'.op = user.op /\ user'.kid = user.kid
         /\ \/ user'.pc = "forget" /\ ~Lives(user.kid) /\ user'.result = user.result
            \/ user'.pc \in {user.pc, "force"} /\ user'.result = user.result
            \/ user'.pc = "idle" /\ user'.result = "Err"
<1>1. CASE user.polls + 1 < MaxPolls /\ user' = [user EXCEPT !.polls = @ + 1]
  <2>1. user.polls + 1 \in 0 .. MaxPolls - 1
    BY <1>1, LegacyAssumption DEF UserTyped, UserSet
  <2> QED
    BY <1>1, <2>1 DEF UserTyped, UserSet
<1>2. CASE ~Lives(user.kid) /\ Calls("forget")
  BY <1>2, CallFields DEF KillPcs
<1>3. CASE Calls("force")
  BY <1>3, CallFields DEF KillPcs
<1>4. CASE Returns("Err")
  BY <1>4, CallFields
<1> QED
  BY <1>1, <1>2, <1>3, <1>4

(* A kill, step by step.                                                   *)
LEMMA KillKeeps ==
  ASSUME LegacyInv, KillAsk \/ KillPoll \/ KillForce \/ KillForcePoll \/ KillForget
  PROVE  LegacyInv'
<1>1. user.pc \in KillPcs /\ user.kid \in Kids /\ UNCHANGED <<kids, pidFile, lost>>
  <2>1. user.pc \in KillPcs /\ UNCHANGED <<kids, pidFile, lost>>
    BY DEF KillAsk, KillPoll, KillForce, KillForcePoll, KillForget, At, KillPcs
  <2>2. user.kid # 0 /\ user.kid \in 0 .. MaxKids
    BY <2>1 DEF LegacyInv, CallKnows, UserTyped, UserSet
  <2> QED
    BY <2>1, <2>2, LegacyAssumption DEF Kids
<1>2. /\ user' \in UserSet /\ user'.op = user.op /\ user'.kid = user.kid
      /\ \/ user'.pc = "forget" /\ ~Lives(user.kid) /\ user'.result = user.result
         \/ user'.pc \in KillPcs \ {"forget"} /\ user'.result = user.result
         \/ user'.pc = "idle" /\ user'.result = "Err"
         \/ user'.pc = "idle" /\ user'.result = "Ok" /\ ~Lives(user.kid)
  <2>1. CASE KillAsk
    BY <2>1, CallFields DEF KillAsk, LegacyInv, KillPcs
  <2>2. CASE KillPoll
    BY <1>1, <2>2, PollFields DEF KillPoll, At, LegacyInv, KillPcs
  <2>3. CASE KillForce
    BY <2>3, CallFields DEF KillForce, LegacyInv, KillPcs
  <2>4. CASE KillForcePoll
    BY <1>1, <2>4, PollFields DEF KillForcePoll, At, LegacyInv, KillPcs
  <2>5. CASE KillForget
    BY <2>5, CallFields DEF KillForget, At, LegacyInv, CallKnows
  <2> QED
    BY <2>1, <2>2, <2>3, <2>4, <2>5
<1>3. /\ shared' \in SharedSet /\ asked' \subseteq Kids /\ doomed \subseteq doomed'
      /\ doomed' \subseteq Kids /\ legacyFaults' \in 0 .. MaxLegacyFaults
  <2>1. 0 \in 0 .. MaxKids
    BY LegacyAssumption
  <2> QED
    BY <1>1, <2>1, FaultCounted
    DEF KillAsk, KillPoll, KillForce, KillForcePoll, KillForget, LegacyInv, KidsTyped, UserTyped,
        SharedSet
<1>4. CallKnows(user)'
  BY <1>1, <1>2 DEF LegacyInv, CallKnows, Lives, RunPcs, KillPcs
<1>5. OneRecord'
  BY <1>1, <1>2, <1>3 DEF LegacyInv, OneRecord, Lives, KillPcs
<1>6. user'.pc \notin {"reap", "spawn"}
  BY <1>2 DEF KillPcs
<1> QED
  BY <1>1, <1>2, <1>3, <1>4, <1>5, <1>6, UserMoves DEF LegacyInv, KidsTyped

(* No child yet and no call.                                               *)
LEMMA LegacyInitially == LegacyInit => LegacyInv
<1> SUFFICES ASSUME LegacyInit PROVE LegacyInv
  OBVIOUS
<1>1. 0 \in 0 .. MaxKids /\ 0 \in 0 .. MaxPolls - 1 /\ 0 \in 0 .. MaxLegacyFaults
  BY LegacyAssumption
<1>2. KidsTyped /\ UserTyped
  BY <1>1 DEF LegacyInit, KidsTyped, UserTyped, NoCall, UserSet, SharedSet
<1>3. \A k \in Kids : kids[k] = "none" <=> k > 0
  BY LegacyAssumption DEF LegacyInit, Kids
<1>4. Numbered /\ CallKnows(user) /\ OneRecord
  BY <1>1, <1>3
  DEF LegacyInit, Numbered, CallKnows, OneRecord, NoCall, RunPcs, KillPcs, Lives
<1> QED
  BY <1>2, <1>4 DEF LegacyInv

(* Every step of a caller, of a child and of its thread keeps it.          *)
LEMMA LegacySteps == LegacyInv /\ [LegacyNext]_yvars => LegacyInv'
<1> SUFFICES ASSUME LegacyInv, [LegacyNext]_yvars PROVE LegacyInv'
  OBVIOUS
<1>1. CASE RunCheck \/ KillTake \/ DropInstance
  BY <1>1, EntryKeeps
<1>2. CASE UserStep
  BY <1>2, RunReapKeeps, RunKeeps, RunSpawnKeeps, KillKeeps DEF UserStep
<1>3. CASE \E k \in Kids : KidExits(k) \/ Thread(k)
  BY <1>3, KidExitsKeeps, ThreadKeeps
<1>4. CASE UNCHANGED yvars
  BY <1>4
  DEF yvars, LegacyInv, KidsTyped, UserTyped, Numbered, CallKnows, OneRecord, Lives
<1> QED
  BY <1>1, <1>2, <1>3, <1>4 DEF LegacyNext

(* The invariant of the legacy instance.                                   *)
THEOREM LegacyInvariant == LegacySpec => []LegacyInv
  BY LegacyInitially, LegacySteps, PTL DEF LegacySpec

(* The invariant gives the legacy instance its shape.                      *)
LEMMA LegacyShape == LegacyInv => LegacyTypeOK
  BY DEF LegacyInv, KidsTyped, UserTyped, UserSet, SharedSet, LegacyTypeOK

(* The state of the legacy instance keeps its shape.                       *)
THEOREM LegacyTypes == LegacySpec => []LegacyTypeOK
  BY LegacyShape, LegacyInvariant, PTL

(* A call that took a child knows its fate.                                *)
LEMMA LegacyKillSaw == LegacyInv => LegacyKillProven
  BY DEF LegacyInv, CallKnows, LegacyKillProven

(* A kill that returned Ok has seen the very child it took die.            *)
THEOREM LegacyKillIsProof == LegacySpec => []LegacyKillProven
  BY LegacyKillSaw, LegacyInvariant, PTL

(* One record, and so one child.                                           *)
LEMMA LegacyAlone == LegacyInv => LegacyOneChild
<1> SUFFICES ASSUME LegacyInv PROVE LegacyOneChild
  OBVIOUS
<1> DEFINE S == {k \in Kids : Lives(k) /\ k \notin doomed \union lost}
           one == IF user.pc = "record" THEN user.kid ELSE pidFile
<1>1. S \subseteq {one}
  <2>1. \A k \in Kids : k # 0
    BY LegacyAssumption DEF Kids
  <2> QED
    BY <2>1 DEF LegacyInv, OneRecord
<1>2. IsFiniteSet({one}) /\ Cardinality({one}) = 1
  BY FS_Singleton
<1>3. Cardinality(S) <= Cardinality({one})
  BY <1>1, <1>2, FS_Subset
<1> QED
  BY <1>2, <1>3 DEF LegacyOneChild

(* However early a second run comes, at most one child lives that is       *)
(* neither condemned nor without a pid file.                               *)
THEOREM LegacyChildAlone == LegacySpec => []LegacyOneChild
  BY LegacyAlone, LegacyInvariant, PTL

-----------------------------------------------------------------------------
(***************************************************************************)
(* All four together, as ProcessSpec runs them.  What is proved of the     *)
(* supervisor is proved for either readiness probe and for kills that may  *)
(* or may not fail, and so also of the timed one.                          *)
(***************************************************************************)
TimedProofs == INSTANCE SupervisorProofs WITH Acknowledged <- FALSE, KillMayFail <- FALSE

WholeInv ==
  /\ (IF focus = "timed" THEN TimedProofs!StormIInv ELSE StormIInv)
  /\ PidInv /\ EngineInv /\ LegacyInv

(* The timed supervisor of the composition is the one of the proofs.       *)
LEMMA TimedIsProved == Timed!Next => TimedProofs!Next
  BY DEF Timed!Next, TimedProofs!Next, Timed!TaskStep, TimedProofs!TaskStep, Timed!KillStep,
         TimedProofs!KillStep, Timed!StopStep, TimedProofs!StopStep, Timed!WatchCancel,
         TimedProofs!WatchCancel, Timed!WatchAlive, TimedProofs!WatchAlive, Timed!WatchAck,
         TimedProofs!WatchAck, Timed!WatchExit, TimedProofs!WatchExit, Timed!Reap,
         TimedProofs!Reap, Timed!Decide, TimedProofs!Decide, Timed!Retry, TimedProofs!Retry,
         Timed!Backoff, TimedProofs!Backoff, Timed!Prepare, TimedProofs!Prepare,
         Timed!Spawn, TimedProofs!Spawn, Timed!SpawnFails, TimedProofs!SpawnFails,
         Timed!AfterFailedSpawn, TimedProofs!AfterFailedSpawn, Timed!Place,
         TimedProofs!Place, Timed!Announce, TimedProofs!Announce, Timed!KillTask,
         TimedProofs!KillTask, Timed!StopTake, TimedProofs!StopTake, Timed!StopKill,
         TimedProofs!StopKill, Timed!StopJoin, TimedProofs!StopJoin, Timed!StopCancel,
         TimedProofs!StopCancel, Timed!CancelRoot, TimedProofs!CancelRoot, Timed!AckCheck,
         TimedProofs!AckCheck, Timed!AckExchange, TimedProofs!AckExchange, Timed!ChildExits,
         TimedProofs!ChildExits, Timed!Tick, TimedProofs!Tick, Timed!StopProcess,
         TimedProofs!StopProcess, Timed!Alive, TimedProofs!Alive, Timed!Children,
         TimedProofs!Children, Timed!Times, TimedProofs!Times, Timed!Emit, TimedProofs!Emit,
         Timed!Ends, TimedProofs!Ends, Timed!BecomesReady, TimedProofs!BecomesReady,
         Timed!InWindow, TimedProofs!InWindow, Timed!OldestInWindow,
         TimedProofs!OldestInWindow, Timed!childVars, TimedProofs!childVars, Timed!taskVars,
         TimedProofs!taskVars, Timed!sharedVars, TimedProofs!sharedVars

(* Whatever has the focus, its step keeps the invariant of the whole.      *)
LEMMA WholeSteps == WholeInv /\ [ProcessNext]_processVars => WholeInv'
<1> SUFFICES ASSUME WholeInv, [ProcessNext]_processVars PROVE WholeInv'
  OBVIOUS
<1>1. focus' = focus
  BY DEF ProcessNext, OnSupervisor, OnTimed, OnReaper, OnEngine, OnLegacy, processVars
<1>2. IF focus = "timed" THEN [Timed!Next]_vars ELSE [Next]_vars
  BY DEF ProcessNext, OnSupervisor, OnTimed, OnReaper, OnEngine, OnLegacy, processVars
<1>3. [PidNext]_pvars /\ [EngineNext]_evars /\ [LegacyNext]_yvars
  BY DEF ProcessNext, OnSupervisor, OnTimed, OnReaper, OnEngine, OnLegacy, processVars
<1>4. PidInv' /\ EngineInv' /\ LegacyInv'
  BY <1>3, PidSteps, EngineSteps, LegacySteps DEF WholeInv
<1>5. focus # "timed" => StormIInv'
  BY <1>2, StormSteps DEF WholeInv
<1>6. focus = "timed" => TimedProofs!StormIInv'
  <2>1. focus = "timed" => [TimedProofs!Next]_vars
    BY <1>2, TimedIsProved
  <2>2. TimedProofs!StormIInv /\ [TimedProofs!Next]_(TimedProofs!vars) => TimedProofs!StormIInv'
    BY SupervisorAssumption, TimedProofs!StormSteps
  <2>3. vars' = vars => TimedProofs!vars' = TimedProofs!vars
    BY DEF vars, childVars, taskVars, sharedVars, TimedProofs!vars,
           TimedProofs!childVars, TimedProofs!taskVars, TimedProofs!sharedVars
  <2> QED BY <2>1, <2>2, <2>3 DEF WholeInv
<1> QED BY <1>1, <1>4, <1>5, <1>6 DEF WholeInv

(* Whichever part has the focus, they all start in order.                  *)
LEMMA WholeInitially == ProcessInit => WholeInv
<1> SUFFICES ASSUME ProcessInit PROVE WholeInv
  OBVIOUS
<1>1. PidInv /\ EngineInv /\ LegacyInv
  BY PidInitially, EngineInitially, LegacyInitially DEF ProcessInit
<1>2. focus # "timed" => StormIInv
  BY StormInitially DEF ProcessInit
<1>3. focus = "timed" => TimedProofs!StormIInv
  <2>1. Timed!Init => TimedProofs!Init
    BY DEF Timed!Init, TimedProofs!Init, Timed!Children, TimedProofs!Children
  <2>2. TimedProofs!Init => TimedProofs!StormIInv
    BY SupervisorAssumption, TimedProofs!StormInitially
  <2> QED BY <2>1, <2>2 DEF ProcessInit
<1> QED BY <1>1, <1>2, <1>3 DEF WholeInv

(* The invariants of the parts hold along every run of them.               *)
THEOREM WholeInvariant == ProcessSpec => []WholeInv
  BY WholeInitially, WholeSteps, PTL DEF ProcessSpec

(***************************************************************************)
(* All that is claimed of the parts at once: shapes and bounds, storms cut *)
(* off, evidence kept, output complete, helpers owned, and legacy kills    *)
(* that have seen their child die.                                         *)
(***************************************************************************)
THEOREM ProcessesCorrect == ProcessSpec => []ProcessInv
<1>1. ASSUME WholeInv PROVE ProcessInv
  <2>1. PidInv /\ EngineInv /\ LegacyInv
    BY <1>1 DEF WholeInv
  <2>2. focus # "timed" => TypeOK /\ StormBounded
    BY <1>1, FewRecent DEF WholeInv, StormIInv, TypeOK
  <2>3. focus = "timed" => Timed!TypeOK /\ StormBounded
    <3> SUFFICES ASSUME focus = "timed" PROVE Timed!TypeOK /\ StormBounded
      OBVIOUS
    <3>1. TimedProofs!StormIInv
      BY <1>1 DEF WholeInv
    <3>2. TimedProofs!Guard /\ TimedProofs!TypeOK
      BY <3>1 DEF TimedProofs!StormIInv
    <3>3. StormBounded
      <4>1. Guard
        BY <3>2 DEF Guard, Popped, TimedProofs!Guard, TimedProofs!Popped
      <4>2. crashes \in Seq(Times) /\ abnormal_exits \in Seq(Times)
        BY <3>2 DEF Times, TimedProofs!Times, TimedProofs!TypeOK
      <4> QED BY <4>1, <4>2, FewRecent
    <3>4. Timed!TypeOK
      BY <3>2 DEF Timed!TypeOK, TimedProofs!TypeOK, Timed!Children, TimedProofs!Children,
                  Timed!Times, TimedProofs!Times
    <3> QED BY <3>3, <3>4
  <2>4. PidTypeOK /\ EvidenceKept
    BY <2>1, PidShape DEF PidInv
  <2>5. EngineTypeOK /\ RecordTracksChild /\ NothingLost /\ HelperOwned
    BY <2>1, EngineShape, RecordTracked, AllDelivered DEF EngineInv
  <2>6. LegacyTypeOK /\ LegacyKillProven /\ LegacyOneChild
    BY <2>1, LegacyShape, LegacyKillSaw, LegacyAlone
  <2> QED BY <2>2, <2>3, <2>4, <2>5, <2>6 DEF ProcessInv
<1>2. WholeInv => ProcessInv
  BY <1>1
<1> QED BY <1>2, WholeInvariant, PTL
=============================================================================
