--------------------------- MODULE SupervisorProofs ---------------------------
(***************************************************************************)
(* Proofs about the supervisor, for any number of children, any restart    *)
(* and storm policy, either readiness probe, and kills that may fail: no   *)
(* child outlives its supervision task or runs beside another, stop leaves *)
(* nothing alive, and Ready is announced only for an acknowledged child.   *)
(***************************************************************************)
EXTENDS Supervisor, FiniteSetTheorems, TLAPS

(* The part of the type invariant that the proofs rest on.                 *)
Typed ==
  /\ child \in [Children -> {"unborn", "alive", "clean", "crashed"}]
  /\ spawned \in Children
  /\ current \in 0 .. MaxChildren /\ kill_task \in 0 .. MaxChildren
  /\ ack \in 0 .. MaxChildren
  /\ stop \in [pc: {"idle", "cancelled", "killing", "join", "ok", "err"},
               failed: BOOLEAN, handle: 0 .. MaxChildren]
  /\ acked \subseteq Children

(* Supervisor::stop returns only after the task.                           *)
StopAfterTask == stop.pc \in {"ok", "err"} => task = "done"

(* What is in the readiness channel was accepted by acknowledge_ready.     *)
AcksInChannel == ready_rx \in Seq(acked)

(* NoStrayChild is inductive by itself; what stop and Ready promise rests   *)
(* on it and on the two facts above.                                       *)
IInv == Typed /\ NoStrayChild /\ StopAfterTask /\ AcksInChannel

(* What stop_process can do to the children: end one of them.              *)
LEMMA StopProcessEnds ==
  ASSUME Typed, NEW n \in 0 .. MaxChildren, NEW ok, StopProcess(n, ok)
  PROVE  /\ child' \in [Children -> {"unborn", "alive", "clean", "crashed"}]
         /\ \A m \in Children : child'[m] = "alive" => child[m] = "alive"
  BY SupervisorAssumption DEF StopProcess, Typed, Alive, Children

(* A step that starts no child, and lets the task leave its child only     *)
(* once that has ended, keeps NoStrayChild.                                *)
LEMMA KeepsNoStray ==
  ASSUME Typed, NoStrayChild, spawned' = spawned,
         \A m \in Children : child'[m] = "alive" => child[m] = "alive",
         \/ task' = task
         \/ task' \in {"place", "announce", "watch"}
         \/ task \notin {"place", "announce", "watch"}
         \/ ~Alive(spawned)
  PROVE  NoStrayChild'
  BY DEF NoStrayChild, Typed, Alive

(* The state spawn() returns in satisfies the invariant.                   *)
LEMMA InitIInv == Init => IInv
<1> SUFFICES ASSUME Init PROVE IInv
  OBVIOUS
<1> USE SupervisorAssumption DEF Init
<1>1. Typed
  BY DEF Typed, Children
<1>2. NoStrayChild
  BY DEF NoStrayChild, Children
<1>3. StopAfterTask /\ AcksInChannel
  BY DEF StopAfterTask, AcksInChannel
<1> QED
  BY <1>1, <1>2, <1>3 DEF IInv

(* The steps of the supervision task keep the invariant.                   *)
LEMMA TaskKeepsIInv == IInv /\ TaskStep => IInv'
<1> SUFFICES ASSUME IInv, TaskStep PROVE IInv'
  OBVIOUS
<1> USE SupervisorAssumption
    DEF IInv, StopAfterTask, AcksInChannel, childVars, sharedVars, Emit, Ends
<1>1. CASE WatchCancel
  <2>1. Typed'
    BY <1>1 DEF WatchCancel, Typed
  <2>2. NoStrayChild'
    BY <1>1, KeepsNoStray DEF WatchCancel
  <2> QED
    BY <1>1, <2>1, <2>2 DEF WatchCancel
<1>2. CASE WatchAlive
  BY <1>2, KeepsNoStray DEF WatchAlive, Typed
<1>3. CASE WatchAck
  <2>1. Typed' /\ NoStrayChild'
    BY <1>3, KeepsNoStray DEF WatchAck, Typed
  <2>2. ready_rx' \in Seq(acked)
    BY <1>3 DEF WatchAck
  <2> QED
    BY <1>3, <2>1, <2>2 DEF WatchAck
<1>4. CASE WatchExit
  BY <1>4, KeepsNoStray DEF WatchExit, Typed
<1>5. CASE Reap
  BY <1>5, KeepsNoStray DEF Reap, Typed
<1>6. CASE Decide
  <2>1. task = "decide" /\ UNCHANGED <<childVars, sharedVars>>
    BY <1>6 DEF Decide
  <2>2. Typed' /\ NoStrayChild'
    BY <2>1, KeepsNoStray DEF Typed
  <2> QED
    BY <2>1, <2>2
<1>7. CASE Retry
  BY <1>7, KeepsNoStray DEF Retry, Typed
<1>8. CASE Backoff
  BY <1>8, KeepsNoStray DEF Backoff, Typed
<1>9. CASE Prepare(TRUE) \/ Prepare(FALSE)
  BY <1>9, KeepsNoStray DEF Prepare, Typed
<1>10. CASE Spawn
  <2>1. \A n \in Children : child[n] # "alive"
    BY <1>10 DEF Spawn, NoStrayChild
  <2>2. Typed'
    BY <1>10 DEF Spawn, Typed, Children
  <2>3. NoStrayChild'
    BY <1>10, <2>1, <2>2 DEF Spawn, NoStrayChild, Typed, Children
  <2> QED
    BY <1>10, <2>2, <2>3 DEF Spawn
<1>11. CASE SpawnFails
  BY <1>11, KeepsNoStray DEF SpawnFails, Typed
<1>12. CASE AfterFailedSpawn
  BY <1>12, KeepsNoStray DEF AfterFailedSpawn, Typed
<1>13. CASE Place
  BY <1>13, KeepsNoStray DEF Place, Typed, Children
<1>14. CASE Announce
  BY <1>14, KeepsNoStray DEF Announce, Typed
<1> QED
  BY <1>1, <1>2, <1>3, <1>4, <1>5, <1>6, <1>7, <1>8, <1>9, <1>10, <1>11, <1>12,
     <1>13, <1>14 DEF TaskStep

(* So do the steps of stop, of the kill task, of acknowledge_ready, of a    *)
(* cancelled root token, of the children and of the clock.                 *)
LEMMA OthersKeepIInv == IInv /\ [Next /\ ~TaskStep]_vars => IInv'
<1> SUFFICES ASSUME IInv, [Next /\ ~TaskStep]_vars PROVE IInv'
  OBVIOUS
<1> USE SupervisorAssumption
    DEF IInv, StopAfterTask, AcksInChannel, childVars, taskVars, sharedVars
<1>1. ASSUME NEW ok \in BOOLEAN, KillTask(ok) PROVE IInv'
  <2>1. Typed' /\ NoStrayChild'
    BY <1>1, StopProcessEnds, KeepsNoStray DEF KillTask, Typed
  <2> QED
    BY <1>1, <2>1 DEF KillTask
<1>2. CASE StopCancel
  BY <1>2, KeepsNoStray DEF StopCancel, Typed
<1>3. CASE StopTake
  <2>1. stop' \in [pc: {"idle", "cancelled", "killing", "join", "ok", "err"},
                    failed: BOOLEAN, handle: 0 .. MaxChildren]
    BY <1>3 DEF StopTake, Typed
  <2>2. Typed'
    BY <1>3, <2>1 DEF StopTake, Typed
  <2>3. NoStrayChild'
    BY <1>3, KeepsNoStray DEF StopTake
  <2> QED
    BY <1>3, <2>2, <2>3 DEF StopTake, Typed
<1>4. ASSUME NEW ok \in BOOLEAN, StopKill(ok) PROVE IInv'
  <2>1. stop.handle \in 0 .. MaxChildren
    BY DEF Typed
  <2>2. /\ child' \in [Children -> {"unborn", "alive", "clean", "crashed"}]
        /\ \A m \in Children : child'[m] = "alive" => child[m] = "alive"
    BY <1>4, <2>1, StopProcessEnds DEF StopKill
  <2>3. Typed' /\ NoStrayChild'
    BY <1>4, <2>2, KeepsNoStray DEF StopKill, Typed
  <2> QED
    BY <1>4, <2>3 DEF StopKill
<1>5. CASE StopJoin
  BY <1>5, KeepsNoStray DEF StopJoin, Typed
<1>6. CASE CancelRoot
  BY <1>6, KeepsNoStray DEF CancelRoot, Typed
<1>7. ASSUME NEW n \in Children, AckCheck(n) PROVE IInv'
  BY <1>7, KeepsNoStray DEF AckCheck, Typed, Children
<1>8. CASE AckExchange
  <2>1. NoStrayChild'
    BY <1>8, KeepsNoStray DEF AckExchange
  <2>2. acked' \subseteq Children
    <3>1. ack \in Children
      BY <1>8 DEF AckExchange, Typed, Children
    <3> QED
      BY <1>8, <3>1 DEF AckExchange, Typed
  <2>3. Typed'
    BY <1>8, <2>2 DEF AckExchange, Typed
  <2>4. ready_rx' \in Seq(acked')
    BY <1>8 DEF AckExchange
  <2> QED
    BY <1>8, <2>1, <2>3, <2>4 DEF AckExchange
<1>9. ASSUME NEW n \in Children, NEW how \in {"clean", "crashed"}, ChildExits(n, how)
      PROVE IInv'
  BY <1>9, KeepsNoStray DEF ChildExits, Typed, Alive
<1>10. CASE Tick
  BY <1>10, KeepsNoStray DEF Tick, Typed
<1>11. CASE UNCHANGED vars
  BY <1>11, KeepsNoStray DEF vars, Typed
<1> QED
  BY <1>1, <1>2, <1>3, <1>4, <1>5, <1>6, <1>7, <1>8, <1>9, <1>10, <1>11
  DEF Next, KillStep, StopStep

(* The inductive invariant holds throughout every behaviour.               *)
THEOREM Invariance == Spec => []IInv
<1>1. IInv /\ [Next]_vars => IInv'
  BY TaskKeepsIInv, OthersKeepIInv
<1> QED
  BY InitIInv, <1>1, PTL DEF Spec

(***************************************************************************)
(* There is never a live child beside the last one spawned, and never one  *)
(* that the task no longer watches.                                        *)
(***************************************************************************)
THEOREM NoChildLeftBehind == Spec => []NoStrayChild
<1>1. IInv => NoStrayChild
  BY DEF IInv
<1> QED
  BY <1>1, Invariance, PTL

(* When Supervisor::stop has returned, no child is alive.                  *)
THEOREM StopIsComplete == Spec => []StopLeavesNothing
<1>1. IInv => StopLeavesNothing
  BY DEF IInv, StopAfterTask, NoStrayChild, StopLeavesNothing
<1> QED
  BY <1>1, Invariance, PTL

(***************************************************************************)
(* Ready is announced only for a child that was acknowledged itself, late  *)
(* acknowledgements of its predecessors notwithstanding.                   *)
(***************************************************************************)
THEOREM ReadyIsAcknowledged == Spec => ReadyIsOwn
<1> DEFINE Own ==
      (Acknowledged /\ event # "Ready" /\ event' = "Ready") => spawned \in acked
<1>1. ASSUME IInv, Next PROVE Own
  <2> SUFFICES ASSUME Acknowledged, event # "Ready", event' = "Ready"
               PROVE  spawned \in acked
    OBVIOUS
  <2>1. CASE WatchAck
    <3>1. current = Head(ready_rx) /\ Alive(current)
      BY <2>1 DEF WatchAck
    <3>2. Head(ready_rx) \in acked
      BY <1>1, <2>1 DEF WatchAck, IInv, AcksInChannel
    <3>3. current = spawned
      BY <1>1, <3>1 DEF IInv, NoStrayChild, Alive
    <3> QED
      BY <3>1, <3>2, <3>3
  <2>2. CASE ~TaskStep
    BY <1>1, <2>2
    DEF Next, KillStep, StopStep, KillTask, StopCancel, StopTake, StopKill, StopJoin,
        CancelRoot, AckCheck, AckExchange, ChildExits, Tick, taskVars
  <2>3. CASE TaskStep /\ ~WatchAck
    BY <2>3
    DEF TaskStep, WatchCancel, WatchAlive, WatchExit, Reap, Decide, Retry, Backoff,
        Prepare, Spawn, SpawnFails, AfterFailedSpawn, Place, Announce, Emit, Ends
  <2> QED
    BY <2>1, <2>2, <2>3
<1>2. IInv /\ [Next]_vars => [Own]_vars
  BY <1>1
<1> QED
  BY Invariance, <1>2, PTL DEF Spec, ReadyIsOwn

-----------------------------------------------------------------------------
(***************************************************************************)
(* The storm guard and the counters.  The task's list of abnormal exits is *)
(* a suffix of all crashes, what it popped lies a window before the latest *)
(* crash, and it goes on only with fewer than MaxFailures left (Guard).    *)
(* The restart budget is exceeded only by a task that ended (Budget).      *)
(***************************************************************************)
Popped == Len(crashes) - Len(abnormal_exits)

Guard ==
  /\ \A i \in 1 .. Len(crashes) : crashes[i] <= now
  /\ Len(abnormal_exits) <= Len(crashes)
  /\ \A i \in 1 .. Len(abnormal_exits) : abnormal_exits[i] = crashes[Popped + i]
  /\ \A i \in 1 .. Popped : crashes[Len(crashes)] - crashes[i] > Window
  /\ task # "done" => Len(abnormal_exits) < MaxFailures

Budget == task # "done" => attempt <= MaxRestarts

StormIInv == TypeOK /\ Guard /\ Budget

(* What is a window before one time is a window before every later one.    *)
LEMMA StaysOld ==
  ASSUME NEW a \in Nat, NEW b \in Nat, NEW c \in Nat, NEW w \in Nat, a - b > w, a <= c
  PROVE  c - b > w
OBVIOUS

(* Times are ordered.                                                      *)
LEMMA NotInWindow ==
  ASSUME NEW a \in Nat, NEW b \in Nat, NEW w \in Nat, ~(a - b <= w)
  PROVE  a - b > w
OBVIOUS

(* A crash joins the list, and what is a window older leaves it.           *)
LEMMA PopsOld ==
  ASSUME StormIInv, NEW k \in 1 .. Len(abnormal_exits) + 1,
         OldestInWindow(Append(abnormal_exits, now), k),
         abnormal_exits' = SubSeq(Append(abnormal_exits, now), k, Len(Append(abnormal_exits, now))),
         crashes' = Append(crashes, now), now' = now
  PROVE  /\ abnormal_exits' \in Seq(Times) /\ crashes' \in Seq(Times)
         /\ \A i \in 1 .. Len(crashes') : crashes'[i] <= now'
         /\ Len(abnormal_exits') <= Len(crashes')
         /\ \A i \in 1 .. Len(abnormal_exits') : abnormal_exits'[i] = crashes'[Popped' + i]
         /\ \A i \in 1 .. Popped' : crashes'[Len(crashes')] - crashes'[i] > Window
<1> DEFINE s == Append(abnormal_exits, now)
           m == Len(abnormal_exits)
           n == Len(crashes)
<1>1. /\ abnormal_exits \in Seq(Times) /\ crashes \in Seq(Times) /\ now \in Times
      /\ Window \in Nat /\ MaxTime \in Nat
  BY SupervisorAssumption DEF StormIInv, TypeOK
<1>2. m \in Nat /\ n \in Nat /\ m <= n
  BY <1>1 DEF StormIInv, Guard
<1>3. /\ s \in Seq(Times) /\ Len(s) = m + 1 /\ s[m + 1] = now
      /\ \A i \in 1 .. m : s[i] = abnormal_exits[i]
  BY <1>1
<1>4. /\ crashes' \in Seq(Times) /\ Len(crashes') = n + 1 /\ crashes'[n + 1] = now
      /\ \A i \in 1 .. n : crashes'[i] = crashes[i]
  BY <1>1
<1>5. /\ abnormal_exits' \in Seq(Times) /\ Len(abnormal_exits') = m + 2 - k
      /\ \A i \in 1 .. m + 2 - k : abnormal_exits'[i] = s[k + i - 1]
  <2>1. abnormal_exits' = SubSeq(s, k, Len(s)) /\ k \in 1 .. Len(s)
    BY <1>3
  <2> HIDE DEF s
  <2>2. /\ SubSeq(s, k, Len(s)) \in Seq(Times) /\ Len(SubSeq(s, k, Len(s))) = Len(s) - k + 1
        /\ \A i \in 1 .. Len(s) - k + 1 : SubSeq(s, k, Len(s))[i] = s[k + i - 1]
    BY <1>3, <2>1
  <2> QED BY <1>2, <1>3, <2>1, <2>2
<1>6. \A j \in 1 .. k - 1 : now - s[j] > Window
  <2> SUFFICES ASSUME NEW j \in 1 .. k - 1 PROVE now - s[j] > Window
    OBVIOUS
  <2>1. ~(now - s[j] <= Window) /\ j \in 1 .. Len(s)
    BY <1>2, <1>3 DEF OldestInWindow, InWindow
  <2> HIDE DEF s
  <2>2. s[j] \in Times
    BY <1>3, <2>1
  <2>3. s[j] \in Nat /\ now \in Nat
    BY <1>1, <2>2 DEF Times
  <2> QED BY <1>1, <2>1, <2>3, NotInWindow
<1>7. /\ \A i \in 1 .. n : crashes[i] <= now
      /\ \A i \in 1 .. m : abnormal_exits[i] = crashes[n - m + i]
      /\ \A i \in 1 .. n - m : crashes[n] - crashes[i] > Window
  BY DEF StormIInv, Guard, Popped
<1>8. \A i \in 1 .. n : crashes[i] \in Nat
  BY <1>1 DEF Times
<1>9. now \in Nat /\ Popped' = n + k - m - 1 /\ k \in 1 .. m + 1
  BY <1>1, <1>2, <1>4, <1>5 DEF Popped, Times
<1> HIDE DEF s, m, n
<1>10. \A i \in 1 .. n + 1 : crashes'[i] <= now'
  <2> SUFFICES ASSUME NEW i \in 1 .. n + 1 PROVE crashes'[i] <= now
    OBVIOUS
  <2>1. CASE i = n + 1
    BY <1>4, <1>9, <2>1
  <2>2. CASE i # n + 1
    BY <1>2, <1>4, <1>7, <2>2
  <2> QED BY <2>1, <2>2
<1>11. \A i \in 1 .. m + 1 : s[i] = crashes'[n - m + i]
  <2> SUFFICES ASSUME NEW i \in 1 .. m + 1 PROVE s[i] = crashes'[n - m + i]
    OBVIOUS
  <2>1. CASE i = m + 1
    <3>1. n - m + i = n + 1
      BY <1>2, <2>1
    <3> QED BY <1>3, <1>4, <2>1, <3>1
  <2>2. CASE i # m + 1
    <3>1. i \in 1 .. m /\ n - m + i \in 1 .. n
      BY <1>2, <2>2
    <3> QED BY <1>3, <1>4, <1>7, <3>1
  <2> QED BY <2>1, <2>2
<1>12. \A i \in 1 .. m + 2 - k : abnormal_exits'[i] = crashes'[Popped' + i]
  <2> SUFFICES ASSUME NEW i \in 1 .. m + 2 - k PROVE abnormal_exits'[i] = crashes'[Popped' + i]
    OBVIOUS
  <2>1. k + i - 1 \in 1 .. m + 1 /\ n - m + (k + i - 1) = Popped' + i
    BY <1>2, <1>9
  <2>2. abnormal_exits'[i] = s[k + i - 1]
    BY <1>5
  <2>3. s[k + i - 1] = crashes'[n - m + (k + i - 1)]
    BY <1>11, <2>1
  <2> QED BY <2>1, <2>2, <2>3
<1>13. \A i \in 1 .. Popped' : crashes'[n + 1] - crashes'[i] > Window
  <2> SUFFICES ASSUME NEW i \in 1 .. Popped' PROVE now - crashes'[i] > Window
    BY <1>4
  <2>1. i \in 1 .. n
    BY <1>2, <1>9
  <2>2. CASE i \in 1 .. n - m
    <3>1. crashes[n] - crashes[i] > Window /\ crashes[n] <= now /\ n \in 1 .. n
      BY <1>2, <1>7, <2>1, <2>2
    <3>2. crashes[n] \in Nat /\ crashes[i] \in Nat /\ crashes'[i] = crashes[i]
      BY <1>4, <1>8, <2>1, <3>1
    <3>3. now - crashes[i] > Window
      BY <1>1, <1>9, <3>1, <3>2, StaysOld
    <3> QED BY <3>2, <3>3
  <2>3. CASE ~(i \in 1 .. n - m)
    <3>1. i - (n - m) \in 1 .. k - 1 /\ i - (n - m) \in 1 .. m + 1 /\ n - m + (i - (n - m)) = i
      BY <1>2, <1>9, <2>1, <2>3
    <3>2. s[i - (n - m)] = crashes'[n - m + (i - (n - m))]
      BY <1>11, <3>1
    <3>3. now - s[i - (n - m)] > Window
      BY <1>6, <3>1
    <3> QED BY <3>1, <3>2, <3>3
  <2> QED BY <2>2, <2>3
<1>14. Len(abnormal_exits') <= Len(crashes')
  BY <1>2, <1>4, <1>5, <1>9
<1> QED BY <1>4, <1>5, <1>10, <1>12, <1>13, <1>14

(* Steps that record no crash and count no attempt.                        *)
LEMMA GuardKept ==
  ASSUME StormIInv, UNCHANGED <<abnormal_exits, crashes>>, now' \in {now, now + 1},
         task = "done" => task' = "done", attempt' \in {0, attempt}
  PROVE  Guard' /\ Budget' /\ attempt' \in 0 .. MaxRestarts + 1
<1>1. now \in Nat /\ crashes \in Seq(Times) /\ abnormal_exits \in Seq(Times)
  BY DEF StormIInv, TypeOK, Times
<1>2. \A i \in 1 .. Len(crashes) : crashes[i] \in Nat /\ crashes[i] <= now
  <2>1. \A i \in 1 .. Len(crashes) : crashes[i] \in Times
    BY <1>1
  <2> QED BY <2>1, SupervisorAssumption DEF StormIInv, Guard, Times
<1>3. \A i \in 1 .. Len(crashes) : crashes[i] <= now'
  BY <1>1, <1>2
<1>4. Popped' = Popped
  BY DEF Popped
<1>5. Guard'
  BY <1>3, <1>4 DEF StormIInv, Guard
<1>6. MaxRestarts \in Nat /\ attempt \in 0 .. MaxRestarts + 1 /\ (task # "done" => attempt <= MaxRestarts)
  BY SupervisorAssumption DEF StormIInv, TypeOK, Budget
<1> QED BY <1>5, <1>6 DEF Budget

(* The decision after an exit keeps it.                                    *)
LEMMA DecideKeepsStorm == StormIInv /\ Decide => StormIInv'
<1> SUFFICES ASSUME StormIInv, Decide PROVE StormIInv'
  OBVIOUS
<1>1. /\ task = "decide" /\ UNCHANGED <<childVars, readiness_pending, cancelled, attempt, sharedVars>>
      /\ task' \in {"done", "retry"}
      /\ event' \in {event, "Stopped", "GaveUp"}
  BY DEF Decide, Ends, Emit
<1>2. TypeOK /\ now' = now
  BY <1>1 DEF StormIInv, childVars
<1>3. CASE UNCHANGED <<abnormal_exits, crashes>>
  <2>1. TypeOK'
    BY <1>1, <1>2, <1>3 DEF TypeOK, childVars, sharedVars
  <2>2. Guard' /\ Budget'
    BY <1>1, <1>2, <1>3, GuardKept
  <2> QED BY <2>1, <2>2 DEF StormIInv
<1>4. CASE ~UNCHANGED <<abnormal_exits, crashes>>
  <2>1. Len(Append(abnormal_exits, now)) = Len(abnormal_exits) + 1
    BY <1>2 DEF TypeOK
  <2>2. PICK k \in 1 .. Len(Append(abnormal_exits, now)) :
           /\ OldestInWindow(Append(abnormal_exits, now), k)
           /\ abnormal_exits' = SubSeq(Append(abnormal_exits, now), k,
                                       Len(Append(abnormal_exits, now)))
           /\ crashes' = Append(crashes, now)
           /\ IF Len(abnormal_exits') >= MaxFailures
                THEN Ends("GaveUp") ELSE task' = "retry" /\ event' = event
    BY <1>4 DEF Decide
  <2>3. k \in 1 .. Len(abnormal_exits) + 1
    BY <2>1, <2>2
  <2>4. /\ abnormal_exits' \in Seq(Times) /\ crashes' \in Seq(Times)
        /\ \A i \in 1 .. Len(crashes') : crashes'[i] <= now'
        /\ Len(abnormal_exits') <= Len(crashes')
        /\ \A i \in 1 .. Len(abnormal_exits') : abnormal_exits'[i] = crashes'[Popped' + i]
        /\ \A i \in 1 .. Popped' : crashes'[Len(crashes')] - crashes'[i] > Window
    BY <1>2, <2>2, <2>3, PopsOld
  <2>5. task' # "done" => Len(abnormal_exits') < MaxFailures
    <3>1. Len(abnormal_exits') \in Nat /\ MaxFailures \in Nat
      BY <2>4, SupervisorAssumption
    <3>2. task' # "done" => ~(Len(abnormal_exits') >= MaxFailures)
      BY <2>2 DEF Ends
    <3> QED BY <3>1, <3>2
  <2>6. Guard'
    BY <2>4, <2>5 DEF Guard
  <2>7. TypeOK'
    BY <1>1, <1>2, <2>4 DEF TypeOK, childVars, sharedVars
  <2>8. Budget'
    BY <1>1 DEF StormIInv, Budget
  <2> QED BY <2>6, <2>7, <2>8 DEF StormIInv
<1> QED BY <1>3, <1>4

(* What stop_process leaves of the children.                               *)
LEMMA StopProcessShape ==
  ASSUME TypeOK, NEW n \in 0 .. MaxChildren, NEW ok, StopProcess(n, ok)
  PROVE  child' \in [Children -> {"unborn", "alive", "clean", "crashed"}]
  BY SupervisorAssumption DEF StopProcess, TypeOK, Alive, Children

(* The steps of the task keep it.                                          *)
LEMMA TaskKeepsStorm == StormIInv /\ TaskStep => StormIInv'
<1> SUFFICES ASSUME StormIInv, TaskStep PROVE StormIInv'
  OBVIOUS
<1>1. TypeOK
  BY DEF StormIInv
<1>2. CASE Decide
  BY <1>2, DecideKeepsStorm
<1>3. CASE Retry
  <2>1. MaxRestarts \in Nat /\ attempt \in 0 .. MaxRestarts + 1 /\ attempt <= MaxRestarts
    BY <1>3, SupervisorAssumption DEF Retry, StormIInv, TypeOK, Budget
  <2>2. attempt' = attempt + 1 /\ attempt' \in 0 .. MaxRestarts + 1
    BY <1>3, <2>1 DEF Retry
  <2>3. Budget'
    BY <1>3, <2>1, <2>2 DEF Retry, Budget, Ends
  <2>4. TypeOK'
    BY <1>1, <1>3, <2>2 DEF Retry, TypeOK, childVars, sharedVars, Ends, Emit
  <2>5. Guard'
    BY <1>3 DEF Retry, StormIInv, Guard, Popped, childVars, Ends
  <2> QED BY <2>3, <2>4, <2>5 DEF StormIInv
<1>4. CASE ~Decide /\ ~Retry
  <2>1. UNCHANGED <<abnormal_exits, crashes, now>> /\ task # "done" /\ attempt' \in {0, attempt}
    BY <1>4
    DEF TaskStep, WatchCancel, WatchAlive, WatchAck, WatchExit, Reap, Backoff, Prepare, Spawn,
        SpawnFails, AfterFailedSpawn, Place, Announce, childVars, BecomesReady
  <2>2. Guard' /\ Budget' /\ attempt' \in 0 .. MaxRestarts + 1
    BY <2>1, GuardKept
  <2> USE SupervisorAssumption DEF TypeOK, childVars, sharedVars, Emit, Ends, BecomesReady
  <2>3. CASE WatchCancel
    <3>0. current' \in 0 .. MaxChildren /\ kill_task' \in 0 .. MaxChildren
      BY <1>1, <2>3 DEF WatchCancel
    <3>1. TypeOK'
      BY <1>1, <2>3, <3>0 DEF WatchCancel
    <3> QED BY <2>2, <3>1 DEF StormIInv
  <2>4. CASE WatchAlive
    BY <1>1, <2>2, <2>4 DEF WatchAlive, StormIInv
  <2>5. CASE WatchAck
    <3>1. ready_rx' \in Seq(Children)
      BY <1>1, <2>5 DEF WatchAck
    <3>2. /\ readiness_pending' \in BOOLEAN
          /\ event' \in {event, "Ready"}
          /\ UNCHANGED <<childVars, task, cancelled, abnormal_exits, crashes, token, current,
                         ready_pending, kill_task, stop, ack, acked>>
      BY <1>1, <2>5 DEF WatchAck
    <3>3. TypeOK'
      BY <1>1, <2>2, <3>1, <3>2
    <3> QED BY <2>2, <3>3 DEF StormIInv
  <2>6. CASE WatchExit \/ Reap \/ Backoff \/ Prepare(TRUE) \/ Prepare(FALSE) \/ SpawnFails
             \/ AfterFailedSpawn
    <3>1. /\ task' \in {"reap", "decide", "prepare", "done", "spawn", "failed", "retry"}
          /\ event' \in {event, "Exited", "Stopped", "PreparationFailed"}
          /\ current' \in {current, 0} /\ ready_pending' \in {ready_pending, 0}
          /\ UNCHANGED <<childVars, readiness_pending, cancelled, attempt, abnormal_exits, crashes,
                         token, ready_rx, kill_task, stop, ack, acked>>
      BY <2>6 DEF WatchExit, Reap, Backoff, Prepare, SpawnFails, AfterFailedSpawn
    <3>2. current' \in 0 .. MaxChildren /\ ready_pending' \in 0 .. MaxChildren
      BY <1>1, <3>1
    <3>3. TypeOK'
      BY <1>1, <2>2, <3>1, <3>2
    <3> QED BY <2>2, <3>3 DEF StormIInv
  <2>7. CASE Spawn
    BY <1>1, <2>2, <2>7 DEF Spawn, StormIInv, Children
  <2>8. CASE Place
    <3>1. current' \in 0 .. MaxChildren
      BY <1>1, <2>8 DEF Place, Children
    <3>2. TypeOK'
      BY <1>1, <2>2, <2>8, <3>1 DEF Place
    <3> QED BY <2>2, <3>2 DEF StormIInv
  <2>9. CASE Announce
    <3>1. ready_pending' \in 0 .. MaxChildren
      BY <1>1, <2>9 DEF Announce, Children
    <3>2. event' \in {event, "Started"} /\ task' = "watch"
      BY <2>9 DEF Announce
    <3>3. TypeOK'
      BY <1>1, <2>2, <2>9, <3>1, <3>2 DEF Announce
    <3> QED BY <2>2, <3>3 DEF StormIInv
  <2> QED BY <1>4, <2>3, <2>4, <2>5, <2>6, <2>7, <2>8, <2>9 DEF TaskStep
<1> QED BY <1>2, <1>3, <1>4

(* So do all others.                                                       *)
LEMMA OthersKeepStorm == StormIInv /\ [Next /\ ~TaskStep]_vars => StormIInv'
<1> SUFFICES ASSUME StormIInv, [Next /\ ~TaskStep]_vars PROVE StormIInv'
  OBVIOUS
<1>1. TypeOK
  BY DEF StormIInv
<1>2. UNCHANGED taskVars /\ now' \in {now, now + 1}
  BY DEF Next, KillStep, StopStep, KillTask, StopCancel, StopTake, StopKill, StopJoin,
         CancelRoot, AckCheck, AckExchange, ChildExits, Tick, childVars, vars
<1>3. Guard' /\ Budget'
  BY <1>2, GuardKept DEF taskVars
<1>4. TypeOK'
  <2> USE SupervisorAssumption DEF TypeOK, childVars, taskVars, sharedVars
  <2>1. ASSUME NEW ok \in BOOLEAN, KillTask(ok) PROVE TypeOK'
    <3>1. child' \in [Children -> {"unborn", "alive", "clean", "crashed"}]
      BY <1>1, <2>1, StopProcessShape DEF KillTask
    <3> QED BY <1>1, <2>1, <3>1 DEF KillTask
  <2>2. CASE StopCancel \/ CancelRoot \/ StopJoin
    <3>1. /\ token' \in BOOLEAN
          /\ stop' \in [pc: {"idle", "cancelled", "killing", "join", "ok", "err"},
                        failed: BOOLEAN, handle: 0 .. MaxChildren]
          /\ UNCHANGED <<childVars, taskVars, current, ready_pending, ready_rx, kill_task, ack,
                         acked>>
      BY <1>1, <2>2 DEF StopCancel, CancelRoot, StopJoin
    <3> QED BY <1>1, <3>1
  <2>3. CASE StopTake
    <3>1. stop' \in [pc: {"idle", "cancelled", "killing", "join", "ok", "err"},
                     failed: BOOLEAN, handle: 0 .. MaxChildren]
      BY <1>1, <2>3 DEF StopTake
    <3>2. current' = 0 /\ current' \in 0 .. MaxChildren
      <4>1. 0 \in 0 .. MaxChildren
        BY SMT
      <4> QED BY <2>3, <4>1 DEF StopTake
    <3> QED BY <1>1, <2>3, <3>1, <3>2 DEF StopTake
  <2>4. ASSUME NEW ok \in BOOLEAN, StopKill(ok) PROVE TypeOK'
    <3>1. child' \in [Children -> {"unborn", "alive", "clean", "crashed"}]
      BY <1>1, <2>4, StopProcessShape DEF StopKill
    <3>2. stop' \in [pc: {"idle", "cancelled", "killing", "join", "ok", "err"},
                     failed: BOOLEAN, handle: 0 .. MaxChildren]
      BY <1>1, <2>4 DEF StopKill
    <3> QED BY <1>1, <2>4, <3>1, <3>2 DEF StopKill
  <2>5. ASSUME NEW n \in Children, AckCheck(n) PROVE TypeOK'
    BY <1>1, <2>5 DEF AckCheck, Children
  <2>6. CASE AckExchange
    <3>1. ack \in Children
      BY <1>1, <2>6 DEF AckExchange, Children
    <3>2. ready_rx' \in {ready_rx, Append(ready_rx, ack)} /\ acked' \in {acked, acked \cup {ack}}
      BY <2>6 DEF AckExchange
    <3>3. ready_rx' \in Seq(Children)
      <4>1. CASE ready_rx' = ready_rx
        BY <1>1, <4>1
      <4>2. CASE ready_rx' = Append(ready_rx, ack)
        BY <1>1, <3>1, <4>2
      <4> QED BY <3>2, <4>1, <4>2
    <3>4. acked' \subseteq Children
      BY <1>1, <3>1, <3>2
    <3>5. ready_pending' \in 0 .. MaxChildren /\ ack' \in 0 .. MaxChildren
      BY <1>1, <2>6 DEF AckExchange
    <3> QED BY <1>1, <2>6, <3>3, <3>4, <3>5 DEF AckExchange
  <2>7. ASSUME NEW n \in Children, NEW how \in {"clean", "crashed"}, ChildExits(n, how)
        PROVE TypeOK'
    BY <1>1, <2>7 DEF ChildExits
  <2>8. CASE Tick
    BY <1>1, <2>8 DEF Tick, Times
  <2>9. CASE UNCHANGED vars
    BY <1>1, <2>9 DEF vars
  <2> QED BY <2>1, <2>2, <2>3, <2>4, <2>5, <2>6, <2>7, <2>8, <2>9 DEF Next, KillStep, StopStep
<1> QED BY <1>3, <1>4 DEF StormIInv

(* Every step does.                                                        *)
LEMMA StormSteps == StormIInv /\ [Next]_vars => StormIInv'
  BY TaskKeepsStorm, OthersKeepStorm

(* A supervisor that has just spawned its first child has seen no crash.   *)
LEMMA StormInitially == Init => StormIInv
<1> SUFFICES ASSUME Init PROVE StormIInv
  OBVIOUS
<1>1. TypeOK
  <2>1. /\ spawned \in Children /\ now \in Times /\ current \in 0 .. MaxChildren
        /\ ready_pending \in 0 .. MaxChildren /\ kill_task \in 0 .. MaxChildren
        /\ ack \in 0 .. MaxChildren /\ attempt \in 0 .. MaxRestarts + 1
    BY SupervisorAssumption DEF Init, Children, Times
  <2>2. /\ child \in [Children -> {"unborn", "alive", "clean", "crashed"}]
        /\ ready_rx \in Seq(Children) /\ abnormal_exits \in Seq(Times) /\ crashes \in Seq(Times)
    BY DEF Init
  <2>3. stop \in [pc: {"idle", "cancelled", "killing", "join", "ok", "err"},
                  failed: BOOLEAN, handle: 0 .. MaxChildren]
    BY <2>1 DEF Init
  <2> QED BY <2>1, <2>2, <2>3 DEF Init, TypeOK
<1>2. Guard /\ Budget
  BY SupervisorAssumption DEF Init, Guard, Budget, Popped
<1> QED BY <1>1, <1>2 DEF StormIInv

(* The storm guard's invariant holds throughout every behaviour.           *)
THEOREM StormInvariance == Spec => []StormIInv
  BY StormInitially, StormSteps, PTL DEF Spec

(* Crashes in the window of the latest one are all still in the list.      *)
LEMMA FewRecent ==
  ASSUME crashes \in Seq(Times), abnormal_exits \in Seq(Times), Guard
  PROVE  StormBounded
<1> SUFFICES ASSUME task # "done" PROVE Cardinality(RecentCrashes) < MaxFailures
  BY DEF StormBounded
<1> DEFINE m == Len(abnormal_exits)
           n == Len(crashes)
<1>1. /\ m \in Nat /\ n \in Nat /\ m <= n /\ m < MaxFailures /\ MaxFailures \in Nat
      /\ \A i \in 1 .. n : crashes[i] \in Nat
      /\ Window \in Nat
  BY SupervisorAssumption DEF Guard, Times
<1>2. \A i \in 1 .. n - m : ~(crashes[n] - crashes[i] <= Window)
  <2> SUFFICES ASSUME NEW i \in 1 .. n - m PROVE ~(crashes[n] - crashes[i] <= Window)
    OBVIOUS
  <2>1. crashes[n] - crashes[i] > Window
    BY DEF Guard, Popped
  <2>2. i \in 1 .. n /\ n \in 1 .. n
    BY <1>1
  <2>3. crashes[n] \in Nat /\ crashes[i] \in Nat
    BY <1>1, <2>2
  <2> QED BY <1>1, <2>1, <2>3
<1>3. RecentCrashes \in SUBSET (n - m + 1 .. n)
  <2> SUFFICES ASSUME NEW k \in 1 .. n, crashes[n] - crashes[k] <= Window
               PROVE  k \in n - m + 1 .. n
    BY DEF RecentCrashes
  <2>1. ~(k \in 1 .. n - m)
    BY <1>2
  <2> HIDE DEF m, n
  <2> QED BY <1>1, <2>1
<1> HIDE DEF m, n
<1>4. IsFiniteSet(n - m + 1 .. n) /\ Cardinality(n - m + 1 .. n) <= m
  <2>1. n - m + 1 \in Int /\ n \in Int
    BY <1>1
  <2>2. /\ IsFiniteSet(n - m + 1 .. n)
        /\ Cardinality(n - m + 1 .. n) = IF n - m + 1 > n THEN 0 ELSE n - (n - m + 1) + 1
    BY <2>1, FS_Interval
  <2> QED BY <1>1, <2>2
<1>5. /\ IsFiniteSet(RecentCrashes)
      /\ Cardinality(RecentCrashes) <= Cardinality(n - m + 1 .. n)
  BY <1>3, <1>4, FS_Subset
<1>6. Cardinality(RecentCrashes) \in Nat /\ Cardinality(n - m + 1 .. n) \in Nat
  BY <1>4, <1>5, FS_CardinalityType
<1> QED BY <1>1, <1>4, <1>5, <1>6

(***************************************************************************)
(* The storm guard: for any window and limit, and whatever readiness says, *)
(* the task never goes on to another child with MaxFailures crashes inside *)
(* one window.                                                             *)
(***************************************************************************)
THEOREM StormsAreCutOff == Spec => []StormBounded
<1>1. StormIInv => StormBounded
  BY FewRecent DEF StormIInv, TypeOK
<1> QED
  BY <1>1, StormInvariance, PTL

(* Every variable keeps its type, the attempts their budget.               *)
THEOREM SupervisorTypes == Spec => []TypeOK
<1>1. StormIInv => TypeOK
  BY DEF StormIInv
<1> QED
  BY <1>1, StormInvariance, PTL
=============================================================================
