--------------------------- MODULE InstanceProofs ---------------------------
(***************************************************************************)
(* Proofs about one epoch of a running core: Running is only published for *)
(* a process that was probed healthy and acknowledged, a stop that says Ok *)
(* has a dead process and nobody left to start another, and a deadline     *)
(* that gave up on the core is final.  They hold for any number of         *)
(* children, restarts and observations and for any thresholds.             *)
(*                                                                         *)
(* The invariant says what every status in flight may claim (Truthful: the *)
(* one on show, the one the monitor has yet to send and the one a log      *)
(* frame has), how the supervisor's record, child and last words agree     *)
(* (Supervised), what a stop has learnt (Stops), that nothing is left of   *)
(* the probes after a timeout (Quiet), and that start events are numbered  *)
(* ahead of the runs made of them (Numbered).                              *)
(*                                                                         *)
(* The second part is about the launch of the core: the version cache, the *)
(* choice of the endpoint and the authorization of a named pipe.  The last *)
(* puts both beside the config changes in the specification of MCInstance. *)
(***************************************************************************)
EXTENDS MCInstance, ConfigChangeProofs, TLAPS

SupSet ==
  [child: Children, alive: BOOLEAN, exit: {"none", "clean", "crash"}, record: BOOLEAN,
   task: {"watch", "decide", "backoff", "spawning", "gone"}, restarts: 0 .. MaxRestarts,
   pending: 0 .. MaxChildren, slot: BOOLEAN, stuck: BOOLEAN, native: BOOLEAN, torn: BOOLEAN]
Finals == {"Stopped", "GaveUp", "PreparationFailed"}
EventSet == [kind: {"Started", "Restarting", "Exited"} \union Finals, pid: Children]
Trackers == [state: {"Starting", "Healthy", "Unhealthy"}, fails: Nat, succs: Nat, graced: BOOLEAN]
Runs == [id: Nat, pid: Children, acked: BOOLEAN, ready: BOOLEAN, tracker: Trackers]
MonPcs == {"loop", "initial", "respawn"}
MonSet ==
  [pc: MonPcs \union {"send", "done", "aborted"}, back: MonPcs, run: Runs \union {NoRun},
   ever_ready: BOOLEAN, timeout_fired: BOOLEAN, probes_cancelled: BOOLEAN, next_run_id: Nat,
   respawn: BOOLEAN, send: Statuses \union {NoStatus}]
DriverSet ==
  [run: Nat, pid: 0 .. MaxChildren, phase: {"off", "Readiness", "Liveness"}, asked: BOOLEAN]
ObsSet ==
  [run: Nat, pid: 0 .. MaxChildren, healthy: BOOLEAN, initial: BOOLEAN, respawn: BOOLEAN]
ClockSet == [initial: BOOLEAN, respawn: BOOLEAN]
FlagSet ==
  [user_stop: BOOLEAN, probe_timeout: BOOLEAN, cancel: BOOLEAN, probe_cancel: BOOLEAN,
   persistence: BOOLEAN]
StopSet ==
  [pc: {"idle", "publish", "take", "stopping", "join", "check", "reap", "ok", "store",
        "unconfirmed"}, ok: BOOLEAN, joined: BOOLEAN, terminal: BOOLEAN]

SupTyped == sup \in SupSet /\ events \in Seq(EventSet) /\ flags \in FlagSet
MonTyped ==
  /\ mon \in MonSet /\ (mon.pc = "send" => mon.send \in Statuses)
  /\ status \in Statuses /\ log \in Statuses \union {NoStatus}
ProbeTyped ==
  /\ driver \in DriverSet /\ observations \in Seq(ObsSet) /\ clock \in ClockSet
  /\ ask \in {"idle", "sent", "driver", "done"} /\ proven \subseteq Children
StopTyped == stop \in StopSet
Typed == SupTyped /\ MonTyped /\ ProbeTyped /\ StopTyped

(* What a status may claim: Running for a proven process, Stopped when the *)
(* supervisor has ended or the stop has its proof.                         *)
Over == sup.task = "gone" \/ stop.pc \in {"ok", "store"}
Claims(st, acknowledged, over) ==
  /\ st.state = "Running" => st.pid \in acknowledged
  /\ st.state = "Stopped" => over
Truthful ==
  Claims(status, proven, Over) /\ Claims(log, proven, Over) /\ Claims(mon.send, proven, Over)

(* A child lives only while it is watched or being recorded, a record is   *)
(* that of a watched child, and the last word is said by a task that ends. *)
Supervised ==
  /\ sup.alive => sup.task \in {"watch", "spawning"}
  /\ sup.record => sup.task = "watch"
  /\ \A i \in 1 .. Len(events) : events[i].kind \in Finals => sup.task = "gone"

(* What a stop has learnt at each of its steps.                            *)
Stops ==
  /\ stop.pc \notin {"idle", "publish", "take"} => flags.cancel
  /\ stop.pc \notin {"idle", "publish", "take", "stopping"} /\ stop.ok => sup.task = "gone"
  /\ stop.pc = "reap" /\ stop.terminal => sup.task = "gone"
  /\ StopProvesDeath

(* After a timeout there is no driver and nothing it has found.            *)
Quiet ==
  /\ flags.probe_timeout => flags.probe_cancel /\ driver = NoDriver /\ observations = << >>
  /\ ~sup.torn => mon.pc # "send" /\ log = NoStatus

(* Start events carry the numbers of their children, in order and ahead of *)
(* the runs; a probe that was asked for adds one observation, once.        *)
Numbered ==
  /\ mon.next_run_id <= sup.child
  /\ sup.task = "spawning" => mon.next_run_id < sup.child
  /\ \A i \in 1 .. Len(events) : events[i].kind = "Started" =>
       /\ mon.next_run_id < events[i].pid /\ events[i].pid <= sup.child
       /\ sup.task = "spawning" => events[i].pid < sup.child
  /\ \A i, j \in 1 .. Len(events) :
       i < j /\ events[i].kind = "Started" /\ events[j].kind = "Started" =>
         events[i].pid < events[j].pid
Asked ==
  /\ driver.asked => ask = "driver"
  /\ Len(observations) <= MaxObservations \/ (Len(observations) = MaxObservations + 1 /\ ask = "done")

InstanceIInv ==
  Typed /\ Truthful /\ Supervised /\ Stops /\ Quiet /\ Numbered /\ Asked
(***************************************************************************)
(* What the sequences and records of the model keep.                       *)
(***************************************************************************)
(* Appending an event leaves the earlier ones where they were.             *)
LEMMA AppendFacts ==
  ASSUME NEW S, NEW s \in Seq(S), NEW x \in S
  PROVE  /\ Append(s, x) \in Seq(S) /\ Len(Append(s, x)) = Len(s) + 1
         /\ \A i \in 1 .. Len(s) : Append(s, x)[i] = s[i]
         /\ Append(s, x)[Len(s) + 1] = x
  OBVIOUS

(* Taking the first event moves the others up by one.                      *)
LEMMA TailFacts ==
  ASSUME NEW S, NEW s \in Seq(S), s # << >>
  PROVE  /\ Tail(s) \in Seq(S) /\ Len(Tail(s)) = Len(s) - 1 /\ Len(s) \in Nat \ {0}
         /\ Head(s) \in S /\ Head(s) = s[1]
         /\ \A i \in 1 .. Len(Tail(s)) : Tail(s)[i] = s[i + 1]
  OBVIOUS

(* The numbers of children, and none of them, are numbers.                 *)
LEMMA ChildNumbers ==
  /\ 0 \in 0 .. MaxChildren /\ Children \subseteq Nat /\ Children \subseteq 0 .. MaxChildren
  /\ \A n \in 0 .. MaxRestarts : n < MaxRestarts => n + 1 \in 0 .. MaxRestarts
  BY InstanceAssumption DEF Children

(* An event carries the number of a child.                                 *)
LEMMA EventPids ==
  ASSUME SupTyped
  PROVE  \A i \in 1 .. Len(events) : events[i].pid \in Nat
<1>1. \A i \in 1 .. Len(events) : events[i] \in EventSet
  BY DEF SupTyped
<1> QED BY <1>1, ChildNumbers DEF EventSet

(* Every status in flight keeps its truth while what was proven and what is*)
(* over stays so.                                                          *)
LEMMA TruthSame ==
  ASSUME Truthful, UNCHANGED <<status, log>>, mon'.send = mon.send,
         proven \subseteq proven', Over => Over'
  PROVE  Truthful'
  BY DEF Truthful, Claims

(* Over is final: a supervisor task that ended and a stop that returned.   *)
LEMMA OverSame ==
  ASSUME sup.task = "gone" => sup'.task = "gone",
         stop.pc \in {"ok", "store"} => stop'.pc \in {"ok", "store"}
  PROVE  Over => Over'
  BY DEF Over

(* The supervisor is unchanged and an event, if any, was taken.            *)
LEMMA TakenSupervised ==
  ASSUME SupTyped, Supervised, sup'.alive = sup.alive, sup'.task = sup.task,
         sup'.record = sup.record,
         events' = events \/ (events # << >> /\ events' = Tail(events))
  PROVE  Supervised'
<1>1. CASE events' = events
  BY <1>1 DEF Supervised
<1>2. CASE events # << >> /\ events' = Tail(events)
  <2>1. /\ Len(events') = Len(events) - 1 /\ Len(events) \in Nat \ {0}
        /\ \A i \in 1 .. Len(events') : events'[i] = events[i + 1]
    BY <1>2, TailFacts DEF SupTyped
  <2>2. \A i \in 1 .. Len(events') : i + 1 \in 1 .. Len(events)
    BY <2>1
  <2> QED BY <2>1, <2>2 DEF Supervised
<1> QED BY <1>1, <1>2

(* The same for the numbering, when no run was made.                       *)
LEMMA TakenNumbered ==
  ASSUME SupTyped, Numbered, sup'.child = sup.child, sup'.task = sup.task,
         mon'.next_run_id = mon.next_run_id,
         events' = events \/ (events # << >> /\ events' = Tail(events))
  PROVE  Numbered'
<1>1. CASE events' = events
  BY <1>1 DEF Numbered
<1>2. CASE events # << >> /\ events' = Tail(events)
  <2>1. /\ Len(events') = Len(events) - 1 /\ Len(events) \in Nat \ {0}
        /\ \A i \in 1 .. Len(events') : events'[i] = events[i + 1]
    BY <1>2, TailFacts DEF SupTyped
  <2>2. \A i \in 1 .. Len(events') : i + 1 \in 1 .. Len(events)
    BY <2>1
  <2>3. \A i, j \in 1 .. Len(events') : i < j => i + 1 < j + 1
    OBVIOUS
  <2> QED BY <2>1, <2>2, <2>3 DEF Numbered
<1> QED BY <1>1, <1>2

(* The stop has learnt nothing new and nothing it learnt went away.        *)
LEMMA StopsSame ==
  ASSUME Stops, UNCHANGED stop, flags.cancel => flags'.cancel,
         sup.task = "gone" => sup'.task = "gone",
         stop.pc \in {"ok", "store"} =>
           ~sup'.alive /\ sup'.task \in {"watch", "decide", "gone"}
  PROVE  Stops'
  BY DEF Stops, StopProvesDeath

(* Nothing was probed and nobody sends.                                    *)
LEMMA QuietSame ==
  ASSUME Quiet, flags'.probe_timeout = flags.probe_timeout,
         flags.probe_cancel => flags'.probe_cancel, sup'.torn = sup.torn,
         UNCHANGED <<driver, observations>>,
         ~sup.torn => mon'.pc # "send" /\ log' = NoStatus
  PROVE  Quiet'
  BY DEF Quiet

(* Nothing was asked, found or answered.                                   *)
LEMMA AskedSame ==
  ASSUME Asked, UNCHANGED <<driver, observations, ask>>
  PROVE  Asked'
  BY DEF Asked

(***************************************************************************)
(* The supervisor and its child.                                           *)
(***************************************************************************)
(* A child that ends, by itself or killed, changes nothing but its life.   *)
LEMMA ChildEnds ==
  ASSUME InstanceIInv, NEW how \in {"clean", "crash"},
         sup' = [sup EXCEPT !.alive = FALSE, !.exit = how],
         UNCHANGED <<events, mon, driver, observations, clock, flags, status, log, stop,
                     ask, proven>>
  PROVE  InstanceIInv'
<1> USE DEF InstanceIInv
<1>1. /\ sup' \in SupSet /\ ~sup'.alive /\ sup'.task = sup.task /\ sup'.record = sup.record
      /\ sup'.child = sup.child /\ sup'.torn = sup.torn
  BY DEF Typed, SupTyped, SupSet
<1>2. Typed'
  BY <1>1 DEF Typed, SupTyped, MonTyped, ProbeTyped, StopTyped
<1>3. Truthful'
  BY <1>1, OverSame, TruthSame
<1>4. Supervised'
  BY <1>1 DEF Supervised
<1>5. Stops'
  BY <1>1, StopsSame DEF Stops, StopProvesDeath
<1>6. Quiet'
  BY <1>1, QuietSame DEF Quiet
<1>7. Numbered'
  BY <1>1, TakenNumbered DEF Typed
<1>8. Asked'
  BY AskedSame
<1> QED BY <1>2, <1>3, <1>4, <1>5, <1>6, <1>7, <1>8

(* An event that is not a start is announced by a supervisor whose new     *)
(* task fits it; it is the last word only of a task that ends.             *)
LEMMA Announces ==
  ASSUME SupTyped, Supervised, Numbered,
         NEW kind \in {"Restarting", "Exited"} \union Finals,
         events' = Emitted(kind), sup'.child = sup.child, UNCHANGED mon,
         sup'.task # "spawning", ~sup'.alive, ~sup'.record,
         kind \in Finals => sup'.task = "gone", sup.task = "gone" => sup'.task = "gone"
  PROVE  events' \in Seq(EventSet) /\ Supervised' /\ Numbered'
<1> DEFINE e == [kind |-> kind, pid |-> sup.child]
<1>1. e \in EventSet /\ e.kind = kind
  BY DEF SupTyped, SupSet, EventSet, Finals
<1>2. /\ events' \in Seq(EventSet) /\ Len(events') = Len(events) + 1 /\ Len(events) \in Nat
      /\ \A i \in 1 .. Len(events) : events'[i] = events[i]
      /\ events'[Len(events) + 1] = e
  BY <1>1, AppendFacts DEF SupTyped, Emitted
<1> HIDE DEF e
<1>3. kind # "Started" BY DEF Finals
<1>4. \A i \in 1 .. Len(events') : i \in 1 .. Len(events) \/ i = Len(events) + 1
  BY <1>2
<1>5. Supervised'
  BY <1>1, <1>2, <1>4 DEF Supervised
<1>6. Numbered'
  BY <1>1, <1>2, <1>3, <1>4 DEF Numbered
<1> QED BY <1>2, <1>5, <1>6

(* The exit is announced once the record is gone.                          *)
LEMMA SupExitedKeeps ==
  ASSUME InstanceIInv, SupExited
  PROVE  InstanceIInv'
<1> USE DEF InstanceIInv, SupExited
<1>1. /\ sup' \in SupSet /\ ~sup'.alive /\ sup'.task = "decide" /\ ~sup'.record
      /\ sup'.child = sup.child /\ sup'.torn = sup.torn
  BY ChildNumbers DEF Typed, SupTyped, SupSet
<1>2. events' \in Seq(EventSet) /\ Supervised' /\ Numbered'
  BY <1>1, Announces DEF Typed, Finals
<1>3. Typed'
  BY <1>1, <1>2 DEF Typed, SupTyped, MonTyped, ProbeTyped, StopTyped
<1>4. Truthful'
  BY <1>1, OverSame, TruthSame
<1>5. Stops'
  BY <1>1, StopsSame DEF Stops, StopProvesDeath
<1>6. Quiet'
  BY <1>1, QuietSame DEF Quiet
<1>7. Asked'
  BY AskedSame
<1> QED BY <1>2, <1>3, <1>4, <1>5, <1>6, <1>7

(* The decision after an exit: the last word, the quiet end, or a backoff. *)
LEMMA SupDecidesKeeps ==
  ASSUME InstanceIInv, SupDecides
  PROVE  InstanceIInv'
<1> USE DEF InstanceIInv
<1>1. /\ sup.task = "decide" /\ ~sup.alive /\ ~sup.record
      /\ UNCHANGED <<mon, driver, observations, clock, flags, status, log, stop, ask, proven>>
  BY DEF SupDecides, Supervised
<1>2. /\ sup' \in SupSet /\ ~sup'.alive /\ sup'.task \in {"gone", "backoff"} /\ ~sup'.record
      /\ sup'.child = sup.child /\ sup'.torn = sup.torn
      /\ flags.cancel => sup'.task = "gone"
  <2>1. /\ SupTask("gone") \in SupSet /\ SupTask("gone").task = "gone"
        /\ ~SupTask("gone").alive /\ ~SupTask("gone").record
        /\ SupTask("gone").child = sup.child /\ SupTask("gone").torn = sup.torn
    BY <1>1 DEF SupTask, Typed, SupTyped, SupSet
  <2>2. ASSUME sup.restarts < MaxRestarts
        PROVE  LET s == [SupTask("backoff") EXCEPT !.restarts = @ + 1]
               IN /\ s \in SupSet /\ s.task = "backoff" /\ ~s.alive /\ ~s.record
                  /\ s.child = sup.child /\ s.torn = sup.torn
    BY <1>1, <2>2, ChildNumbers DEF SupTask, Typed, SupTyped, SupSet
  <2> QED BY <2>1, <2>2 DEF SupDecides
<1>3. events' \in Seq(EventSet) /\ Supervised' /\ Numbered'
  <2>1. CASE events' = events
    BY <1>1, <1>2, <2>1 DEF Typed, SupTyped, Supervised, Numbered
  <2>2. CASE events' # events
    <3>1. PICK kind \in {"Restarting", "Exited"} \union Finals :
            events' = Emitted(kind) /\ (kind \in Finals => sup'.task = "gone")
      <4>1. SupTask("gone").task = "gone"
        BY DEF SupTask, Typed, SupTyped, SupSet
      <4>2. "Restarting" \notin Finals
        BY DEF Finals
      <4> QED BY <2>2, <4>1, <4>2 DEF SupDecides, Finals
    <3> QED BY <1>1, <1>2, <3>1, Announces DEF Typed
  <2> QED BY <2>1, <2>2
<1>4. Typed'
  BY <1>1, <1>2, <1>3 DEF Typed, SupTyped, MonTyped, ProbeTyped, StopTyped
<1>5. Truthful'
  BY <1>1, <1>2, OverSame, TruthSame
<1>6. Stops'
  BY <1>1, <1>2, StopsSame DEF Stops, StopProvesDeath
<1>7. Quiet'
  BY <1>1, <1>2, QuietSame DEF Quiet
<1>8. Asked'
  BY <1>1, AskedSame
<1> QED BY <1>3, <1>4, <1>5, <1>6, <1>7, <1>8

(* The backoff ends in a last word, in a failed start, or in a new child:  *)
(* never in a child once a stop has cancelled the supervisor.              *)
LEMMA SupBackoffKeeps ==
  ASSUME InstanceIInv, SupBackoffEnds
  PROVE  InstanceIInv'
<1> USE DEF InstanceIInv
<1>1. /\ sup.task = "backoff" /\ ~sup.alive /\ ~sup.record
      /\ UNCHANGED <<mon, driver, observations, clock, status, log, stop, ask, proven>>
  BY DEF SupBackoffEnds, Supervised
<1>2. /\ flags' \in FlagSet /\ flags'.probe_timeout = flags.probe_timeout
      /\ flags'.probe_cancel = flags.probe_cancel /\ flags'.cancel = flags.cancel
  BY DEF SupBackoffEnds, Typed, SupTyped, FlagSet
<1>3. /\ sup' \in SupSet /\ ~sup'.record /\ sup'.torn = sup.torn
      /\ sup'.task \in {"gone", "decide", "spawning"}
      /\ flags.cancel => sup'.task = "gone"
      /\ IF sup'.task = "spawning"
           THEN sup'.alive /\ sup'.child = sup.child + 1
           ELSE ~sup'.alive /\ sup'.child = sup.child
  <2>1. sup \in SupSet /\ sup.child \in Nat
    BY DEF Typed, SupTyped, SupSet, Children
  <2>2. CASE sup' = [sup EXCEPT !.task = "gone"]
    BY <1>1, <2>1, <2>2 DEF SupSet
  <2>3. CASE ~flags.cancel /\ sup' = [sup EXCEPT !.task = "decide", !.exit = "crash"]
    BY <1>1, <2>1, <2>3 DEF SupSet
  <2>4. CASE /\ ~flags.cancel /\ sup.child < MaxChildren
             /\ sup' = [sup EXCEPT !.task = "spawning", !.child = @ + 1, !.alive = TRUE]
    <3>1. sup.child + 1 \in Children
      BY <2>1, <2>4, InstanceAssumption DEF Children
    <3> QED BY <1>1, <2>1, <2>4, <3>1 DEF SupSet
  <2> QED BY <2>2, <2>3, <2>4 DEF SupBackoffEnds
<1>4. events' \in Seq(EventSet) /\ Supervised' /\ Numbered'
  <2>1. CASE events' = events
    <3>1. sup.child \in Nat /\ events \in Seq(EventSet) /\ mon.next_run_id \in Nat
      BY DEF Typed, SupTyped, SupSet, Children, MonTyped, MonSet
    <3>2. \A i \in 1 .. Len(events) : events[i].pid \in Nat
      BY EventPids DEF Typed
    <3>3. Supervised'
      BY <1>1, <1>3, <2>1 DEF Supervised
    <3>4. Numbered'
      BY <1>1, <1>3, <2>1, <3>1, <3>2 DEF Numbered
    <3> QED BY <2>1, <3>1, <3>3, <3>4
  <2>2. CASE events' # events
    <3>1. PICK kind \in {"Restarting", "Exited"} \union Finals :
            events' = Emitted(kind) /\ (kind \in Finals => sup'.task = "gone")
      BY <2>2, <1>3 DEF SupBackoffEnds, Finals, Typed, SupTyped, SupSet
    <3>2. sup'.task = "gone"
      BY <2>2 DEF SupBackoffEnds, Typed, SupTyped, SupSet
    <3> QED BY <1>1, <1>3, <3>1, <3>2, Announces DEF Typed
  <2> QED BY <2>1, <2>2
<1>5. Typed'
  BY <1>1, <1>2, <1>3, <1>4 DEF Typed, SupTyped, MonTyped, ProbeTyped, StopTyped
<1>6. Truthful'
  BY <1>1, <1>3, OverSame, TruthSame
<1>7. Stops'
  BY <1>1, <1>2, <1>3, StopsSame DEF Stops, StopProvesDeath
<1>8. Quiet'
  BY <1>1, <1>2, <1>3, QuietSame DEF Quiet
<1>9. Asked'
  BY <1>1, AskedSame
<1> QED BY <1>4, <1>5, <1>6, <1>7, <1>8, <1>9

(* The new child's start is announced with the highest number so far.      *)
LEMMA SupStartedKeeps ==
  ASSUME InstanceIInv, SupStarted
  PROVE  InstanceIInv'
<1> USE DEF InstanceIInv
<1>1. /\ sup.task = "spawning"
      /\ UNCHANGED <<mon, driver, observations, clock, status, log, stop, ask, proven>>
  BY DEF SupStarted
<1>2. /\ flags' \in FlagSet /\ flags'.probe_timeout = flags.probe_timeout
      /\ flags'.probe_cancel = flags.probe_cancel /\ (flags.cancel => flags'.cancel)
  BY Zenon DEF SupStarted, Typed, SupTyped, FlagSet
<1>3. /\ sup' \in SupSet /\ sup'.torn = sup.torn /\ sup'.task = "watch"
      /\ sup'.alive = sup.alive /\ sup'.child = sup.child
  BY ChildNumbers, ZenonT(40) DEF SupStarted, Typed, SupTyped, SupSet
<1>4. /\ sup.child \in Nat /\ events \in Seq(EventSet) /\ mon.next_run_id \in Nat
      /\ sup.child \in Children
  BY DEF Typed, SupTyped, SupSet, Children, MonTyped, MonSet
<1>5. events' \in Seq(EventSet) /\ Supervised' /\ Numbered'
  <2>1. CASE events' = events
    BY <1>1, <1>3, <1>4, <2>1 DEF Supervised, Numbered
  <2>2. CASE events' = Emitted("Started")
    <3> DEFINE e == [kind |-> "Started", pid |-> sup.child]
    <3>1. e \in EventSet /\ e.kind = "Started" /\ e.kind \notin Finals /\ e.pid = sup.child
      BY <1>4 DEF EventSet, Finals
    <3>2. /\ events' \in Seq(EventSet) /\ Len(events') = Len(events) + 1 /\ Len(events) \in Nat
          /\ \A i \in 1 .. Len(events) : events'[i] = events[i]
          /\ events'[Len(events) + 1] = e
      BY <2>2, <3>1, <1>4, AppendFacts DEF Emitted
    <3> HIDE DEF e
    <3>3. \A i \in 1 .. Len(events') : i \in 1 .. Len(events) \/ i = Len(events) + 1
      BY <3>2
    <3>4. Supervised'
      BY <1>1, <1>3, <3>1, <3>2, <3>3 DEF Supervised
    <3>5. \A i \in 1 .. Len(events) : events[i].kind = "Started" =>
            mon.next_run_id < events[i].pid /\ events[i].pid < sup.child
      BY <1>1 DEF Numbered
    <3>6. \A i \in 1 .. Len(events') : events'[i].kind = "Started" =>
            mon.next_run_id < events'[i].pid /\ events'[i].pid <= sup.child
      <4>1. mon.next_run_id < sup.child
        BY <1>1 DEF Numbered
      <4>2. \A i \in 1 .. Len(events) : events[i].pid \in Nat
        BY EventPids DEF Typed
      <4> QED BY <3>1, <3>2, <3>3, <3>5, <4>1, <4>2, <1>4
    <3>7. ASSUME NEW i \in 1 .. Len(events'), NEW j \in 1 .. Len(events'), i < j,
                 events'[i].kind = "Started", events'[j].kind = "Started"
          PROVE  events'[i].pid < events'[j].pid
      <4>1. i \in 1 .. Len(events)
        BY <3>7, <3>2
      <4>2. CASE j \in 1 .. Len(events)
        BY <4>1, <4>2, <3>2, <3>7 DEF Numbered
      <4>3. CASE j = Len(events) + 1
        BY <4>1, <4>3, <3>1, <3>2, <3>5, <3>7
      <4> QED BY <4>2, <4>3, <3>3
    <3>8. Numbered'
      BY <1>1, <1>3, <3>6, <3>7 DEF Numbered
    <3> QED BY <3>2, <3>4, <3>8
  <2> QED BY <2>1, <2>2 DEF SupStarted
<1>6. Typed'
  BY <1>1, <1>2, <1>3, <1>5 DEF Typed, SupTyped, MonTyped, ProbeTyped, StopTyped
<1>7. Truthful'
  BY <1>1, <1>3, OverSame, TruthSame
<1>8. Stops'
  BY <1>1, <1>2, <1>3, StopsSame DEF Stops, StopProvesDeath
<1>9. Quiet'
  BY <1>1, <1>2, <1>3, QuietSame DEF Quiet
<1>10. Asked'
  BY <1>1, AskedSame
<1> QED BY <1>5, <1>6, <1>7, <1>8, <1>9, <1>10

(***************************************************************************)
(* The probe task, the caller of probe_now, and time.                      *)
(***************************************************************************)
(* One more observation: periodic while there is room, or the one asked.   *)
LEMMA ObservationTyped ==
  ASSUME InstanceIInv, NEW well \in BOOLEAN
  PROVE  /\ Append(observations, Observation(well)) \in Seq(ObsSet)
         /\ Len(Append(observations, Observation(well))) = Len(observations) + 1
         /\ Len(observations) \in Nat
<1>1. Observation(well) \in ObsSet
  BY DEF InstanceIInv, Typed, ProbeTyped, DriverSet, ClockSet, ObsSet, Observation
<1> QED BY <1>1, AppendFacts DEF InstanceIInv, Typed, ProbeTyped

(* A periodic probe.                                                       *)
LEMMA DriverProbesKeeps ==
  ASSUME InstanceIInv, NEW well \in BOOLEAN, DriverProbes(well)
  PROVE  InstanceIInv'
<1> USE DEF InstanceIInv
<1>1. UNCHANGED <<sup, events, mon, driver, clock, flags, status, log, stop, ask, proven>>
  BY DEF DriverProbes
<1>2. /\ observations' \in Seq(ObsSet) /\ Len(observations') = Len(observations) + 1
      /\ Len(observations) \in Nat /\ Len(observations) < MaxObservations
  BY ObservationTyped DEF DriverProbes
<1>3. driver # NoDriver
  BY DEF DriverProbes, NoDriver
<1>4. Typed' /\ Truthful' /\ Supervised' /\ Stops' /\ Numbered'
  BY <1>1, <1>2 DEF Typed, SupTyped, MonTyped, ProbeTyped, StopTyped, Truthful, Over, Supervised,
       Stops, StopProvesDeath, Numbered
<1>5. Quiet'
  BY <1>1, <1>3 DEF Quiet
<1>6. Asked'
  BY <1>1, <1>2, InstanceAssumption DEF Asked
<1> QED BY <1>4, <1>5, <1>6

(* The probe that was asked for, and its answer.                           *)
LEMMA DriverReconcilesKeeps ==
  ASSUME InstanceIInv, NEW well \in BOOLEAN, DriverReconciles(well)
  PROVE  InstanceIInv'
<1> USE DEF InstanceIInv
<1>1. UNCHANGED <<sup, events, mon, clock, flags, status, log, stop, proven>>
  BY DEF DriverReconciles
<1>2. /\ observations' \in Seq(ObsSet) /\ Len(observations') = Len(observations) + 1
      /\ Len(observations) \in Nat
  BY ObservationTyped DEF DriverReconciles
<1>3. driver.asked /\ driver # NoDriver /\ ask' = "done"
  BY DEF DriverReconciles, NoDriver
<1>4. driver' \in DriverSet /\ ~driver'.asked
  BY DEF DriverReconciles, Typed, ProbeTyped, DriverSet
<1>5. Typed' /\ Truthful' /\ Supervised' /\ Stops' /\ Numbered'
  BY <1>1, <1>2, <1>3, <1>4 DEF Typed, SupTyped, MonTyped, ProbeTyped, StopTyped, Truthful, Over,
       Supervised, Stops, StopProvesDeath, Numbered
<1>6. Quiet'
  BY <1>1, <1>3 DEF Quiet
<1>7. Asked'
  <2>1. Len(observations) <= MaxObservations
    BY <1>3 DEF Asked
  <2> QED BY <2>1, <1>2, <1>3, <1>4, InstanceAssumption DEF Asked
<1> QED BY <1>5, <1>6, <1>7

(* Somebody asks, a deadline passes.                                       *)
LEMMA AsksOrWaits ==
  ASSUME InstanceIInv,
         ProbeNow \/ \E which \in {"initial", "respawn"} : DeadlinePasses(which)
  PROVE  InstanceIInv'
<1> USE DEF InstanceIInv
<1>1. /\ UNCHANGED <<sup, events, mon, driver, observations, flags, status, log, stop, proven>>
      /\ clock' \in ClockSet /\ ask' \in {"idle", "sent", "driver", "done"}
      /\ ask' = ask \/ ask = "idle"
  BY DEF ProbeNow, DeadlinePasses, Typed, ProbeTyped, ClockSet
<1>2. Typed' /\ Truthful' /\ Supervised' /\ Stops' /\ Numbered' /\ Quiet'
  BY <1>1 DEF Typed, SupTyped, MonTyped, ProbeTyped, StopTyped, Truthful, Over, Supervised,
       Stops, StopProvesDeath, Numbered, Quiet
<1>3. Asked'
  BY <1>1 DEF Asked
<1> QED BY <1>2, <1>3

(***************************************************************************)
(* The monitor.                                                            *)
(***************************************************************************)
(* A persistence error changes the health a status shows and nothing else. *)
LEMMA MaskedFields ==
  ASSUME NEW st \in Statuses
  PROVE  Masked(st) \in Statuses /\ Masked(st).state = st.state /\ Masked(st).pid = st.pid
  BY DEF Masked, Statuses, Healths

(* What a publication leaves in the monitor and on the watch.              *)
LEMMA SendsFields ==
  ASSUME Typed, NEW m \in MonSet, NEW st \in Statuses, NEW back \in MonPcs, Sends(m, st, back)
  PROVE  /\ mon' \in MonSet /\ status' \in Statuses /\ mon'.next_run_id = m.next_run_id
         /\ (mon'.pc = "send" => mon'.send \in Statuses)
         /\ sup.torn => status' = status /\ mon'.send = Masked(st)
         /\ ~sup.torn => status' = Masked(st) /\ mon'.send = m.send /\ mon'.pc # "send"
<1>1. Masked(st) \in Statuses
  BY MaskedFields
<1>2. back \in MonPcs \union {"send", "done", "aborted"} /\ back # "send"
  BY DEF MonPcs
<1>3. CASE sup.torn
  <2>1. mon' = [m EXCEPT !.pc = "send", !.back = back, !.send = Masked(st)] /\ status' = status
    BY <1>3 DEF Sends
  <2> QED BY <1>1, <1>2, <1>3, <2>1 DEF MonSet, Typed, MonTyped
<1>4. CASE ~sup.torn
  <2>1. mon' = [m EXCEPT !.pc = back] /\ status' = Masked(st)
    BY <1>4 DEF Sends
  <2> QED BY <1>1, <1>2, <1>4, <2>1 DEF MonSet
<1> QED BY <1>3, <1>4

(* A truthful status leaves every status in flight truthful.               *)
LEMMA SendsTruth ==
  ASSUME Typed, Truthful, NEW m \in MonSet, NEW st \in Statuses, NEW back \in MonPcs,
         Sends(m, st, back), m.send = mon.send, UNCHANGED log,
         proven \subseteq proven', Over => Over', Claims(st, proven', Over')
  PROVE  Truthful'
<1>1. /\ sup.torn => status' = status /\ mon'.send = Masked(st)
      /\ ~sup.torn => status' = Masked(st) /\ mon'.send = m.send
  BY SendsFields
<1>2. Claims(Masked(st), proven', Over')
  BY MaskedFields DEF Claims
<1>3. /\ Claims(status, proven', Over') /\ Claims(log, proven', Over')
      /\ Claims(mon.send, proven', Over')
  BY DEF Truthful, Claims
<1>4. CASE sup.torn
  BY <1>1, <1>2, <1>3, <1>4 DEF Truthful
<1>5. CASE ~sup.torn
  BY <1>1, <1>2, <1>3, <1>5 DEF Truthful
<1> QED BY <1>4, <1>5

(* A driver that is dropped answers whoever waits for it.                  *)
LEMMA DriverGone ==
  ASSUME InstanceIInv, driver' = NoDriver, ask' \in {ask, "done"}, UNCHANGED observations
  PROVE  /\ driver' \in DriverSet /\ ask' \in {"idle", "sent", "driver", "done"} /\ Asked'
         /\ (flags.probe_timeout => observations' = << >>)
<1>1. NoDriver \in DriverSet /\ ~NoDriver.asked
  BY ChildNumbers DEF NoDriver, DriverSet
<1>2. Asked'
  BY <1>1 DEF InstanceIInv, Asked
<1> QED BY <1>1, <1>2 DEF InstanceIInv, Typed, ProbeTyped, Quiet

(* The status made up earlier is sent.                                     *)
LEMMA MonSendKeeps ==
  ASSUME InstanceIInv, MonSend
  PROVE  InstanceIInv'
<1> USE DEF InstanceIInv
<1>1. UNCHANGED <<sup, events, driver, observations, clock, flags, log, stop, ask, proven>>
  BY DEF MonSend
<1>2. sup.torn
  BY DEF MonSend, Quiet
<1>3. /\ mon' \in MonSet /\ mon'.next_run_id = mon.next_run_id /\ mon'.send = NoStatus
      /\ mon'.pc # "send"
  BY DEF MonSend, Typed, MonTyped, MonSet, MonPcs
<1>4. status' = mon.send /\ status' \in Statuses
  BY DEF MonSend, Typed, MonTyped
<1>5. Typed' /\ Supervised' /\ Stops' /\ Numbered' /\ Quiet' /\ Asked'
  BY <1>1, <1>2, <1>3, <1>4 DEF Typed, SupTyped, MonTyped, ProbeTyped, StopTyped, Supervised,
       Stops, StopProvesDeath, Numbered, Quiet, Asked
<1>6. Claims(NoStatus, proven, Over)
  BY DEF Claims, NoStatus
<1>7. Truthful'
  BY <1>1, <1>3, <1>4, <1>6 DEF Truthful, Over
<1> QED BY <1>5, <1>7

(* A step of the monitor that drops the run and its driver and leaves the  *)
(* status alone: probes are cancelled, or the process exited.              *)
LEMMA RunDropped ==
  ASSUME InstanceIInv, mon' \in MonSet, mon'.pc = "loop", mon'.send = mon.send,
         mon'.next_run_id = mon.next_run_id, driver' = NoDriver, ask' \in {ask, "done"},
         events' = events \/ (events # << >> /\ events' = Tail(events)),
         UNCHANGED <<sup, observations, clock, flags, status, log, stop, proven>>
  PROVE  InstanceIInv'
<1> USE DEF InstanceIInv
<1>1. /\ driver' \in DriverSet /\ ask' \in {"idle", "sent", "driver", "done"} /\ Asked'
      /\ (flags.probe_timeout => observations' = << >>)
  BY DriverGone
<1>2. events' \in Seq(EventSet)
  BY TailFacts DEF Typed, SupTyped
<1>3. Typed'
  BY <1>1, <1>2 DEF Typed, SupTyped, MonTyped, ProbeTyped, StopTyped
<1>4. Truthful'
  BY OverSame, TruthSame
<1>5. Supervised' /\ Numbered'
  BY TakenSupervised, TakenNumbered DEF Typed
<1>6. Stops'
  BY StopsSame DEF Stops, StopProvesDeath
<1>7. Quiet'
  BY <1>1 DEF Quiet
<1> QED BY <1>1, <1>3, <1>4, <1>5, <1>6, <1>7

(* probe_cancel seen, and a process that exited.                           *)
LEMMA MonDropsKeep ==
  ASSUME InstanceIInv, MonProbeCancel \/ MonExited
  PROVE  InstanceIInv'
<1>1. mon \in MonSet /\ NoRun \in Runs \union {NoRun} /\ mon.pc = "loop"
  BY DEF InstanceIInv, Typed, MonTyped, MonProbeCancel, MonExited, MonEvent
<1>2. /\ mon' \in MonSet /\ mon'.pc = "loop" /\ mon'.send = mon.send
      /\ mon'.next_run_id = mon.next_run_id
  BY <1>1 DEF MonProbeCancel, MonExited, MonSet
<1>3. /\ driver' = NoDriver /\ ask' \in {ask, "done"}
      /\ events' = events \/ (events # << >> /\ events' = Tail(events))
      /\ UNCHANGED <<sup, observations, clock, flags, status, log, stop, proven>>
  BY DEF MonProbeCancel, MonExited, MonEvent, StopDriver
<1> QED BY <1>2, <1>3, RunDropped

(* The monitor's last publication: the supervisor has ended.               *)
LEMMA MonEndsKeeps ==
  ASSUME InstanceIInv, NEW st \in Statuses, MonEnds(st), st.state = "Stopped",
         sup.task = "gone", events' = events \/ (events # << >> /\ events' = Tail(events))
  PROVE  InstanceIInv'
<1> USE DEF InstanceIInv
<1>1. /\ driver' = NoDriver /\ ask' \in {ask, "done"} /\ status' = st
      /\ UNCHANGED <<sup, observations, clock, flags, log, stop, proven>>
  BY DEF MonEnds
<1>2. /\ driver' \in DriverSet /\ ask' \in {"idle", "sent", "driver", "done"} /\ Asked'
      /\ (flags.probe_timeout => observations' = << >>)
  BY <1>1, DriverGone
<1>3. events' \in Seq(EventSet)
  BY TailFacts DEF Typed, SupTyped
<1>4. /\ mon' \in MonSet /\ mon'.pc = "done" /\ mon'.send = mon.send
      /\ mon'.next_run_id = mon.next_run_id
  BY DEF MonEnds, Typed, MonTyped, MonSet
<1>5. Typed'
  BY <1>1, <1>2, <1>3, <1>4 DEF Typed, SupTyped, MonTyped, ProbeTyped, StopTyped
<1>6. Over' /\ Claims(st, proven, TRUE)
  BY <1>1 DEF Over, Claims
<1>7. Truthful'
  BY <1>1, <1>4, <1>6 DEF Truthful, Claims
<1>8. Supervised' /\ Numbered'
  BY <1>1, <1>4, TakenSupervised, TakenNumbered DEF Typed
<1>9. Stops'
  BY <1>1, StopsSame DEF Stops, StopProvesDeath
<1>10. Quiet'
  BY <1>1, <1>2, <1>4 DEF Quiet
<1> QED BY <1>2, <1>5, <1>7, <1>8, <1>9, <1>10

(* Stopping and Stopped keep the pid, and clear run and health.            *)
LEMMA PublishedFields ==
  ASSUME NEW st \in Statuses, NEW state \in {"Stopping", "Stopped"}
  PROVE  Published(st, state) \in Statuses /\ Published(st, state).state = state
<1>1. state \in InstanceStates /\ "none" \in Healths
  BY DEF InstanceStates, Healths
<1> QED BY <1>1, ChildNumbers DEF Published, Statuses

(* The supervisor said its last word, or its channel closed.               *)
LEMMA MonFinalKeeps ==
  ASSUME InstanceIInv, MonPreparationFailed \/ MonGaveUp \/ MonStopped \/ MonClosed
  PROVE  InstanceIInv'
<1>1. TerminalStatus \in Statuses /\ TerminalStatus.state = "Stopped"
  BY ChildNumbers DEF TerminalStatus, Statuses, InstanceStates, Healths
<1>2. /\ Published(status, "Stopped") \in Statuses
      /\ Published(status, "Stopped").state = "Stopped"
  BY PublishedFields DEF InstanceIInv, Typed, MonTyped
<1>3. events' = events \/ (events # << >> /\ events' = Tail(events))
  BY DEF MonPreparationFailed, MonGaveUp, MonStopped, MonClosed, MonEvent
<1>4. sup.task = "gone"
  <2>1. CASE MonClosed
    BY <2>1 DEF MonClosed
  <2>2. CASE MonPreparationFailed \/ MonGaveUp \/ MonStopped
    <3>1. events # << >> /\ Head(events).kind \in Finals
      BY <2>2 DEF MonPreparationFailed, MonGaveUp, MonStopped, MonEvent, Finals
    <3>2. Len(events) \in Nat \ {0} /\ Head(events) = events[1]
      BY <3>1, TailFacts DEF InstanceIInv, Typed, SupTyped
    <3>3. 1 \in 1 .. Len(events)
      BY <3>2
    <3> QED BY <3>1, <3>2, <3>3 DEF InstanceIInv, Supervised
  <2> QED BY <2>1, <2>2
<1>5. CASE MonEnds(TerminalStatus)
  BY <1>1, <1>3, <1>4, <1>5, MonEndsKeeps
<1>6. CASE MonEnds(Published(status, "Stopped"))
  BY <1>2, <1>3, <1>4, <1>6, MonEndsKeeps
<1> QED BY <1>5, <1>6 DEF MonPreparationFailed, MonGaveUp, MonStopped, MonClosed

(* A backoff is published: neither Running nor Stopped.                    *)
LEMMA MonRestartingKeeps ==
  ASSUME InstanceIInv, MonRestarting
  PROVE  InstanceIInv'
<1> USE DEF InstanceIInv
<1> DEFINE m == [mon EXCEPT !.run = NoRun, !.respawn = FALSE]
           st == [state |-> "Restarting", pid |-> 0, id |-> 0, health |-> "Starting"]
<1>1. /\ Sends(m, st, "loop") /\ driver' = NoDriver /\ ask' \in {ask, "done"}
      /\ UNCHANGED <<sup, observations, clock, flags, log, stop, proven>>
      /\ events # << >> /\ events' = Tail(events)
  BY DEF MonRestarting, MonEvent, StopDriver
<1>2. NoRun \in Runs \union {NoRun} /\ "loop" \in MonPcs
  BY DEF MonPcs
<1>3. m \in MonSet /\ m.send = mon.send /\ m.next_run_id = mon.next_run_id
  BY <1>2 DEF Typed, MonTyped, MonSet
<1>4. st \in Statuses /\ Claims(st, proven', Over')
  BY ChildNumbers DEF Statuses, InstanceStates, Healths, Claims
<1> HIDE DEF m, st
<1>5. /\ mon' \in MonSet /\ status' \in Statuses /\ mon'.next_run_id = mon.next_run_id
      /\ (mon'.pc = "send" => mon'.send \in Statuses)
      /\ (~sup.torn => mon'.pc # "send")
  BY <1>1, <1>2, <1>3, <1>4, SendsFields
<1>6. Over => Over'
  BY <1>1 DEF Over
<1>7. Truthful'
  BY <1>1, <1>2, <1>3, <1>4, <1>6, SendsTruth
<1>8. /\ driver' \in DriverSet /\ ask' \in {"idle", "sent", "driver", "done"} /\ Asked'
      /\ (flags.probe_timeout => observations' = << >>)
  BY <1>1, DriverGone
<1>9. events' \in Seq(EventSet)
  BY <1>1, TailFacts DEF Typed, SupTyped
<1>10. Typed'
  BY <1>1, <1>5, <1>8, <1>9 DEF Typed, SupTyped, MonTyped, ProbeTyped, StopTyped
<1>11. Supervised' /\ Numbered'
  BY <1>1, <1>5, TakenSupervised, TakenNumbered DEF Typed
<1>12. Stops'
  BY <1>1, StopsSame DEF Stops, StopProvesDeath
<1>13. Quiet'
  BY <1>1, <1>5, <1>8 DEF Quiet
<1> QED BY <1>7, <1>8, <1>10, <1>11, <1>12, <1>13

(* A start makes the next run; with the probes off it has no driver.       *)
LEMMA MonStartedKeeps ==
  ASSUME InstanceIInv, MonStarted
  PROVE  InstanceIInv'
<1> USE DEF InstanceIInv
<1> DEFINE pid == Head(events).pid
           id == mon.next_run_id + 1
           m == [mon EXCEPT !.next_run_id = id, !.run = NewRun(id, pid),
                            !.respawn = mon.ever_ready]
           st == [status EXCEPT !.id = pid, !.health = "Starting"]
<1>1. /\ Sends(m, st, "loop") /\ ask' \in {ask, "done"}
      /\ (driver.asked => ask' = "done")
      /\ UNCHANGED <<sup, observations, flags, log, stop, proven>>
      /\ events # << >> /\ events' = Tail(events) /\ Head(events).kind = "Started"
      /\ ~CancelReady /\ clock' = [clock EXCEPT !.respawn = FALSE]
      /\ driver' = IF mon.probes_cancelled THEN NoDriver
                   ELSE [run |-> id, pid |-> pid, phase |-> "Readiness", asked |-> FALSE]
  BY DEF MonStarted, MonEvent
<1>2. /\ Len(events') = Len(events) - 1 /\ Len(events) \in Nat \ {0}
      /\ Head(events) \in EventSet /\ Head(events) = events[1] /\ events' \in Seq(EventSet)
      /\ \A i \in 1 .. Len(events') : events'[i] = events[i + 1]
  BY <1>1, TailFacts DEF Typed, SupTyped
<1>3. pid \in Children /\ pid \in 0 .. MaxChildren /\ id \in Nat /\ "loop" \in MonPcs
  <2>1. pid \in Children
    BY <1>2 DEF EventSet
  <2>2. mon.next_run_id \in Nat /\ "loop" \in MonPcs
    BY DEF MonPcs, Typed, MonTyped, MonSet
  <2> HIDE DEF pid
  <2> QED BY <2>1, <2>2, ChildNumbers
<1>4. NewRun(id, pid) \in Runs
  BY <1>3 DEF NewRun, Runs, Trackers, NewTracker, Tracker
<1>5. m \in MonSet /\ m.send = mon.send /\ m.next_run_id = id
  BY <1>3, <1>4 DEF Typed, MonTyped, MonSet
<1>6. st \in Statuses /\ st.state = status.state /\ st.pid = status.pid
  BY <1>3 DEF Typed, MonTyped, Statuses, Healths
<1>7. driver' \in DriverSet /\ ~driver'.asked
  BY <1>1, <1>3, ChildNumbers DEF DriverSet, NoDriver
<1>8. flags.probe_timeout => driver' = NoDriver
  BY <1>1 DEF Quiet, CancelReady
<1> HIDE DEF m, st, pid, id
<1>9. /\ mon' \in MonSet /\ status' \in Statuses /\ mon'.next_run_id = id
      /\ (mon'.pc = "send" => mon'.send \in Statuses)
      /\ (~sup.torn => mon'.pc # "send")
  BY <1>1, <1>3, <1>5, <1>6, SendsFields
<1>10. Over => Over'
  BY <1>1 DEF Over
<1>11. Claims(st, proven', Over')
  BY <1>1, <1>6, <1>10 DEF Claims, Truthful
<1>12. Truthful'
  BY <1>1, <1>3, <1>5, <1>6, <1>10, <1>11, SendsTruth
<1>13. clock' \in ClockSet /\ ask' \in {"idle", "sent", "driver", "done"}
  BY <1>1 DEF Typed, ProbeTyped, ClockSet
<1>14. Typed'
  BY <1>1, <1>2, <1>7, <1>9, <1>13 DEF Typed, SupTyped, MonTyped, ProbeTyped, StopTyped
<1>15. Supervised'
  BY <1>1, TakenSupervised DEF Typed
<1>16. Stops'
  BY <1>1, StopsSame DEF Stops, StopProvesDeath
<1>17. Quiet'
  BY <1>1, <1>8, <1>9 DEF Quiet
<1>18. Asked'
  BY <1>1, <1>7 DEF Asked
<1>19. Numbered'
  <2>1. /\ id = mon.next_run_id + 1 /\ mon.next_run_id \in Nat /\ sup.child \in Nat
        /\ 1 \in 1 .. Len(events)
    <3>1. mon.next_run_id \in Nat /\ sup.child \in Children
      BY DEF Typed, MonTyped, MonSet, SupTyped, SupSet
    <3>2. 1 \in 1 .. Len(events)
      BY <1>2
    <3>3. sup.child \in Nat
      BY <3>1, ChildNumbers
    <3> QED BY <3>1, <3>2, <3>3 DEF id
  <2>2. /\ mon.next_run_id < events[1].pid /\ events[1].pid <= sup.child
        /\ sup.task = "spawning" => events[1].pid < sup.child
        /\ events[1].pid \in Nat /\ events[1].kind = "Started"
    BY <1>1, <1>2, <2>1, EventPids DEF Numbered, Typed
  <2>3. id <= sup.child /\ (sup.task = "spawning" => id < sup.child)
    BY <2>1, <2>2
  <2>4. \A i \in 1 .. Len(events') : i + 1 \in 1 .. Len(events) /\ 1 < i + 1
    BY <1>2
  <2>5. ASSUME NEW i \in 1 .. Len(events'), events'[i].kind = "Started"
        PROVE  /\ id < events'[i].pid /\ events'[i].pid <= sup.child
               /\ sup.task = "spawning" => events'[i].pid < sup.child
    <3>1. events'[i] = events[i + 1] /\ i + 1 \in 1 .. Len(events) /\ 1 < i + 1
      BY <1>2, <2>4
    <3>2. events[i + 1].pid \in Nat
      BY <3>1, EventPids DEF Typed
    <3>3. /\ events[1].pid < events[i + 1].pid /\ events[i + 1].pid <= sup.child
          /\ sup.task = "spawning" => events[i + 1].pid < sup.child
      BY <2>1, <2>2, <2>5, <3>1 DEF Numbered
    <3> QED BY <2>1, <2>2, <3>1, <3>2, <3>3
  <2>6. \A i, j \in 1 .. Len(events') :
          i < j /\ events'[i].kind = "Started" /\ events'[j].kind = "Started" =>
            events'[i].pid < events'[j].pid
    <3>1. \A i, j \in 1 .. Len(events') : i < j => i + 1 < j + 1
      OBVIOUS
    <3> QED BY <1>2, <2>4, <3>1 DEF Numbered
  <2> QED BY <1>1, <1>9, <2>3, <2>5, <2>6 DEF Numbered
<1> QED BY <1>12, <1>14, <1>15, <1>16, <1>17, <1>18, <1>19

(* A count above its bound by one at most is within it once one is taken.  *)
LEMMA OneFewer ==
  ASSUME NEW n \in Nat, NEW m \in Nat, n <= m \/ n = m + 1
  PROVE  n - 1 <= m
  OBVIOUS

(* The tracker stays a tracker, whatever was observed.                     *)
LEMMA ObserveTyped ==
  ASSUME NEW t \in Trackers, NEW well \in BOOLEAN, NEW in_grace \in BOOLEAN
  PROVE  Observe(t, well, in_grace) \in Trackers
<1>1. /\ t.state \in {"Starting", "Healthy", "Unhealthy"} /\ t.fails \in Nat /\ t.succs \in Nat
      /\ t.graced \in BOOLEAN
  BY DEF Trackers
<1>2. \A state \in {"Starting", "Healthy", "Unhealthy"}, fails, succs \in Nat, graced \in BOOLEAN :
        Tracker(state, fails, succs, graced) \in Trackers
  BY DEF Tracker, Trackers
<1>3. 0 \in Nat /\ t.succs + 1 \in Nat /\ t.fails + 1 \in Nat
  BY <1>1
<1>4. CASE well /\ t.state = "Healthy"
  <2>1. Observe(t, well, in_grace) = Tracker("Healthy", 0, 0, TRUE)
    BY <1>4 DEF Observe
  <2> QED BY <1>2, <1>3, <2>1
<1>5. CASE well /\ t.state # "Healthy"
  <2>1. Observe(t, well, in_grace) \in
          {Tracker("Healthy", 0, 0, TRUE), Tracker(t.state, 0, t.succs + 1, TRUE)}
    BY <1>5 DEF Observe
  <2> QED BY <1>1, <1>2, <1>3, <2>1, ZenonT(40)
<1>6. CASE ~well /\ (~t.graced /\ in_grace)
  <2>1. Observe(t, well, in_grace) = Tracker(t.state, t.fails, 0, t.graced)
    BY <1>6 DEF Observe
  <2> QED BY <1>1, <1>2, <1>3, <2>1
<1>7. CASE ~well /\ ~(~t.graced /\ in_grace)
  <2> DEFINE n == IF t.fails < FailureThreshold THEN t.fails + 1 ELSE t.fails
             state == IF n >= FailureThreshold THEN "Unhealthy" ELSE t.state
  <2>1. Observe(t, well, in_grace) = Tracker(state, n, 0, t.graced)
    BY <1>7 DEF Observe
  <2>2. n \in Nat /\ state \in {"Starting", "Healthy", "Unhealthy"}
    BY <1>1, <1>3
  <2> HIDE DEF n, state
  <2> QED BY <1>1, <1>2, <1>3, <2>1, <2>2
<1> QED BY <1>4, <1>5, <1>6, <1>7

(* What one observation can change: the run, the driver's phase, what is   *)
(* shown, and the start the supervisor still waits for.                    *)
LEMMA ApplyKeeps ==
  ASSUME InstanceIInv, NEW o \in ObsSet, NEW back \in MonPcs, NEW yes \in BOOLEAN,
         NEW in_grace \in BOOLEAN, Apply(o, back, yes, in_grace), mon.pc = back,
         observations # << >>, observations' = Tail(observations),
         UNCHANGED <<events, clock, flags, log, stop, ask>>
  PROVE  InstanceIInv'
<1> USE DEF InstanceIInv
<1>1. /\ observations' \in Seq(ObsSet) /\ Len(observations') = Len(observations) - 1
      /\ Len(observations) \in Nat \ {0} /\ ~flags.probe_timeout
  BY TailFacts DEF Typed, ProbeTyped, Quiet
<1>2. back # "send"
  BY DEF MonPcs
(* What the step leaves to show: typed, truthful, and the driver as asked. *)
<1> DEFINE Kept ==
      /\ mon' \in MonSet /\ (mon'.pc = "send" => mon'.send \in Statuses) /\ status' \in Statuses
      /\ mon'.next_run_id = mon.next_run_id /\ (~sup.torn => mon'.pc # "send")
      /\ sup' \in SupSet /\ sup'.alive = sup.alive /\ sup'.task = sup.task
      /\ sup'.record = sup.record /\ sup'.child = sup.child /\ sup'.torn = sup.torn
      /\ driver' \in DriverSet /\ driver'.asked = driver.asked /\ proven' \subseteq Children
      /\ Truthful'
<1>3. ASSUME Kept PROVE InstanceIInv'
  <2>1. Typed'
    BY <1>1, <1>3 DEF Typed, SupTyped, MonTyped, ProbeTyped, StopTyped
  <2>2. Supervised' /\ Numbered'
    BY <1>3, TakenSupervised, TakenNumbered DEF Typed
  <2>3. Stops'
    BY <1>3, StopsSame DEF Stops, StopProvesDeath
  <2>4. Quiet'
    BY <1>1, <1>3 DEF Quiet
  <2>5. Asked'
    <3>1. Len(observations) - 1 <= MaxObservations
      <4>1. MaxObservations \in Nat
        BY InstanceAssumption
      <4>2. Len(observations) <= MaxObservations \/ Len(observations) = MaxObservations + 1
        BY DEF Asked
      <4>3. Len(observations) \in Nat
        BY <1>1
      <4> QED BY <4>1, <4>2, <4>3, OneFewer
    <3> QED BY <1>1, <1>3, <3>1 DEF Asked
  <2> QED BY <1>3, <2>1, <2>2, <2>3, <2>4, <2>5
<1>4. CASE (~Applies(o) \/ TooLate(o)) /\ UNCHANGED <<mon, sup, driver, status, proven>>
  <2>1. Truthful'
    BY <1>4, OverSame, TruthSame
  <2>2. Kept
    BY <1>2, <1>4, <2>1 DEF Typed, SupTyped, MonTyped, ProbeTyped, StopTyped
  <2> QED BY <1>3, <2>2
<1> DEFINE t == Observe(mon.run.tracker, o.healthy, in_grace)
           run == [mon.run EXCEPT !.tracker = t]
<1>5. CASE Applies(o)
  <2>1. mon.run \in Runs /\ mon.run.pid \in Children /\ mon.run.tracker \in Trackers
    BY <1>5 DEF Applies, Typed, MonTyped, MonSet, Runs
  <2>2. t \in Trackers /\ t.state \in {"Starting", "Healthy", "Unhealthy"}
    <3>1. o.healthy \in BOOLEAN
      BY DEF ObsSet
    <3>2. t \in Trackers
      BY <2>1, <3>1, ObserveTyped
    <3> QED BY <3>2 DEF Trackers
  <2> HIDE DEF t
  <2>3. run \in Runs /\ run.pid = mon.run.pid
    BY <2>1, <2>2 DEF Runs
  <2>4. /\ [run EXCEPT !.acked = TRUE] \in Runs
        /\ [run EXCEPT !.acked = TRUE, !.ready = TRUE] \in Runs
    BY <2>3 DEF Runs
  <2>5. o.pid = mon.run.pid
    BY <1>5 DEF Applies
  <2> HIDE DEF run
  <2>6. CASE /\ Sends([mon EXCEPT !.run = [run EXCEPT !.acked = TRUE, !.ready = TRUE],
                                  !.ever_ready = TRUE, !.respawn = FALSE],
                      [state |-> "Running", pid |-> run.pid, id |-> status.id,
                       health |-> "Healthy"], back)
             /\ sup' = [sup EXCEPT !.pending = 0]
             /\ \E phase \in {"Liveness", "off"} : driver' = [driver EXCEPT !.phase = phase]
             /\ proven' = IF o.pid = run.pid THEN proven \union {run.pid} ELSE proven
    <3> DEFINE r == [run EXCEPT !.acked = TRUE, !.ready = TRUE]
               m == [mon EXCEPT !.run = r, !.ever_ready = TRUE, !.respawn = FALSE]
               st == [state |-> "Running", pid |-> run.pid, id |-> status.id,
                      health |-> "Healthy"]
    <3>1. r \in Runs
      BY <2>4
    <3> HIDE DEF r
    <3>2. m \in MonSet /\ m.send = mon.send /\ m.next_run_id = mon.next_run_id
      BY <3>1 DEF Typed, MonTyped, MonSet
    <3>3. run.pid \in 0 .. MaxChildren /\ run.pid \in Children
      BY <2>1, <2>3, ChildNumbers
    <3>4. st \in Statuses /\ st.state = "Running" /\ st.pid = run.pid
      BY <3>3 DEF Typed, MonTyped, Statuses, InstanceStates, Healths
    <3>5. /\ sup' \in SupSet /\ sup'.alive = sup.alive /\ sup'.task = sup.task
          /\ sup'.record = sup.record /\ sup'.child = sup.child /\ sup'.torn = sup.torn
      BY <2>6, ChildNumbers DEF Typed, SupTyped, SupSet
    <3>6. driver' \in DriverSet /\ driver'.asked = driver.asked
      BY <2>6 DEF Typed, ProbeTyped, DriverSet
    <3>7. /\ proven \subseteq proven' /\ proven' \subseteq Children /\ run.pid \in proven'
      BY <2>3, <2>5, <2>6, <3>3 DEF Typed, ProbeTyped
    <3>8. Sends(m, st, back)
      BY <2>6 DEF r
    <3> HIDE DEF m, st
    <3>9. Over => Over'
      BY <3>5 DEF Over
    <3>10. Truthful'
      <4>1. Claims(st, proven', Over')
        BY <3>4, <3>7 DEF Claims
      <4> QED BY <3>2, <3>4, <3>7, <3>8, <3>9, <4>1, SendsTruth
    <3>11. /\ mon' \in MonSet /\ (mon'.pc = "send" => mon'.send \in Statuses)
           /\ status' \in Statuses /\ mon'.next_run_id = mon.next_run_id
           /\ (~sup.torn => mon'.pc # "send")
      BY <3>2, <3>4, <3>8, SendsFields
    <3>12. Kept
      BY <3>5, <3>6, <3>7, <3>10, <3>11
    <3> QED BY <1>3, <3>12
  <2>7. CASE /\ mon' = [mon EXCEPT !.run = [run EXCEPT !.acked = TRUE]]
             /\ UNCHANGED <<sup, driver, status, proven>>
    <3> DEFINE r == [run EXCEPT !.acked = TRUE]
    <3>1. r \in Runs /\ mon' = [mon EXCEPT !.run = r]
      BY <2>4, <2>7
    <3> HIDE DEF r
    <3>2. /\ mon' \in MonSet /\ mon'.send = mon.send /\ mon'.next_run_id = mon.next_run_id
          /\ mon'.pc = mon.pc
      BY <3>1 DEF Typed, MonTyped, MonSet
    <3>3. Truthful'
      BY <2>7, <3>2, OverSame, TruthSame
    <3>4. Kept
      BY <1>2, <2>7, <3>2, <3>3 DEF Typed, SupTyped, MonTyped, ProbeTyped
    <3> QED BY <1>3, <3>4
  <2>8. CASE /\ Sends([mon EXCEPT !.run = run], [status EXCEPT !.health = t.state], back)
             /\ UNCHANGED <<sup, driver, proven>>
    <3> DEFINE m == [mon EXCEPT !.run = run]
               st == [status EXCEPT !.health = t.state]
    <3>1. m \in MonSet /\ m.send = mon.send /\ m.next_run_id = mon.next_run_id
      BY <2>3 DEF Typed, MonTyped, MonSet
    <3>2. t.state \in Healths
      BY <2>2 DEF Healths
    <3>3. st \in Statuses /\ st.state = status.state /\ st.pid = status.pid
      BY <3>2 DEF Typed, MonTyped, Statuses
    <3>4. Sends(m, st, back)
      BY <2>8
    <3> HIDE DEF m, st
    <3>5. Over => Over'
      BY <2>8 DEF Over
    <3>6. Truthful'
      <4>1. Claims(st, proven', Over')
        BY <2>8, <3>3, <3>5 DEF Claims, Truthful
      <4> QED BY <2>8, <3>1, <3>3, <3>4, <3>5, <4>1, SendsTruth
    <3>7. /\ mon' \in MonSet /\ (mon'.pc = "send" => mon'.send \in Statuses)
          /\ status' \in Statuses /\ mon'.next_run_id = mon.next_run_id
          /\ (~sup.torn => mon'.pc # "send")
      BY <3>1, <3>3, <3>4, SendsFields
    <3>8. Kept
      BY <2>8, <3>6, <3>7 DEF Typed, SupTyped, ProbeTyped
    <3> QED BY <1>3, <3>8
  <2> QED BY <1>4, <2>6, <2>7, <2>8 DEF Apply, t, run
<1> QED BY <1>4, <1>5 DEF Apply

(* An observation is applied by the select, or drained at a deadline.      *)
LEMMA MonAppliesKeeps ==
  ASSUME InstanceIInv, NEW yes \in BOOLEAN, MonObserves(yes) \/ MonDrains(yes)
  PROVE  InstanceIInv'
<1>1. PICK in_grace \in BOOLEAN : Apply(Head(observations), mon.pc, yes, in_grace)
  BY DEF MonObserves, MonDrains
<1>2. /\ observations # << >> /\ observations' = Tail(observations) /\ mon.pc \in MonPcs
      /\ UNCHANGED <<events, clock, flags, log, stop, ask>>
  BY DEF MonObserves, MonDrains, MonPcs
<1>3. Head(observations) \in ObsSet
  BY <1>2, TailFacts DEF InstanceIInv, Typed, ProbeTyped
<1> QED BY <1>1, <1>2, <1>3, ApplyKeeps

(* A deadline is looked at.                                                *)
LEMMA MonDeadlineKeeps ==
  ASSUME InstanceIInv, NEW which \in {"initial", "respawn"}, MonDeadline(which)
  PROVE  InstanceIInv'
<1> USE DEF InstanceIInv
<1>1. /\ mon' = [mon EXCEPT !.pc = which]
      /\ UNCHANGED <<sup, events, driver, observations, clock, flags, status, log, stop, ask,
                     proven>>
  BY DEF MonDeadline
<1>2. /\ mon' \in MonSet /\ mon'.send = mon.send /\ mon'.next_run_id = mon.next_run_id
      /\ mon'.pc # "send"
  BY <1>1 DEF Typed, MonTyped, MonSet, MonPcs
<1>3. Typed' /\ Supervised' /\ Stops' /\ Numbered' /\ Quiet' /\ Asked'
  BY <1>1, <1>2 DEF Typed, SupTyped, MonTyped, ProbeTyped, StopTyped, Supervised,
       Stops, StopProvesDeath, Numbered, Quiet, Asked
<1>4. Truthful'
  BY <1>1, <1>2, OverSame, TruthSame
<1> QED BY <1>3, <1>4

(* The core missed its deadline: run and driver go, the probes are off and *)
(* nothing they found is left; or it became ready in the drain after all.  *)
LEMMA MonTimesOutKeeps ==
  ASSUME InstanceIInv, MonTimesOut
  PROVE  InstanceIInv'
<1> USE DEF InstanceIInv
<1>1. /\ UNCHANGED <<sup, events, observations, clock, status, log, stop, proven>>
      /\ observations = << >>
  BY DEF MonTimesOut
<1>2. mon \in MonSet /\ NoRun \in Runs \union {NoRun} /\ (mon.timeout_fired \/ mon.pc = "initial") \in BOOLEAN
  BY DEF Typed, MonTyped
<1>3. CASE /\ mon' = [mon EXCEPT !.pc = "loop", !.run = NoRun, !.respawn = FALSE,
                                 !.timeout_fired = @ \/ mon.pc = "initial"]
           /\ flags' = TimesOut(flags)
           /\ StopDriver
  <2>1. /\ mon' \in MonSet /\ mon'.send = mon.send /\ mon'.next_run_id = mon.next_run_id
        /\ mon'.pc # "send"
    BY <1>2, <1>3 DEF MonSet, MonPcs
  <2>2. flags' \in FlagSet /\ flags'.probe_timeout /\ flags'.probe_cancel /\ flags'.cancel
    BY <1>3 DEF Typed, SupTyped, FlagSet, TimesOut
  <2>3. driver' = NoDriver /\ ask' \in {ask, "done"}
    BY <1>3 DEF StopDriver
  <2>4. driver' \in DriverSet /\ ask' \in {"idle", "sent", "driver", "done"} /\ Asked'
    BY <1>1, <2>3, DriverGone
  <2>5. Typed'
    BY <1>1, <2>1, <2>2, <2>4 DEF Typed, SupTyped, MonTyped, ProbeTyped, StopTyped
  <2>6. Truthful'
    BY <1>1, <2>1, OverSame, TruthSame
  <2>7. Supervised' /\ Numbered'
    BY <1>1, <2>1, TakenSupervised, TakenNumbered DEF Typed
  <2>8. Stops'
    BY <1>1, <2>2, StopsSame DEF Stops, StopProvesDeath
  <2>9. Quiet'
    BY <1>1, <2>1, <2>2, <2>3 DEF Quiet
  <2> QED BY <2>4, <2>5, <2>6, <2>7, <2>8, <2>9
<1>4. CASE mon' = [mon EXCEPT !.pc = "loop"] /\ UNCHANGED <<flags, driver, ask>>
  <2>1. /\ mon' \in MonSet /\ mon'.send = mon.send /\ mon'.next_run_id = mon.next_run_id
        /\ mon'.pc # "send"
    BY <1>4 DEF Typed, MonTyped, MonSet, MonPcs
  <2>2. Typed' /\ Supervised' /\ Stops' /\ Numbered' /\ Quiet' /\ Asked'
    BY <1>1, <1>4, <2>1 DEF Typed, SupTyped, MonTyped, ProbeTyped, StopTyped, Supervised,
         Stops, StopProvesDeath, Numbered, Quiet, Asked
  <2>3. Truthful'
    BY <1>1, <1>4, <2>1, OverSame, TruthSame
  <2> QED BY <2>2, <2>3
<1> QED BY <1>3, <1>4 DEF MonTimesOut

(* A request goes to the driver of a ready run, or is answered at once.    *)
LEMMA MonRequestKeeps ==
  ASSUME InstanceIInv, MonRequest
  PROVE  InstanceIInv'
<1> USE DEF InstanceIInv
<1>1. /\ UNCHANGED <<sup, events, mon, observations, clock, flags, status, log, stop, proven>>
      /\ ask = "sent"
  BY DEF MonRequest
<1>2. \/ ask' = "driver" /\ driver' = [driver EXCEPT !.asked = TRUE] /\ driver # NoDriver
      \/ ask' = "done" /\ driver' = driver
  BY DEF MonRequest, NoDriver
<1>3. driver' \in DriverSet /\ (driver'.asked => ask' = "driver")
  BY <1>1, <1>2 DEF Typed, ProbeTyped, DriverSet, Asked
<1>4. Typed' /\ Truthful' /\ Supervised' /\ Stops' /\ Numbered'
  BY <1>1, <1>2, <1>3 DEF Typed, SupTyped, MonTyped, ProbeTyped, StopTyped, Truthful, Over,
       Supervised, Stops, StopProvesDeath, Numbered
<1>5. Quiet'
  BY <1>1, <1>2 DEF Quiet
<1>6. Asked'
  BY <1>1, <1>3 DEF Asked
<1> QED BY <1>4, <1>5, <1>6

(***************************************************************************)
(* Log frames.                                                             *)
(***************************************************************************)
(* A cache failure shows as Unhealthy, at once or with the next send.      *)
LEMMA LogKeeps ==
  ASSUME InstanceIInv, LogFailure \/ LogSend
  PROVE  InstanceIInv'
<1> USE DEF InstanceIInv
<1>1. /\ UNCHANGED <<sup, events, mon, driver, observations, clock, stop, ask, proven>>
      /\ flags' \in FlagSet /\ flags'.probe_timeout = flags.probe_timeout
      /\ flags'.probe_cancel = flags.probe_cancel /\ flags'.cancel = flags.cancel
  BY DEF LogFailure, LogSend, Typed, SupTyped, FlagSet
<1>2. /\ status' \in Statuses /\ log' \in Statuses \union {NoStatus}
      /\ Claims(status', proven, Over) /\ Claims(log', proven, Over)
      /\ (~sup.torn => log' = NoStatus)
  <2>1. CASE LogSend
    <3>1. Claims(NoStatus, proven, Over)
      BY DEF Claims, NoStatus
    <3> QED BY <2>1, <3>1 DEF LogSend, Typed, MonTyped, Truthful
  <2>2. CASE LogFailure
    <3> DEFINE st == IF status.health = "none" THEN status
                     ELSE [status EXCEPT !.health = "Unhealthy"]
    <3>1. st \in Statuses /\ st.state = status.state /\ st.pid = status.pid
      BY DEF Typed, MonTyped, Statuses, Healths
    <3>2. \/ sup.torn /\ log' = st /\ status' = status
          \/ ~sup.torn /\ status' = st /\ log' = log
      BY <2>2 DEF LogFailure
    <3> HIDE DEF st
    <3>3. Claims(st, proven, Over)
      BY <3>1 DEF Claims, Truthful
    <3>4. log = NoStatus
      BY <2>2 DEF LogFailure
    <3> QED BY <3>1, <3>2, <3>3, <3>4 DEF Typed, MonTyped, Truthful
  <2> QED BY <2>1, <2>2
<1>3. Typed' /\ Supervised' /\ Numbered' /\ Asked'
  BY <1>1, <1>2 DEF Typed, SupTyped, MonTyped, ProbeTyped, StopTyped, Supervised, Numbered, Asked
<1>4. Truthful'
  BY <1>1, <1>2 DEF Truthful, Over
<1>5. Stops'
  BY <1>1, StopsSame DEF Stops, StopProvesDeath
<1>6. Quiet'
  BY <1>1, <1>2 DEF Quiet
<1> QED BY <1>3, <1>4, <1>5, <1>6

(***************************************************************************)
(* stop_and_confirm_dead                                                   *)
(***************************************************************************)
(* A step of the stop that leaves the processes alone: what it has learnt  *)
(* is for the step to say.                                                 *)
LEMMA StopAlone ==
  ASSUME InstanceIInv, stop' \in StopSet, flags' \in FlagSet,
         flags'.probe_timeout = flags.probe_timeout,
         flags.probe_cancel => flags'.probe_cancel,
         stop.pc \in {"ok", "store"} => stop'.pc \in {"ok", "store"}, Stops',
         sup' \in SupSet, sup'.alive = sup.alive, sup'.task = sup.task,
         sup'.record = sup.record, sup'.child = sup.child, sup'.torn = sup.torn,
         UNCHANGED <<events, mon, driver, observations, clock, log, ask, proven>>,
         status' = status \/ (status' \in Statuses /\ status'.state = "Stopping")
  PROVE  InstanceIInv'
<1> USE DEF InstanceIInv
<1>1. Typed'
  BY DEF Typed, SupTyped, MonTyped, ProbeTyped, StopTyped
<1>2. Over => Over'
  BY OverSame
<1>3. Truthful'
  BY <1>2 DEF Truthful, Claims
<1>4. Supervised' /\ Numbered'
  BY TakenSupervised, TakenNumbered DEF Typed
<1>5. Quiet' /\ Asked'
  BY QuietSame, AskedSame DEF Quiet
<1> QED BY <1>1, <1>3, <1>4, <1>5

(* The flags go up, Stopping is published, the supervisor is taken.        *)
LEMMA StopBeginsKeeps ==
  ASSUME InstanceIInv, StopFlags \/ StopPublishes \/ StopTakes
  PROVE  InstanceIInv'
<1> USE DEF InstanceIInv
<1>1. CASE StopFlags
  <2>1. /\ stop' \in StopSet /\ stop.pc = "idle" /\ stop'.pc \in {"take", "publish"}
        /\ stop'.terminal = stop.terminal
    BY <1>1 DEF StopFlags, Typed, StopTyped, StopSet
  <2>2. /\ flags' \in FlagSet /\ flags'.probe_timeout = flags.probe_timeout
        /\ flags'.probe_cancel /\ flags'.cancel = flags.cancel
    BY <1>1 DEF StopFlags, Typed, SupTyped, FlagSet
  <2>3. UNCHANGED <<sup, events, mon, driver, observations, clock, status, log, ask, proven>>
    BY <1>1 DEF StopFlags
  <2>4. Stops'
    BY <2>1, <2>2, <2>3 DEF Stops, StopProvesDeath
  <2>5. sup' \in SupSet
    BY <2>3 DEF Typed, SupTyped
  <2> QED BY <2>1, <2>2, <2>3, <2>4, <2>5, StopAlone
<1>2. CASE StopPublishes
  <2>1. stop' \in StopSet /\ stop.pc = "publish" /\ stop'.pc = "take"
    BY <1>2 DEF StopPublishes, Typed, StopTyped, StopSet
  <2>2. UNCHANGED <<sup, events, mon, driver, observations, clock, flags, log, ask, proven>>
    BY <1>2 DEF StopPublishes
  <2>3. status' \in Statuses /\ status'.state = "Stopping"
    BY <1>2, PublishedFields DEF StopPublishes, Typed, MonTyped
  <2>4. Stops'
    BY <2>1, <2>2 DEF Stops, StopProvesDeath
  <2>5. sup' \in SupSet /\ flags' \in FlagSet
    BY <2>2 DEF Typed, SupTyped
  <2> QED BY <2>1, <2>2, <2>3, <2>4, <2>5, StopAlone
<1>3. CASE StopTakes
  <2>1. stop' \in StopSet /\ stop.pc = "take" /\ stop'.pc = "stopping"
    BY <1>3 DEF StopTakes, Typed, StopTyped, StopSet
  <2>2. /\ flags' \in FlagSet /\ flags'.probe_timeout = flags.probe_timeout
        /\ flags'.probe_cancel = flags.probe_cancel /\ flags'.cancel
    BY <1>3 DEF StopTakes, Typed, SupTyped, FlagSet
  <2>3. /\ sup' \in SupSet /\ sup'.alive = sup.alive /\ sup'.task = sup.task
        /\ sup'.record = sup.record /\ sup'.child = sup.child /\ sup'.torn = sup.torn
    BY <1>3 DEF StopTakes, Typed, SupTyped, SupSet
  <2>4. UNCHANGED <<events, mon, driver, observations, clock, status, log, ask, proven>>
    BY <1>3 DEF StopTakes
  <2>5. Stops'
    BY <2>1, <2>2, <2>3 DEF Stops, StopProvesDeath
  <2> QED BY <2>1, <2>2, <2>3, <2>4, <2>5, StopAlone
<1> QED BY <1>1, <1>2, <1>3

(* The supervisor's stop returned in time, or not.                         *)
LEMMA StopSupervisedKeeps ==
  ASSUME InstanceIInv, StopSupervised
  PROVE  InstanceIInv'
<1> USE DEF InstanceIInv
<1>1. /\ UNCHANGED <<sup, events, mon, driver, observations, clock, flags, status, log, ask,
                     proven>>
      /\ stop.pc = "stopping"
  BY DEF StopSupervised
<1>2. (~sup.stuck) \in BOOLEAN
  BY Zenon
<1>3. stop' \in StopSet /\ stop'.pc = "join" /\ (stop'.ok => sup.task = "gone")
  <2>1. CASE sup.task = "gone"
    BY <2>1, <1>2 DEF StopSupervised, Typed, StopTyped, StopSet
  <2>2. CASE sup.task # "gone"
    BY <2>2 DEF StopSupervised, Typed, StopTyped, StopSet
  <2> QED BY <2>1, <2>2
<1>4. Stops'
  BY <1>1, <1>3 DEF Stops, StopProvesDeath
<1>5. sup' \in SupSet /\ flags' \in FlagSet
  BY <1>1 DEF Typed, SupTyped
<1> QED BY <1>1, <1>3, <1>4, <1>5, StopAlone

(* The monitor is joined, or aborted with its driver.                      *)
LEMMA StopJoinsKeeps ==
  ASSUME InstanceIInv, StopJoins
  PROVE  InstanceIInv'
<1> USE DEF InstanceIInv
<1>1. /\ UNCHANGED <<sup, events, observations, clock, flags, status, log, proven>>
      /\ stop.pc = "join"
  BY DEF StopJoins
<1>2. stop' \in StopSet /\ stop'.pc = "check" /\ stop'.ok = stop.ok
  BY DEF StopJoins, Typed, StopTyped, StopSet
<1>3. Stops'
  BY <1>1, <1>2 DEF Stops, StopProvesDeath
<1>4. CASE UNCHANGED <<mon, driver, ask>>
  <2>1. sup' \in SupSet /\ flags' \in FlagSet
    BY <1>1 DEF Typed, SupTyped
  <2> QED BY <1>1, <1>2, <1>3, <1>4, <2>1, StopAlone
<1>5. CASE /\ mon' = [mon EXCEPT !.pc = "aborted"] /\ driver' = NoDriver
           /\ ask' \in {ask, "done"}
  <2>1. /\ mon' \in MonSet /\ mon'.send = mon.send /\ mon'.next_run_id = mon.next_run_id
        /\ mon'.pc # "send"
    BY <1>5 DEF Typed, MonTyped, MonSet
  <2>2. /\ driver' \in DriverSet /\ ask' \in {"idle", "sent", "driver", "done"} /\ Asked'
        /\ (flags.probe_timeout => observations' = << >>)
    BY <1>1, <1>5, DriverGone
  <2>3. Typed'
    BY <1>1, <1>2, <2>1, <2>2 DEF Typed, SupTyped, MonTyped, ProbeTyped, StopTyped
  <2>4. Truthful'
    BY <1>1, <1>2, <2>1, OverSame, TruthSame
  <2>5. Supervised' /\ Numbered'
    BY <1>1, <2>1, TakenSupervised, TakenNumbered DEF Typed
  <2>6. Quiet'
    BY <1>1, <1>5, <2>1, <2>2 DEF Quiet
  <2> QED BY <1>3, <2>2, <2>3, <2>4, <2>5, <2>6
<1> QED BY <1>4, <1>5 DEF StopJoins

(* An agreed stop has the end of the supervisor; a terminal status that    *)
(* goes to the reap has it too.                                            *)
LEMMA StopChecksKeeps ==
  ASSUME InstanceIInv, StopChecks
  PROVE  InstanceIInv'
<1> USE DEF InstanceIInv
<1>1. /\ UNCHANGED <<sup, events, mon, driver, observations, clock, flags, status, log, ask,
                     proven>>
      /\ stop.pc = "check"
  BY DEF StopChecks
<1> DEFINE terminal == is_terminal(status)
<1>2. terminal \in BOOLEAN
  BY Zenon DEF is_terminal
<1>3. /\ stop' \in StopSet /\ stop'.ok = stop.ok /\ stop'.terminal = terminal
      /\ \/ stop'.pc \in {"ok", "store"} /\ stop.ok
         \/ stop'.pc = "reap"
  <2>1. Confirmed \subseteq {"ok", "store"}
    BY DEF Confirmed
  <2> HIDE DEF terminal
  <2>2. \/ StopAgreed(terminal)
           /\ \E pc \in Confirmed : stop' = [stop EXCEPT !.pc = pc, !.terminal = terminal]
        \/ stop' = [stop EXCEPT !.pc = "reap", !.terminal = terminal]
    BY DEF StopChecks, terminal
  <2> QED BY <2>1, <2>2, <1>2 DEF StopAgreed, Typed, StopTyped, StopSet
<1>4. terminal => sup.task = "gone"
  BY <1>1 DEF is_terminal, Truthful, Claims, Over
<1> HIDE DEF terminal
<1>5. sup.task = "gone" => ~sup.alive
  BY DEF Supervised
<1>6. Stops'
  BY <1>1, <1>3, <1>4, <1>5 DEF Stops, StopProvesDeath
<1>7. sup' \in SupSet /\ flags' \in FlagSet
  BY <1>1 DEF Typed, SupTyped
<1> QED BY <1>1, <1>3, <1>6, <1>7, StopAlone

(* The record proves the death of the process it names, its absence only   *)
(* together with a terminal status.                                        *)
LEMMA StopReapsKeeps ==
  ASSUME InstanceIInv, NEW outcome \in {"NotFound", "AlreadyExited", "Killed", "Err"},
         StopReaps(outcome)
  PROVE  InstanceIInv'
<1> USE DEF InstanceIInv
<1>1. /\ UNCHANGED <<events, mon, driver, observations, clock, flags, log, ask, proven>>
      /\ stop.pc = "reap"
  BY DEF StopReaps
<1>2. /\ sup' \in SupSet /\ sup'.task = sup.task /\ sup'.child = sup.child
      /\ sup'.torn = sup.torn /\ (sup'.alive => sup.alive) /\ (sup'.record => sup.record)
      /\ (outcome \in {"AlreadyExited", "Killed"} => ~sup'.alive /\ sup.task = "watch")
      /\ (outcome \notin {"AlreadyExited", "Killed"} => sup' = sup)
  <2>1. sup \in SupSet
    BY DEF Typed, SupTyped
  <2>2. CASE outcome \in {"AlreadyExited", "Killed"}
    <3>1. sup.record /\ sup.task = "watch"
      BY <2>2 DEF StopReaps, Reaped, Supervised
    <3>2. sup' = [sup EXCEPT !.alive = FALSE, !.record = FALSE,
                             !.exit = IF sup.alive THEN "crash" ELSE @]
      BY <2>2 DEF StopReaps
    <3> QED BY <2>1, <2>2, <3>1, <3>2 DEF SupSet
  <2>3. CASE outcome \notin {"AlreadyExited", "Killed"}
    BY <2>1, <2>3 DEF StopReaps
  <2> QED BY <2>2, <2>3
<1>3. \/ Proven(outcome) /\ stop' \in StopSet /\ stop'.pc \in {"ok", "store"} /\ stop'.ok = stop.ok
         /\ status' \in {status, Published(status, "Stopped")}
      \/ stop' \in StopSet /\ stop'.pc = "unconfirmed" /\ stop'.ok = stop.ok /\ status' = status
  <2>1. Confirmed \subseteq {"ok", "store"}
    BY DEF Confirmed
  <2>2. CASE Proven(outcome)
    <3>1. status' \in {status, Published(status, "Stopped")}
      BY <2>2 DEF StopReaps
    <3>2. \E pc \in {"ok", "store"} : stop' = [stop EXCEPT !.pc = pc]
      BY <2>1, <2>2 DEF StopReaps
    <3>3. stop' \in StopSet /\ stop'.pc \in {"ok", "store"} /\ stop'.ok = stop.ok
      BY <3>2 DEF Typed, StopTyped, StopSet
    <3> QED BY <2>2, <3>1, <3>3
  <2>3. CASE ~Proven(outcome)
    <3>1. status' = status /\ stop' = [stop EXCEPT !.pc = "unconfirmed"]
      BY <2>3 DEF StopReaps
    <3> QED BY <3>1 DEF Typed, StopTyped, StopSet
  <2> QED BY <2>2, <2>3
<1>4. status' \in Statuses
  BY <1>3, PublishedFields DEF Typed, MonTyped
<1>5. Proven(outcome) => ~sup'.alive /\ sup'.task \in {"watch", "gone"}
  <2>1. stop.terminal => sup.task = "gone" /\ ~sup.alive
    BY <1>1 DEF Stops, Supervised
  <2> QED BY <1>2, <2>1 DEF Proven
<1>6. Typed'
  BY <1>1, <1>2, <1>3, <1>4 DEF Typed, SupTyped, MonTyped, ProbeTyped, StopTyped
<1>7. Truthful'
  <2>1. (Over => Over') /\ (stop'.pc \in {"ok", "store"} => Over')
    BY <1>1, <1>2 DEF Over
  <2>2. Published(status, "Stopped").state = "Stopped"
    BY PublishedFields DEF Typed, MonTyped
  <2>3. Claims(status', proven', Over')
    BY <1>1, <1>3, <2>1, <2>2 DEF Claims, Truthful
  <2> QED BY <1>1, <2>1, <2>3 DEF Truthful, Claims
<1>8. Supervised'
  BY <1>1, <1>2 DEF Supervised
<1>9. Numbered'
  BY <1>1, <1>2, TakenNumbered DEF Typed
<1>10. Stops'
  BY <1>1, <1>2, <1>3, <1>5 DEF Stops, StopProvesDeath
<1>11. Quiet' /\ Asked'
  BY <1>1, <1>2, QuietSame, AskedSame DEF Quiet
<1> QED BY <1>6, <1>7, <1>8, <1>9, <1>10, <1>11

(***************************************************************************)
(* The invariant, and what it says.                                        *)
(***************************************************************************)
(* At first one child is started and nothing is known of it.               *)
LEMMA InstanceStarts ==
  ASSUME InstanceInit
  PROVE  InstanceIInv
<1> USE DEF InstanceInit
<1>1. PICK stuck, native, torn \in BOOLEAN :
        sup = [child |-> 1, alive |-> TRUE, exit |-> "none", record |-> TRUE,
               task |-> "watch", restarts |-> IF torn \/ stuck THEN MaxRestarts ELSE 0,
               pending |-> 1, slot |-> TRUE, stuck |-> stuck, native |-> native, torn |-> torn]
  OBVIOUS
<1>2. 1 \in Children /\ 1 \in 0 .. MaxChildren /\ 0 \in 0 .. MaxRestarts /\ MaxRestarts \in 0 .. MaxRestarts
  BY InstanceAssumption DEF Children
<1>3. sup \in SupSet /\ sup.task = "watch" /\ sup.child = 1
  BY <1>1, <1>2 DEF SupSet
<1> DEFINE e == [kind |-> "Started", pid |-> 1]
<1>4. e \in EventSet /\ e.kind = "Started" /\ e.kind \notin Finals /\ e.pid = 1
  BY <1>2 DEF EventSet, Finals
<1>5. events = << e >>
  OBVIOUS
<1> HIDE DEF e
<1>6. events \in Seq(EventSet) /\ Len(events) = 1 /\ events[1] = e
  BY <1>4, <1>5
<1>7. SupTyped
  BY <1>3, <1>6 DEF SupTyped, FlagSet
<1>8. /\ status \in Statuses /\ status.state = "Starting" /\ log = NoStatus
  BY ChildNumbers DEF Statuses, InstanceStates, Healths
<1>9. mon \in MonSet /\ mon.pc = "loop" /\ mon.next_run_id = 0 /\ mon.send = NoStatus
  BY DEF MonSet, MonPcs
<1>10. driver \in DriverSet /\ ~driver.asked /\ observations = << >> /\ clock \in ClockSet
  BY ChildNumbers DEF DriverSet, NoDriver, ClockSet
<1>11. ask \in {"idle", "sent", "driver", "done"} /\ proven \subseteq Children
  OBVIOUS
<1>12. stop \in StopSet /\ stop.pc = "idle"
  BY DEF StopSet
<1>13. Typed
  BY <1>7, <1>8, <1>9, <1>10, <1>11, <1>12 DEF Typed, MonTyped, ProbeTyped, StopTyped
<1>14. Truthful
  BY <1>8, <1>9 DEF Truthful, Claims, NoStatus
<1>15. Supervised
  BY <1>3, <1>4, <1>6 DEF Supervised
<1>16. Stops
  BY <1>12 DEF Stops, StopProvesDeath
<1>17. Quiet
  BY <1>8, <1>9 DEF Quiet
<1>18. Numbered
  BY <1>3, <1>4, <1>6, <1>9 DEF Numbered
<1>19. Asked
  BY <1>10, InstanceAssumption DEF Asked
<1> QED BY <1>13, <1>14, <1>15, <1>16, <1>17, <1>18, <1>19 DEF InstanceIInv

(* Every step keeps the invariant.                                         *)
LEMMA InstanceSteps ==
  ASSUME InstanceIInv, [InstanceNext]_ivars
  PROVE  InstanceIInv'
<1>1. CASE \E how \in {"clean", "crash"} : ChildExits(how)
  BY <1>1, ChildEnds DEF ChildExits
<1>2. CASE ChildKilled
  BY <1>2, ChildEnds DEF ChildKilled
<1>3. CASE SupervisorStep
  BY <1>3, SupExitedKeeps, SupDecidesKeeps, SupBackoffKeeps, SupStartedKeeps DEF SupervisorStep
<1>4. CASE MonitorStep
  <2>1. CASE MonSend
    BY <2>1, MonSendKeeps
  <2>2. CASE MonProbeCancel \/ MonExited
    BY <2>2, MonDropsKeep
  <2>3. CASE MonStarted
    BY <2>3, MonStartedKeeps
  <2>4. CASE MonRestarting
    BY <2>4, MonRestartingKeeps
  <2>5. CASE MonPreparationFailed \/ MonGaveUp \/ MonStopped \/ MonClosed
    BY <2>5, MonFinalKeeps
  <2>6. CASE MonTimesOut
    BY <2>6, MonTimesOutKeeps
  <2>7. CASE MonRequest
    BY <2>7, MonRequestKeeps
  <2>8. CASE \E which \in {"initial", "respawn"} : MonDeadline(which)
    BY <2>8, MonDeadlineKeeps
  <2>9. CASE \E yes \in BOOLEAN : MonObserves(yes) \/ MonDrains(yes)
    BY <2>9, MonAppliesKeeps
  <2> QED BY <1>4, <2>1, <2>2, <2>3, <2>4, <2>5, <2>6, <2>7, <2>8, <2>9 DEF MonitorStep
<1>5. CASE \E well \in BOOLEAN : DriverProbes(well) \/ DriverReconciles(well)
  BY <1>5, DriverProbesKeeps, DriverReconcilesKeeps
<1>6. CASE LogFailure \/ LogSend
  BY <1>6, LogKeeps
<1>7. CASE ProbeNow \/ \E which \in {"initial", "respawn"} : DeadlinePasses(which)
  BY <1>7, AsksOrWaits
<1>8. CASE StopFlags \/ StopStep
  <2>1. CASE StopFlags \/ StopPublishes \/ StopTakes
    BY <2>1, StopBeginsKeeps
  <2>2. CASE StopSupervised
    BY <2>2, StopSupervisedKeeps
  <2>3. CASE StopJoins
    BY <2>3, StopJoinsKeeps
  <2>4. CASE StopChecks
    BY <2>4, StopChecksKeeps
  <2>5. CASE \E outcome \in {"NotFound", "AlreadyExited", "Killed", "Err"} : StopReaps(outcome)
    BY <2>5, StopReapsKeeps
  <2> QED BY <1>8, <2>1, <2>2, <2>3, <2>4, <2>5 DEF StopStep
<1>9. CASE UNCHANGED ivars
  BY <1>9 DEF ivars, InstanceIInv, Typed, SupTyped, MonTyped, ProbeTyped, StopTyped, Truthful,
       Over, Supervised, Stops, StopProvesDeath, Quiet, Numbered, Asked
<1> QED BY <1>1, <1>2, <1>3, <1>4, <1>5, <1>6, <1>7, <1>8, <1>9 DEF InstanceNext

(* The inductive invariant of an instance.                                 *)
THEOREM InstanceInvariant == InstanceSpec => []InstanceIInv
<1>1. InstanceInit => InstanceIInv
  BY InstanceStarts
<1>2. InstanceIInv /\ [InstanceNext]_ivars => InstanceIInv'
  BY InstanceSteps
<1> QED BY <1>1, <1>2, PTL DEF InstanceSpec

(* The types follow from it.                                               *)
LEMMA InstanceShape == InstanceIInv => InstanceTypeOK
<1> SUFFICES ASSUME InstanceIInv PROVE InstanceTypeOK
  OBVIOUS
<1> USE DEF InstanceIInv
<1>1. /\ sup.child \in Children /\ sup.restarts \in 0 .. MaxRestarts
      /\ sup.pending \in 0 .. MaxChildren
  BY DEF Typed, SupTyped, SupSet
<1>2. /\ mon.next_run_id \in Nat /\ status \in Statuses
      /\ mon.send \in Statuses \union {NoStatus} /\ log \in Statuses \union {NoStatus}
  BY DEF Typed, MonTyped, MonSet
<1>3. mon.next_run_id \in 0 .. MaxChildren
  <2>1. mon.next_run_id <= sup.child
    BY DEF Numbered
  <2> QED BY <1>1, <1>2, <2>1, InstanceAssumption DEF Children
<1>4. Len(observations) <= MaxObservations + 1 /\ proven \subseteq Children
  <2>1. Len(observations) \in Nat /\ proven \subseteq Children
    BY DEF Typed, ProbeTyped
  <2> QED BY <2>1, InstanceAssumption DEF Asked
<1> QED BY <1>1, <1>2, <1>3, <1>4 DEF InstanceTypeOK

(* An instance's state has its type: no run is numbered beyond the         *)
(* children started, and at most one observation more than the bound waits.*)
THEOREM InstanceTypes == InstanceSpec => []InstanceTypeOK
  BY InstanceShape, InstanceInvariant, PTL

(* Running is published only for a process that its own probe found        *)
(* healthy and the supervisor acknowledged, whatever observation arrives   *)
(* late and whatever stale status a publisher started from.                *)
THEOREM RunningIsAcknowledged == InstanceSpec => []RunningIsProven
<1>1. InstanceIInv => RunningIsProven
  BY DEF InstanceIInv, Truthful, Claims, RunningIsProven
<1> QED BY <1>1, InstanceInvariant, PTL

(* stop_and_confirm_dead says Ok only of a dead process that nobody is left*)
(* to replace, also when the supervisor's own stop timed out.              *)
THEOREM StopIsProof == InstanceSpec => []StopProvesDeath
<1>1. InstanceIInv => StopProvesDeath
  BY DEF InstanceIInv, Stops
<1> QED BY <1>1, InstanceInvariant, PTL

(* After a timeout no publisher has anything that says Running.            *)
LEMMA LateNeverRuns ==
  ASSUME InstanceIInv, [InstanceNext]_ivars,
         flags.probe_timeout, ~sup.torn, status.state # "Running"
  PROVE  status'.state # "Running"
<1> USE DEF InstanceIInv
<1>1. observations = << >> /\ mon.pc # "send" /\ log = NoStatus /\ status \in Statuses /\ mon \in MonSet
  BY DEF Quiet, Typed, MonTyped
<1>3. CASE MonitorStep
  <2>1. CASE MonStarted
    <3> DEFINE st == [status EXCEPT !.id = Head(events).pid, !.health = "Starting"]
    <3>1. status' = Masked(st)
      BY <2>1 DEF MonStarted, Sends
    <3>2. st.state = status.state
      BY <1>1 DEF Statuses
    <3> HIDE DEF st
    <3>3. Masked(st).state = st.state
      <4>1. st \in Statuses
        <5>1. Head(events) \in EventSet
          BY <2>1, TailFacts DEF MonStarted, MonEvent, Typed, SupTyped
        <5>2. Head(events).pid \in 0 .. MaxChildren
          BY <5>1, ChildNumbers DEF EventSet
        <5> QED BY <1>1, <5>2 DEF st, Statuses, Healths
      <4> QED BY <4>1, MaskedFields
    <3> QED BY <3>1, <3>2, <3>3
  <2>2. CASE MonRestarting
    <3> DEFINE st == [state |-> "Restarting", pid |-> 0, id |-> 0, health |-> "Starting"]
    <3>1. status' = Masked(st)
      BY <2>2 DEF MonRestarting, Sends
    <3>2. st \in Statuses /\ st.state = "Restarting"
      BY ChildNumbers DEF Statuses, InstanceStates, Healths
    <3> HIDE DEF st
    <3> QED BY <3>1, <3>2, MaskedFields
  <2>3. CASE MonPreparationFailed \/ MonGaveUp \/ MonStopped \/ MonClosed
    <3>1. status' = TerminalStatus \/ status' = Published(status, "Stopped")
      BY <2>3 DEF MonPreparationFailed, MonGaveUp, MonStopped, MonClosed, MonEnds
    <3> QED BY <1>1, <3>1, PublishedFields DEF TerminalStatus
  <2>4. CASE \/ MonSend \/ MonProbeCancel \/ MonExited \/ MonTimesOut \/ MonRequest
             \/ \E which \in {"initial", "respawn"} : MonDeadline(which)
             \/ \E yes \in BOOLEAN : MonObserves(yes) \/ MonDrains(yes)
    <3>1. status' = status
      BY <1>1, <2>4 DEF MonSend, MonProbeCancel, MonExited, MonTimesOut, MonRequest,
           MonDeadline, MonObserves, MonDrains
    <3> QED BY <3>1
  <2> QED BY <1>3, <2>1, <2>2, <2>3, <2>4 DEF MonitorStep
<1>4. CASE LogFailure \/ LogSend
  <2>1. \/ status' = status \/ status' = [status EXCEPT !.health = "Unhealthy"]
    BY <1>1, <1>4 DEF LogFailure, LogSend
  <2> QED BY <1>1, <2>1 DEF Statuses
<1>5. CASE StopPublishes \/ \E outcome \in {"NotFound", "AlreadyExited", "Killed", "Err"} :
                              StopReaps(outcome)
  <2>1. status' \in {status, Published(status, "Stopping"), Published(status, "Stopped")}
    BY <1>5 DEF StopPublishes, StopReaps
  <2> QED BY <1>1, <2>1, PublishedFields
<1>6. CASE \/ \E how \in {"clean", "crash"} : ChildExits(how)
           \/ ChildKilled \/ SupervisorStep \/ ProbeNow \/ StopFlags \/ StopTakes
           \/ StopSupervised \/ StopJoins \/ StopChecks
           \/ \E well \in BOOLEAN : DriverProbes(well) \/ DriverReconciles(well)
           \/ \E which \in {"initial", "respawn"} : DeadlinePasses(which)
           \/ UNCHANGED ivars
  <2>1. status' = status
    BY <1>6 DEF ChildExits, ChildKilled, SupervisorStep, SupExited, SupDecides, SupBackoffEnds,
         SupStarted, ProbeNow, StopFlags, StopTakes, StopSupervised, StopJoins, StopChecks,
         DriverProbes, DriverReconciles, DeadlinePasses, ivars
  <2> QED BY <2>1
<1> QED BY <1>3, <1>4, <1>5, <1>6 DEF InstanceNext, StopStep

(* A start or respawn deadline that gave up on the core is final: no step  *)
(* after it publishes Running.                                             *)
THEOREM TimeoutIsFinal == InstanceSpec => NoRunningAfterTimeout
<1>1. InstanceIInv /\ [InstanceNext]_ivars =>
        [flags.probe_timeout /\ ~sup.torn /\ status.state # "Running"
           => status'.state # "Running"]_ivars
  BY LateNeverRuns
<1> QED BY <1>1, InstanceInvariant, PTL DEF InstanceSpec, NoRunningAfterTimeout

-----------------------------------------------------------------------------
(***************************************************************************)
(* CoreLaunch: versions, plans, the endpoint and its authorization.        *)
(***************************************************************************)
Builds == [version: BuildVersions, can: SUBSET Features]
Resolutions == [pc: {"idle", "keyed", "probing", "probed", "known", "decided"},
                key: Nat, version: 0 .. 5, local: BOOLEAN]
Endpoints == [owner: Nat, wanted: BOOLEAN]
Attempts == [pc: {"idle", "authorize", "chmod", "inner"}, pid: Nat,
             phase: {"Readiness", "Liveness"}]

LaunchTyped ==
    /\ builds \in Seq(Builds) /\ Len(builds) \in 1 .. MaxBuilds
    /\ entries \in [modified: Nat, version: 0 .. 5]
    /\ resolver \in Resolutions
    /\ plan \in [up: BOOLEAN, local: BOOLEAN, descriptor: BOOLEAN]
    /\ plan.descriptor => plan.local /\ target.os = "windows"
    /\ proc \in [pid: Nat, build: Nat] /\ proc.build <= Len(builds)
    /\ endpoint \in Endpoints
    /\ attempt \in Attempts
    /\ healthy \in Nat /\ pids \in 0 .. MaxPids
    /\ target.declared \in 0 .. 5

(* A version is on its way into the cache for a file that was at the path, *)
(* and if that file still is, the answer came from it.                     *)
Keyed ==
    /\ resolver.pc \in {"keyed", "probing", "probed"} => resolver.key \in 1 .. Len(builds)
    /\ (resolver.pc = "probed" /\ resolver.key = Len(builds)) =>
         resolver.version = builds[resolver.key].version

Cached ==
    entries # NoEntry => /\ entries.modified \in 1 .. Len(builds)
                         /\ builds[entries.modified].version = entries.version

(* Under Force every resolution that goes on is one that chose the local   *)
(* endpoint, and so did the plan.                                          *)
Chosen ==
    target.policy = "Force" =>
        /\ resolver.pc # "idle" => Available
        /\ resolver.pc = "decided" => resolver.local
        /\ plan.up => plan.local

(* Pids are given out in order, and only a planned epoch has a process.    *)
Spawns ==
    /\ proc # NoProcess => plan.up /\ proc.pid \in 1 .. pids
    /\ healthy <= pids /\ endpoint.owner <= pids /\ attempt.pid <= pids

Owns == endpoint.owner = proc.pid

(* What was found of the process that runs still holds: a healthy process  *)
(* owns its endpoint, and a pipe that was let through has the rights.      *)
Vouched ==
    (proc # NoProcess /\ plan.local /\ healthy = proc.pid) =>
        Owns /\ (target.os = "windows" => endpoint.wanted)

LetThrough ==
    /\ attempt.pc = "chmod" => target.os # "windows"
    /\ (proc # NoProcess /\ plan.local /\ attempt.pid = proc.pid) =>
         /\ (attempt.pc = "inner" /\ target.os = "windows") => Owns /\ endpoint.wanted
         /\ (attempt.pc # "idle" /\ attempt.phase = "Liveness") => Owns

LaunchIInv == LaunchTyped /\ Keyed /\ Cached /\ Chosen /\ Spawns /\ Vouched /\ LetThrough

(* The first file is at the path, and nothing else is.                     *)
LEMMA LaunchStarts == LaunchInit => LaunchIInv
<1> SUFFICES ASSUME LaunchInit PROVE LaunchIInv
  OBVIOUS
<1> USE LaunchAssumption
<1>1. OnHost \subseteq Features
  BY DEF OnHost, LocalTransport, Features, LaunchInit
<1>2. PICK b \in Built : builds = <<b>>
  BY DEF LaunchInit
<1>3. b \in Builds
  BY <1>1 DEF Built, Builds
<1>4. builds \in Seq(Builds) /\ Len(builds) = 1
  BY <1>2, <1>3
<1>5. resolver \in Resolutions /\ attempt \in Attempts /\ endpoint \in Endpoints
  BY DEF LaunchInit, NoResolution, NoAttempt, NoEndpoint, Resolutions, Attempts, Endpoints, Unresolved
<1>6. LaunchTyped
  BY <1>4, <1>5 DEF LaunchInit, LaunchTyped, NoEntry, NoPlan, NoProcess, Unresolved, PipeFloor
<1>7. Keyed /\ Cached /\ Chosen /\ LetThrough
  BY DEF LaunchInit, Keyed, Cached, Chosen, LetThrough, NoEntry, NoPlan, NoProcess, NoResolution,
         NoAttempt
<1>8. Spawns /\ Vouched
  BY DEF LaunchInit, Spawns, Vouched, NoEndpoint, NoProcess, NoAttempt
<1> QED BY <1>6, <1>7, <1>8 DEF LaunchIInv

(* The parts that a step leaves alone when it leaves alone their state.    *)
LEMMA LaunchFrames ==
  ASSUME LaunchIInv, target' = target
  PROVE  /\ UNCHANGED <<builds, resolver>> => Keyed'
         /\ UNCHANGED <<builds, entries>> => Cached'
         /\ UNCHANGED <<resolver, plan>> => Chosen'
         /\ UNCHANGED <<plan, proc, endpoint, attempt, healthy, pids>> =>
              Spawns' /\ Vouched' /\ LetThrough'
BY DEF LaunchIInv, Keyed, Cached, Chosen, Spawns, Vouched, LetThrough, Available, Owns

(* ResolveRuntime under Force: the local endpoint or an error.             *)
LEMMA ForceIsLocal ==
  ASSUME target.policy = "Force", Available, ResolveRuntime # "RequiredLocalIpcUnsupported"
  PROVE  ResolveRuntime = "LocalIpc"
BY DEF ResolveRuntime, Policy

(* The resolution of a version and of what the plan may use.               *)
LEMMA ResolutionKeepsLaunch ==
  ASSUME LaunchIInv,
         \/ Resolve \/ LookUp \/ Remember \/ Decide
         \/ \E ok \in BOOLEAN : ProbeVersion(ok)
  PROVE  LaunchIInv'
<1> USE DEF LaunchIInv
<1>1. /\ UNCHANGED <<target, builds, plan, proc, endpoint, attempt, healthy, pids>>
      /\ Len(builds) \in Nat \ {0} /\ resolver \in Resolutions /\ NoResolution \in Resolutions
  BY LaunchAssumption DEF Resolve, LookUp, Remember, Decide, ProbeVersion, Rest, LaunchTyped,
     NoResolution, Resolutions, Unresolved
<1>2. ASSUME resolver' \in Resolutions, entries' \in [modified: Nat, version: 0 .. 5],
             Keyed', Cached', Chosen'
      PROVE  LaunchIInv'
  BY <1>1, <1>2, LaunchFrames DEF LaunchTyped
<1>3. CASE Resolve
  <2>1. entries' = entries
    BY <1>3 DEF Resolve
  <2>2. CASE UNCHANGED resolver
    BY <1>1, <1>2, <2>1, <2>2, LaunchFrames DEF LaunchTyped
  <2>3. CASE /\ Available \/ target.policy # "Force"
             /\ resolver' = [NoResolution EXCEPT !.pc = "known", !.version = target.declared]
    <3>1. target.declared \in 0 .. 5
      BY DEF LaunchTyped
    <3>2. resolver' \in Resolutions /\ resolver'.pc = "known"
      BY <1>1, <2>3, <3>1 DEF Resolutions, NoResolution
    <3>3. Keyed' /\ Chosen'
      BY <1>1, <2>3, <3>2 DEF Keyed, Chosen, Available
    <3> QED BY <1>1, <1>2, <2>1, <3>2, <3>3, LaunchFrames DEF LaunchTyped
  <2>4. CASE /\ Available \/ target.policy # "Force"
             /\ resolver' = [NoResolution EXCEPT !.pc = "keyed", !.key = Modified]
    <3>1. /\ resolver' \in Resolutions /\ resolver'.pc = "keyed"
          /\ resolver'.key = Len(builds)
      BY <1>1, <2>4 DEF Resolutions, Modified, NoResolution
    <3>2. Keyed' /\ Chosen'
      BY <1>1, <2>4, <3>1 DEF Keyed, Chosen, Available
    <3> QED BY <1>1, <1>2, <2>1, <3>1, <3>2, LaunchFrames DEF LaunchTyped
  <2> QED BY <1>3, <2>2, <2>3, <2>4 DEF Resolve
<1>4. CASE LookUp
  <2>1. /\ entries' = entries /\ resolver' \in Resolutions
        /\ resolver.pc = "keyed" /\ resolver'.pc \in {"known", "probing"}
        /\ resolver'.key = resolver.key
    BY <1>1, <1>4 DEF LookUp, Resolutions, LaunchTyped
  <2>2. Keyed' /\ Chosen'
    BY <1>1, <2>1 DEF Keyed, Chosen, Available
  <2> QED BY <1>1, <1>2, <2>1, <2>2, LaunchFrames DEF LaunchTyped
<1>5. CASE \E ok \in BOOLEAN : ProbeVersion(ok)
  <2>1. entries' = entries /\ resolver.pc = "probing"
    BY <1>5 DEF ProbeVersion
  <2>2. CASE resolver' = NoResolution
    BY <1>1, <1>2, <2>1, <2>2, LaunchFrames DEF LaunchTyped, NoResolution, Keyed, Chosen
  <2>3. CASE resolver' = [resolver EXCEPT !.pc = "probed", !.version = Present.version]
    <3>1. Present.version \in 0 .. 5 /\ Present.version = builds[Len(builds)].version
      <4>1. builds[Len(builds)] \in Builds
        BY <1>1 DEF LaunchTyped
      <4>2. builds[Len(builds)].version \in BuildVersions
        BY <4>1 DEF Builds
      <4>3. Present.version = builds[Len(builds)].version
        BY DEF Present, Modified
      <4>4. builds[Len(builds)].version \in 1 .. 5
        BY <4>2, LaunchAssumption
      <4> QED BY <4>3, <4>4
    <3>2. /\ resolver' \in Resolutions /\ resolver'.pc = "probed"
          /\ resolver'.key = resolver.key /\ resolver'.version = Present.version
      BY <1>1, <2>3, <3>1 DEF Resolutions
    <3>3. Keyed' /\ Chosen'
      BY <1>1, <2>1, <3>1, <3>2 DEF Keyed, Chosen, Available
    <3> QED BY <1>1, <1>2, <2>1, <3>2, <3>3, LaunchFrames DEF LaunchTyped
  <2> QED BY <1>5, <2>2, <2>3 DEF ProbeVersion
<1>6. CASE Remember
  <2>1. CASE resolver' = NoResolution /\ UNCHANGED entries
    BY <1>1, <1>2, <2>1, LaunchFrames DEF LaunchTyped, NoResolution, Keyed, Chosen
  <2>2. CASE /\ Modified = resolver.key
             /\ entries' = [modified |-> resolver.key, version |-> resolver.version]
             /\ Steps("known")
    <3>1. /\ resolver' \in Resolutions /\ resolver'.pc = "known"
      BY <1>1, <2>2 DEF Resolutions, Steps
    <3>2. entries' \in [modified: Nat, version: 0 .. 5]
      BY <1>1, <2>2 DEF Resolutions
    <3>3. Keyed' /\ Chosen'
      BY <1>1, <1>6, <3>1 DEF Remember, Keyed, Chosen, Available
    <3>4. Cached'
      BY <1>1, <1>6, <2>2 DEF Remember, Keyed, Cached, Modified
    <3> QED BY <1>1, <1>2, <3>1, <3>2, <3>3, <3>4
  <2> QED BY <1>6, <2>1, <2>2 DEF Remember
<1>7. CASE Decide
  <2>1. entries' = entries /\ resolver.pc = "known"
    BY <1>7 DEF Decide
  <2>2. CASE resolver' = NoResolution
    BY <1>1, <1>2, <2>1, <2>2, LaunchFrames DEF LaunchTyped, NoResolution, Keyed, Chosen
  <2>3. CASE /\ ResolveRuntime # "RequiredLocalIpcUnsupported"
             /\ resolver' = [resolver EXCEPT !.pc = "decided", !.local = ResolveRuntime = "LocalIpc"]
    <3> DEFINE local == ResolveRuntime = "LocalIpc"
    <3>1. local \in BOOLEAN
      BY Zenon
    <3>2. resolver' = [resolver EXCEPT !.pc = "decided", !.local = local]
      BY <2>3
    <3>3. (target.policy = "Force" /\ Available) => local
      BY <2>3, ForceIsLocal
    <3> HIDE DEF local
    <3>4. /\ resolver' \in Resolutions /\ resolver'.pc = "decided"
          /\ resolver'.local = local
      BY <1>1, <3>1, <3>2 DEF Resolutions
    <3>5. Keyed' /\ Chosen'
      BY <1>1, <2>1, <3>3, <3>4 DEF Keyed, Chosen, Available
    <3> QED BY <1>1, <1>2, <2>1, <3>4, <3>5, LaunchFrames DEF LaunchTyped
  <2> QED BY <1>7, <2>2, <2>3 DEF Decide
<1> QED BY <1>3, <1>4, <1>5, <1>6, <1>7

(* Plans, processes, endpoints and files come and go.                      *)
LEMMA EpochKeepsLaunch ==
  ASSUME LaunchIInv,
         \/ Launch \/ Retire \/ SpawnCore \/ CoreBinds \/ CoreDies
         \/ \E b \in Built : ReplaceBinary(b)
  PROVE  LaunchIInv'
<1> USE DEF LaunchIInv
<1>1. /\ target' = target /\ entries' = entries
      /\ NoResolution \in Resolutions /\ NoAttempt \in Attempts /\ NoEndpoint \in Endpoints
  BY DEF Launch, Retire, SpawnCore, CoreBinds, CoreDies, ReplaceBinary, NoResolution, Resolutions,
         Unresolved, NoAttempt, Attempts, NoEndpoint, Endpoints
<1>2. CASE Launch
  <2> DEFINE local == resolver.local
             descriptor == Descriptor
  <2>1. local \in BOOLEAN /\ (descriptor => local /\ target.os = "windows")
    BY DEF LaunchTyped, Resolutions, Descriptor
  <2>2. descriptor \in BOOLEAN
    BY Zenon DEF Descriptor
  <2>3. plan' = [up |-> TRUE, local |-> local, descriptor |-> descriptor] /\ resolver' = NoResolution
    BY <1>2 DEF Launch
  <2>4. UNCHANGED <<builds, proc, endpoint, attempt, healthy, pids>> /\ proc = NoProcess
    BY <1>2 DEF Launch, Spawns
  <2>5. target.policy = "Force" => local
    BY <1>2 DEF Launch, Chosen
  <2> HIDE DEF local, descriptor
  <2>6. /\ plan' \in [up: BOOLEAN, local: BOOLEAN, descriptor: BOOLEAN]
        /\ plan'.descriptor => plan'.local /\ target.os = "windows"
        /\ plan'.local = local
    BY <2>1, <2>2, <2>3
  <2>7. LaunchTyped'
    BY <1>1, <2>3, <2>4, <2>6 DEF LaunchTyped
  <2>8. Keyed' /\ Cached' /\ Chosen' /\ Spawns' /\ Vouched' /\ LetThrough'
    BY <1>1, <2>3, <2>4, <2>5, <2>6, LaunchFrames
    DEF Keyed, Chosen, NoResolution, Spawns, Vouched, LetThrough
  <2> QED BY <2>7, <2>8
<1>3. CASE Retire
  <2>1. /\ plan' = NoPlan /\ proc' = NoProcess /\ endpoint' = NoEndpoint
        /\ attempt' = NoAttempt /\ healthy' = 0
        /\ UNCHANGED <<builds, resolver, pids>>
    BY <1>3 DEF Retire
  <2>2. LaunchTyped'
    BY <1>1, <2>1 DEF LaunchTyped, NoPlan, NoProcess
  <2>3. Keyed' /\ Cached' /\ Chosen'
    BY <1>1, <2>1, LaunchFrames DEF Chosen, NoPlan, Available
  <2>4. Spawns' /\ Vouched' /\ LetThrough'
    BY <1>1, <2>1 DEF LaunchTyped, Spawns, Vouched, LetThrough, NoProcess, NoEndpoint, NoAttempt
  <2> QED BY <2>2, <2>3, <2>4
<1>4. CASE SpawnCore
  <2>1. /\ plan.up /\ pids' = pids + 1 /\ proc' = [pid |-> pids + 1, build |-> Len(builds)]
        /\ pids < MaxPids
        /\ UNCHANGED <<builds, resolver, plan, endpoint, attempt, healthy>>
    BY <1>4 DEF SpawnCore, Modified
  <2>2. /\ pids \in Nat /\ pids' \in 1 .. MaxPids /\ Len(builds) \in Nat
    BY <2>1, LaunchAssumption DEF LaunchTyped
  <2>3. proc' \in [pid: Nat, build: Nat] /\ proc'.pid = pids + 1 /\ proc'.build = Len(builds)
    BY <2>1, <2>2
  <2>4. LaunchTyped'
    BY <1>1, <2>1, <2>2, <2>3 DEF LaunchTyped
  <2>5. /\ healthy \in Nat /\ healthy < pids + 1 /\ attempt.pid \in Nat /\ attempt.pid < pids + 1
        /\ endpoint.owner \in Nat /\ endpoint.owner < pids + 1
    BY <2>2 DEF LaunchTyped, Spawns, Attempts, Endpoints
  <2>6. Spawns'
    BY <2>1, <2>2, <2>3, <2>5 DEF Spawns
  <2>7. Vouched' /\ LetThrough'
    BY <1>1, <2>1, <2>2, <2>3, <2>5 DEF Vouched, LetThrough
  <2> QED BY <1>1, <2>1, <2>4, <2>6, <2>7, LaunchFrames
<1>5. CASE CoreBinds
  <2> DEFINE w == plan.descriptor /\ "NamedPipeSecurityDescriptor" \in builds[proc.build].can
  <2>1. w \in BOOLEAN
    BY Zenon
  <2>2. /\ endpoint' = [owner |-> proc.pid, wanted |-> w]
        /\ proc # NoProcess /\ endpoint.owner # proc.pid
        /\ UNCHANGED <<builds, resolver, plan, proc, attempt, healthy, pids>>
    BY <1>5 DEF CoreBinds
  <2> HIDE DEF w
  <2>3. endpoint' \in Endpoints /\ endpoint'.owner = proc.pid
    BY <2>1, <2>2 DEF Endpoints, LaunchTyped
  <2>4. LaunchTyped'
    BY <1>1, <2>2, <2>3 DEF LaunchTyped
  <2>5. Spawns'
    BY <2>2, <2>3 DEF Spawns, LaunchTyped
  <2>6. Vouched' /\ LetThrough'
    BY <1>1, <2>2, <2>3 DEF Vouched, LetThrough, Owns
  <2> QED BY <1>1, <2>2, <2>4, <2>5, <2>6, LaunchFrames
<1>6. CASE CoreDies
  <2>1. /\ proc' = NoProcess /\ endpoint' \in {NoEndpoint, endpoint}
        /\ UNCHANGED <<builds, resolver, plan, attempt, healthy, pids>>
    BY <1>6 DEF CoreDies
  <2>2. LaunchTyped'
    BY <1>1, <2>1 DEF LaunchTyped, NoProcess
  <2>3. Spawns' /\ Vouched' /\ LetThrough'
    BY <1>1, <2>1 DEF LaunchTyped, Spawns, Vouched, LetThrough, NoEndpoint
  <2> QED BY <1>1, <2>1, <2>2, <2>3, LaunchFrames
<1>7. ASSUME NEW b \in Built, ReplaceBinary(b) PROVE LaunchIInv'
  <2>1. b \in Builds
    BY DEF Built, Builds, OnHost, LocalTransport, Features
  <2>2. /\ builds' = Append(builds, b) /\ Len(builds) < MaxBuilds
        /\ UNCHANGED <<resolver, plan, proc, endpoint, attempt, healthy, pids>>
    BY <1>7 DEF ReplaceBinary, Modified
  <2>3. /\ builds' \in Seq(Builds) /\ Len(builds') = Len(builds) + 1 /\ Len(builds) \in Nat
        /\ Len(builds') \in 1 .. MaxBuilds
        /\ \A k \in 1 .. Len(builds) : builds'[k] = builds[k]
    BY <2>1, <2>2, LaunchAssumption DEF LaunchTyped
  <2>4. LaunchTyped'
    BY <1>1, <2>2, <2>3 DEF LaunchTyped
  <2>5. Keyed'
    BY <2>2, <2>3 DEF Keyed
  <2>6. Cached'
    BY <1>1, <2>3 DEF Cached
  <2> QED BY <1>1, <2>2, <2>4, <2>5, <2>6, LaunchFrames
<1> QED BY <1>2, <1>3, <1>4, <1>5, <1>6, <1>7

(* An observation of the attempt's own process.                            *)
LEMMA ObservationKept ==
  ASSUME LaunchIInv, NEW yes \in BOOLEAN, Observes(yes), UNCHANGED <<Probing, endpoint>>,
         (yes /\ proc # NoProcess /\ plan.local /\ attempt.pid = proc.pid) =>
            Owns /\ (target.os = "windows" => endpoint.wanted)
  PROVE  LaunchIInv'
<1> USE DEF LaunchIInv
<1>1. /\ UNCHANGED <<target, builds, entries, resolver, plan, proc, pids, endpoint>>
      /\ attempt' = NoAttempt /\ NoAttempt \in Attempts
  BY DEF Probing, Observes, NoAttempt, Attempts
<1>2. /\ healthy' \in Nat /\ healthy' <= pids /\ attempt.pid \in Nat /\ pids \in Nat
      /\ healthy' \in {healthy, 0, attempt.pid}
      /\ healthy' = healthy \/ proc.pid = attempt.pid
      /\ ~yes => healthy' \in {healthy, 0}
  BY DEF Observes, LaunchTyped, Attempts, Spawns
<1>3. LaunchTyped'
  BY <1>1, <1>2 DEF LaunchTyped
<1>4. Spawns'
  BY <1>1, <1>2 DEF Spawns, NoAttempt
<1>5. Vouched'
  <2>1. proc # NoProcess => proc.pid # 0
    BY <1>2 DEF Spawns
  <2> QED BY <1>1, <1>2, <2>1 DEF Vouched, Owns, Observes
<1>6. LetThrough'
  BY <1>1 DEF LetThrough, NoAttempt
<1> QED BY <1>1, <1>3, <1>4, <1>5, <1>6, LaunchFrames

(* The probe's own steps: authorize first, then ask.                       *)
LEMMA ProbeKeepsLaunch ==
  ASSUME LaunchIInv, DriverStep \/ AttemptDropped
  PROVE  LaunchIInv'
<1> USE DEF LaunchIInv
<1>1. /\ UNCHANGED <<target, builds, entries, resolver, plan, proc, pids>>
      /\ UNCHANGED Probing
  BY DEF DriverStep, AttemptDropped, Attempt, AuthorizePipe, LookAtSocket, ChangeSocket,
         CheckInner, Probing
<1>2. ASSUME attempt' \in Attempts, endpoint' \in Endpoints, healthy' = healthy,
             Spawns', Vouched', LetThrough'
      PROVE  LaunchIInv'
  BY <1>1, <1>2, LaunchFrames DEF LaunchTyped
<1>3. ASSUME NEW pc \in {"chmod", "inner"}, attempt' = [attempt EXCEPT !.pc = pc]
      PROVE  /\ attempt' \in Attempts /\ attempt'.pc = pc /\ attempt'.pid = attempt.pid
             /\ attempt'.phase = attempt.phase
  BY <1>3 DEF LaunchTyped, Attempts
<1>4. CASE Attempt
  <2> DEFINE phase == IF healthy = proc.pid THEN "Liveness" ELSE "Readiness"
             pc == IF Wrapped(phase) THEN "authorize" ELSE "inner"
  <2>1. /\ attempt' = [pc |-> pc, pid |-> proc.pid, phase |-> phase]
        /\ proc # NoProcess /\ UNCHANGED <<endpoint, healthy>>
    BY <1>4 DEF Attempt
  <2>2. /\ phase \in {"Readiness", "Liveness"} /\ pc \in {"authorize", "inner"}
        /\ plan.local => pc = "authorize"
        /\ phase = "Liveness" => healthy = proc.pid
    BY DEF Wrapped
  <2> HIDE DEF phase, pc
  <2>3. /\ attempt' \in Attempts /\ attempt'.pc = pc /\ attempt'.pid = proc.pid
        /\ attempt'.phase = phase
    BY <2>1, <2>2 DEF Attempts, LaunchTyped
  <2>4. Spawns'
    BY <1>1, <2>1, <2>3 DEF Spawns, LaunchTyped
  <2>5. Vouched' /\ LetThrough'
    BY <1>1, <2>1, <2>2, <2>3 DEF Vouched, LetThrough, Owns
  <2> QED BY <1>2, <2>1, <2>3, <2>4, <2>5 DEF LaunchTyped
<1>5. CASE AuthorizePipe
  <2>1. CASE Observes(FALSE) /\ UNCHANGED endpoint
    BY <1>1, <2>1, ObservationKept
  <2>2. CASE /\ endpoint.owner = attempt.pid
             /\ endpoint' = [endpoint EXCEPT !.wanted = TRUE]
             /\ attempt' = [attempt EXCEPT !.pc = "inner"]
             /\ UNCHANGED healthy
    <3>1. endpoint' \in Endpoints /\ endpoint'.owner = endpoint.owner /\ endpoint'.wanted
      BY <2>2 DEF LaunchTyped, Endpoints
    <3>2. /\ attempt' \in Attempts /\ attempt'.pc = "inner" /\ attempt'.pid = attempt.pid
          /\ attempt'.phase = attempt.phase
      BY <1>3, <2>2
    <3>3. Spawns' /\ Vouched' /\ LetThrough'
      BY <1>1, <2>2, <3>1, <3>2 DEF Spawns, Vouched, LetThrough, Owns
    <3> QED BY <1>2, <2>2, <3>1, <3>2, <3>3
  <2> QED BY <1>5, <2>1, <2>2 DEF AuthorizePipe
<1>6. CASE LookAtSocket
  <2>1. CASE Observes(FALSE)
    BY <1>1, <1>6, <2>1, ObservationKept DEF LookAtSocket
  <2>2. CASE attempt' = [attempt EXCEPT !.pc = "chmod"] /\ UNCHANGED healthy
    <3>1. /\ attempt' \in Attempts /\ attempt'.pc = "chmod" /\ attempt'.pid = attempt.pid
          /\ attempt'.phase = attempt.phase
      BY <1>3, <2>2
    <3>2. endpoint' = endpoint /\ target.os = "unix" /\ attempt.pc = "authorize"
      BY <1>6 DEF LookAtSocket
    <3>3. Spawns' /\ Vouched' /\ LetThrough'
      BY <1>1, <2>2, <3>1, <3>2 DEF Spawns, Vouched, LetThrough, Owns
    <3> QED BY <1>2, <2>2, <3>1, <3>2, <3>3 DEF LaunchTyped
  <2> QED BY <1>6, <2>1, <2>2 DEF LookAtSocket
<1>7. CASE ChangeSocket
  <2>1. /\ attempt.pc = "chmod" /\ endpoint' = [endpoint EXCEPT !.wanted = TRUE]
        /\ attempt' = [attempt EXCEPT !.pc = "inner"] /\ UNCHANGED healthy
    BY <1>7 DEF ChangeSocket
  <2>2. endpoint' \in Endpoints /\ endpoint'.owner = endpoint.owner /\ endpoint'.wanted
    BY <2>1 DEF LaunchTyped, Endpoints
  <2>3. /\ attempt' \in Attempts /\ attempt'.pc = "inner" /\ attempt'.pid = attempt.pid
        /\ attempt'.phase = attempt.phase
    BY <1>3, <2>1
  <2>4. Spawns' /\ Vouched' /\ LetThrough'
    BY <1>1, <2>1, <2>2, <2>3 DEF Spawns, Vouched, LetThrough, Owns
  <2> QED BY <1>2, <2>1, <2>2, <2>3, <2>4
<1>8. CASE CheckInner
  <2> DEFINE yes == attempt.phase = "Liveness" \/ Listening
  <2>1. yes \in BOOLEAN
    BY Zenon DEF Listening
  <2>2. attempt.pc = "inner" /\ Observes(yes) /\ UNCHANGED endpoint
    BY <1>8 DEF CheckInner
  <2>3. (yes /\ proc # NoProcess /\ plan.local /\ attempt.pid = proc.pid) =>
          Owns /\ (target.os = "windows" => endpoint.wanted)
    BY <2>2 DEF Listening, LetThrough, Owns
  <2> HIDE DEF yes
  <2> QED BY <1>1, <2>1, <2>2, <2>3, ObservationKept
<1>9. CASE AttemptDropped
  <2>1. attempt' = NoAttempt /\ UNCHANGED <<endpoint, healthy>>
    BY <1>9 DEF AttemptDropped
  <2>2. NoAttempt \in Attempts /\ Spawns' /\ Vouched' /\ LetThrough'
    BY <1>1, <2>1 DEF NoAttempt, Attempts, LaunchTyped, Spawns, Vouched, LetThrough, Owns
  <2> QED BY <1>2, <2>1, <2>2 DEF LaunchTyped
<1> QED BY <1>4, <1>5, <1>6, <1>7, <1>8, <1>9 DEF DriverStep

(* Stuttering keeps the launch invariant.                                  *)
LEMMA LaunchStutters == LaunchIInv /\ UNCHANGED lvars => LaunchIInv'
  BY DEF lvars, LaunchIInv, LaunchTyped, Keyed, Cached, Chosen, Spawns, Vouched, LetThrough,
         Available, Owns

(* Every step keeps it.                                                    *)
LEMMA LaunchSteps == LaunchIInv /\ [LaunchNext]_lvars => LaunchIInv'
  BY LaunchStutters, ResolutionKeepsLaunch, EpochKeepsLaunch, ProbeKeepsLaunch DEF LaunchNext

(* The launch invariant, for any number of files, plans and processes.     *)
THEOREM LaunchInvariant == LaunchSpec => []LaunchIInv
  BY LaunchStarts, LaunchSteps, PTL DEF LaunchSpec

(* The types follow from it.                                               *)
LEMMA LaunchShape == LaunchIInv => LaunchTypeOK
<1> SUFFICES ASSUME LaunchIInv PROVE LaunchTypeOK
  OBVIOUS
<1>1. proc.pid \in 0 .. MaxPids
  BY LaunchAssumption DEF LaunchIInv, LaunchTyped, Spawns, NoProcess
<1>2. endpoint \in [owner: 0 .. MaxPids, wanted: BOOLEAN]
  BY LaunchAssumption DEF LaunchIInv, LaunchTyped, Spawns, Endpoints
<1>3. healthy \in 0 .. MaxPids
  BY LaunchAssumption DEF LaunchIInv, LaunchTyped, Spawns
<1>4. proc.build \in 0 .. Modified /\ Modified \in 1 .. MaxBuilds
  BY LaunchAssumption DEF LaunchIInv, LaunchTyped, Modified
<1> QED BY <1>1, <1>2, <1>3, <1>4
        DEF LaunchIInv, LaunchTyped, LaunchTypeOK, Resolutions, Attempts

(* The launch state stays well formed, and only a pipe is given a          *)
(* descriptor to be created with.                                          *)
THEOREM LaunchTypes == LaunchSpec => []LaunchTypeOK
  BY LaunchShape, LaunchInvariant, PTL

(* And that the cache is right.                                            *)
LEMMA CacheMeans == LaunchIInv => CacheTruthful
  BY DEF LaunchIInv, Cached, CacheTruthful

(* VersionCache::resolve: a cached version is the version of the file that *)
(* had the key's modification time, however often the file was replaced    *)
(* while `-v` was running.                                                 *)
THEOREM CacheIsTruthful == LaunchSpec => []CacheTruthful
  BY CacheMeans, LaunchInvariant, PTL

(* A core is called healthy over a named pipe only while the pipe is its   *)
(* own and has the service's rights (PipeSecurity::authorize).             *)
THEOREM PipesAuthorized == LaunchSpec => []HealthyIsAuthorized
<1>1. LaunchIInv => HealthyIsAuthorized
  BY DEF LaunchIInv, LaunchTyped, Endpoints, Vouched, Owns, HealthyIsAuthorized, NoProcess
<1> QED BY <1>1, LaunchInvariant, PTL

(* And that Force is kept.                                                 *)
LEMMA ForceMeans == LaunchIInv => ForceMeansLocal
  BY DEF LaunchIInv, Vouched, Owns, Chosen, Spawns, ForceMeansLocal, NoProcess

(* Under Force a healthy core is reached through the endpoint the manager  *)
(* chose (resolve_runtime).                                                *)
THEOREM ForceIsKept == LaunchSpec => []ForceMeansLocal
  BY ForceMeans, LaunchInvariant, PTL

-----------------------------------------------------------------------------
(***************************************************************************)
(* The instance, the launch and the config side by side.                   *)
(***************************************************************************)
EpochIInv == InstanceIInv /\ LaunchIInv /\ ConfigIInv

(* A step of one part leaves the others alone.                             *)
LEMMA EpochSteps == EpochIInv /\ [MCInstanceNext]_instanceVars => EpochIInv'
<1> SUFFICES ASSUME EpochIInv, [MCInstanceNext]_instanceVars PROVE EpochIInv'
  OBVIOUS
<1>1. [InstanceNext]_ivars /\ [LaunchNext]_lvars /\ [ConfigNext]_gvars
  BY DEF MCInstanceNext, OnInstance, OnLaunch, OnConfig, instanceVars
<1> QED BY <1>1, InstanceSteps, LaunchSteps, ConfigSteps DEF EpochIInv

(***************************************************************************)
(* The invariants of an epoch's instance, launch and config hold together. *)
(***************************************************************************)
THEOREM EpochInvariant == MCInstanceSpec => []EpochIInv
<1>1. MCInstanceInit => EpochIInv
  BY InstanceStarts, LaunchStarts, ConfigInitially DEF MCInstanceInit, EpochIInv
<1> QED BY <1>1, EpochSteps, PTL DEF MCInstanceSpec

(***************************************************************************)
(* From a config and a binary to a healthy core, for any documents, builds *)
(* and bounds: cached versions are true, Force is kept, the controller is  *)
(* served, and two epochs side by side share no inbound and no address.    *)
(***************************************************************************)
THEOREM EpochIsCorrect == MCInstanceSpec => []InstanceInv
<1>1. EpochIInv => InstanceInv
  BY InstanceShape, LaunchShape, CacheMeans, ForceMeans, ControllerMeans, OverlapMeans
     DEF EpochIInv, InstanceInv
<1> QED BY <1>1, EpochInvariant, PTL
=============================================================================
