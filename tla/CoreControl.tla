---------------------------- MODULE CoreControl ----------------------------
(***************************************************************************)
(* The control plane over one core manager (chimera-core-manager/src/      *)
(* control): `submit` and `shutdown` callers admit operations into a       *)
(* bounded queue and an idempotency registry, and one executor task owns   *)
(* every admitted operation until it has a terminal state.                 *)
(*                                                                         *)
(* Callers and the executor run on different threads of one runtime.  What *)
(* the code does under the registry lock is one step here; what it does    *)
(* outside it (the closing latch, the queue slot, the receiver's close) is *)
(* a step of its own.                                                      *)
(***************************************************************************)
EXTENDS Integers, Sequences, FiniteSets

CONSTANTS
  ClientIds,        \* operation ids that submit callers choose, and may repeat
  Commands,         \* commands up to their payload digest; "Shutdown" is one
  Submitters,       \* concurrent callers of submit
  Hosts,            \* calls of shutdown(); each names the id it generates
  QueueCapacity,    \* ControlOptions::queue_capacity
  RegistryCapacity, \* ControlOptions::registry_capacity
  MaxSequence       \* bound: how many sequence numbers a behaviour may assign

ASSUME ControlAssumption ==
  /\ "Shutdown" \in Commands
  /\ ClientIds \cap Hosts = {}
  /\ IsFiniteSet(ClientIds) /\ IsFiniteSet(Hosts)
  /\ QueueCapacity \in Nat \ {0}     \* mpsc::channel panics on 0
  /\ RegistryCapacity \in Nat
  /\ MaxSequence \in Nat

VARIABLES
  operations,     \* Registry: id -> [digest, sequence], for the registered ids
  next_sequence,  \* Registry: the next sequence number
  channel,        \* the watch channels, by sequence number; a handle keeps its
                  \* channel readable after the registry dropped the entry
  queue,          \* the bounded mpsc channel of ExecutorWork
  rx_closed,      \* the receiver was closed: no new send, no new permit
  closing,        \* the closing latch
  call,           \* per submit caller: where it is, with which envelope
  host,           \* per shutdown() call: where it is, waiting on which channel
  executor,       \* the executor task: where it is, holding which work
  exit,           \* how the executor ends; until_closed() reports it at the end
  began,          \* history: sequences whose transaction was started
  shut_down       \* history: some manager.shutdown() returned Ok

vars == <<operations, next_sequence, channel, queue, rx_closed, closing, call,
          host, executor, exit, began, shut_down>>

Ids == ClientIds \cup Hosts
Work == [id: Ids, command: Commands]
NoWork == [id |-> "none", command |-> "none"]
SequenceNumbers == 0 .. MaxSequence - 1

(***************************************************************************)
(* OperationState.  A failure keeps who produced it: "Failed" is the       *)
(* transaction's own error, "Refused" is Failed(ShuttingDown) and "Died"   *)
(* is Failed(Internal).  "Unused" is a channel nobody created.             *)
(***************************************************************************)
OperationState ==
  {"Unused", "Queued", "Running", "Succeeded", "Failed", "Refused", "Died"}

is_terminal(state) == state \in {"Succeeded", "Failed", "Refused", "Died"}

(* Mutant: the configured capacity, without the floor.                     *)
UnclampedCapacity == RegistryCapacity

live_registry_capacity ==
  IF RegistryCapacity > QueueCapacity + 1 THEN RegistryCapacity
                                          ELSE QueueCapacity + 1

TypeOK ==
  /\ DOMAIN operations \subseteq Ids
  /\ operations \in [DOMAIN operations ->
                       [digest: Commands, sequence: SequenceNumbers]]
  /\ next_sequence \in 0 .. MaxSequence
  /\ channel \in [SequenceNumbers -> OperationState]
  /\ queue \in Seq(Work)
  /\ rx_closed \in BOOLEAN /\ closing \in BOOLEAN /\ shut_down \in BOOLEAN
  /\ call \in [Submitters -> [pc: {"idle", "loaded", "latch"},
                              work: Work \cup {NoWork}]]
  /\ host \in [Hosts -> [pc: {"idle", "reserving", "permit", "waiting",
                              "until_closed", "ok", "err", "cancelled"},
                         sequence: SequenceNumbers \cup {-1}]]
  /\ executor \in [pc: {"recv", "received", "running", "dying", "close",
                        "drain", "exited"},
                   work: Work \cup {NoWork}]
  /\ exit \in {"None", "Clean", "Died"}
  /\ began \subseteq SequenceNumbers

Init ==
  /\ operations = << >>
  /\ next_sequence = 0
  /\ channel = [s \in SequenceNumbers |-> "Unused"]
  /\ queue = << >>
  /\ rx_closed = FALSE
  /\ closing = FALSE
  /\ call = [s \in Submitters |-> [pc |-> "idle", work |-> NoWork]]
  /\ host = [h \in Hosts |-> [pc |-> "idle", sequence |-> -1]]
  /\ executor = [pc |-> "recv", work |-> NoWork]
  /\ exit = "None"
  /\ began = {}
  /\ shut_down = FALSE

-----------------------------------------------------------------------------
(* The registry.                                                           *)

Registered == DOMAIN operations
StateOf(id) == channel[operations[id].sequence]
Terminals == {id \in Registered : is_terminal(StateOf(id))}

(***************************************************************************)
(* The entries the eviction loop of admit removes: as many of the oldest   *)
(* terminal entries as bring the table under its capacity, or all of them. *)
(* The code's `order` deque is the registered ids by sequence number:      *)
(* push_back happens in the critical section that assigns the number.      *)
(***************************************************************************)
Evicted ==
  {id \in Terminals :
     Cardinality({other \in Terminals :
                    operations[other].sequence <= operations[id].sequence})
       <= Cardinality(Registered) - live_registry_capacity + 1}

(* Queue slots: a permit handed out by reserve() holds one.                *)
Permits == {h \in Hosts : host[h].pc = "permit"}
HasSlot == Len(queue) + Cardinality(Permits) < QueueCapacity

(***************************************************************************)
(* admit of a new id whose enqueue succeeds: evict, register, queue.       *)
(***************************************************************************)
Admit(work) ==
  /\ work.id \notin Registered
  /\ next_sequence < MaxSequence
  /\ operations' =
       [id \in (Registered \ Evicted) \cup {work.id} |->
          IF id = work.id
            THEN [digest |-> work.command, sequence |-> next_sequence]
            ELSE operations[id]]
  /\ channel' = [channel EXCEPT ![next_sequence] = "Queued"]
  /\ next_sequence' = next_sequence + 1
  /\ queue' = Append(queue, work)

(* Mutants: the failed admission leaves its entry behind, or gives its      *)
(* sequence number back although it took none.                             *)
AdmitRejectedKeepsEntry(work) ==
  /\ work.id \notin Registered
  /\ next_sequence < MaxSequence
  /\ operations' =
       [id \in (Registered \ Evicted) \cup {work.id} |->
          IF id = work.id
            THEN [digest |-> work.command, sequence |-> next_sequence]
            ELSE operations[id]]
  /\ channel' = [channel EXCEPT ![next_sequence] = "Queued"]
  /\ next_sequence' = next_sequence + 1
  /\ queue' = queue

AdmitRejectedUnderflows(work) ==
  /\ work.id \notin Registered
  /\ next_sequence < MaxSequence
  /\ operations' = [id \in Registered \ Evicted |-> operations[id]]
  /\ next_sequence' = next_sequence - 1
  /\ UNCHANGED <<channel, queue>>

(***************************************************************************)
(* admit of a new id whose enqueue fails (queue full, or receiver closed): *)
(* the entry is taken back, the eviction and the sequence number are not.  *)
(***************************************************************************)
AdmitRejected(work) ==
  /\ work.id \notin Registered
  /\ next_sequence < MaxSequence
  /\ operations' = [id \in Registered \ Evicted |-> operations[id]]
  /\ next_sequence' = next_sequence + 1
  /\ UNCHANGED <<channel, queue>>

(* Registry::set: nothing happens when the entry is gone.                  *)
Set(id, state) ==
  channel' = IF id \in Registered
               THEN [channel EXCEPT ![operations[id].sequence] = state]
               ELSE channel

-----------------------------------------------------------------------------
(* submit                                                                  *)

(* The closing latch is read first; a latched plane answers ShuttingDown.  *)
SubmitLoad(s, work) ==
  /\ call[s].pc = "idle"
  /\ ~closing
  /\ call' = [call EXCEPT ![s] = [pc |-> "loaded", work |-> work]]
  /\ UNCHANGED <<operations, next_sequence, channel, queue, rx_closed, closing,
                 host, executor, exit, began, shut_down>>

Idle(s) == call' = [call EXCEPT ![s] = [pc |-> "idle", work |-> NoWork]]

(* The id is registered: attached on the same digest, OperationConflict on *)
(* another.  Neither moves the registry.                                   *)
SubmitExisting(s) ==
  /\ call[s].pc = "loaded"
  /\ call[s].work.id \in Registered
  /\ Idle(s)
  /\ UNCHANGED <<operations, next_sequence, channel, queue, rx_closed, closing,
                 host, executor, exit, began, shut_down>>

(* MaxSequence leaves room for the one admission of every shutdown() call. *)
RoomForHosts == next_sequence + Cardinality(Hosts) < MaxSequence

SubmitAdmit(s) ==
  /\ call[s].pc = "loaded"
  /\ RoomForHosts
  /\ ~rx_closed /\ HasSlot
  /\ Admit(call[s].work)
  /\ IF call[s].work.command = "Shutdown"
       THEN call' = [call EXCEPT ![s].pc = "latch"]
       ELSE Idle(s)
  /\ UNCHANGED <<rx_closed, closing, host, executor, exit, began, shut_down>>

SubmitRejected(s) ==
  /\ call[s].pc = "loaded"
  /\ RoomForHosts
  /\ rx_closed \/ ~HasSlot
  /\ AdmitRejected(call[s].work)
  /\ Idle(s)
  /\ UNCHANGED <<rx_closed, closing, host, executor, exit, began, shut_down>>

(* Only after the Shutdown is queued, and outside the registry lock.       *)
SubmitLatch(s) ==
  /\ call[s].pc = "latch"
  /\ closing' = TRUE
  /\ Idle(s)
  /\ UNCHANGED <<operations, next_sequence, channel, queue, rx_closed, host,
                 executor, exit, began, shut_down>>

-----------------------------------------------------------------------------
(* shutdown(): latch first, then wait for a slot, then admit, then wait.   *)

Goto(h, pc) == host' = [host EXCEPT ![h].pc = pc]

HostLatch(h) ==
  /\ host[h].pc = "idle"
  /\ closing' = TRUE
  /\ Goto(h, "reserving")
  /\ UNCHANGED <<operations, next_sequence, channel, queue, rx_closed, call,
                 executor, exit, began, shut_down>>

(* Mutant: waits for a slot of a receiver that was closed.                 *)
HostReserveBlocks(h) ==
  /\ host[h].pc = "reserving"
  /\ ~rx_closed /\ HasSlot
  /\ Goto(h, "permit")
  /\ UNCHANGED <<operations, next_sequence, channel, queue, rx_closed, closing,
                 call, executor, exit, began, shut_down>>

HostReserve(h) ==
  /\ host[h].pc = "reserving"
  /\ IF rx_closed THEN Goto(h, "until_closed")
                  ELSE HasSlot /\ Goto(h, "permit")
  /\ UNCHANGED <<operations, next_sequence, channel, queue, rx_closed, closing,
                 call, executor, exit, began, shut_down>>

(* permit.send never fails, even on a receiver closed since.               *)
HostAdmit(h) ==
  /\ host[h].pc = "permit"
  /\ Admit([id |-> h, command |-> "Shutdown"])
  /\ host' = [host EXCEPT ![h] = [pc |-> "waiting", sequence |-> next_sequence]]
  /\ UNCHANGED <<rx_closed, closing, call, executor, exit, began, shut_down>>

(* OperationHandle::wait                                                   *)
HostWaited(h) ==
  /\ host[h].pc = "waiting"
  /\ is_terminal(channel[host[h].sequence])
  /\ Goto(h, IF channel[host[h].sequence] = "Succeeded" THEN "ok" ELSE "err")
  /\ UNCHANGED <<operations, next_sequence, channel, queue, rx_closed, closing,
                 call, executor, exit, began, shut_down>>

HostUntilClosed(h) ==
  /\ host[h].pc = "until_closed"
  /\ executor.pc = "exited"
  /\ Goto(h, IF exit = "Clean" THEN "ok" ELSE "err")
  /\ UNCHANGED <<operations, next_sequence, channel, queue, rx_closed, closing,
                 call, executor, exit, began, shut_down>>

(* The caller drops the future at one of its await points (a timeout).  A  *)
(* permit not yet used is returned; an admitted operation stays admitted.  *)
HostCancel(h) ==
  /\ host[h].pc \in {"reserving", "permit", "waiting", "until_closed"}
  /\ Goto(h, "cancelled")
  /\ UNCHANGED <<operations, next_sequence, channel, queue, rx_closed, closing,
                 call, executor, exit, began, shut_down>>

-----------------------------------------------------------------------------
(* executor::run                                                           *)

Executor(pc, work) == executor' = [pc |-> pc, work |-> work]

(* Mutant: the newest work first.                                          *)
RecvNewest ==
  /\ executor.pc = "recv"
  /\ queue # << >>
  /\ Executor("received", queue[Len(queue)])
  /\ queue' = SubSeq(queue, 1, Len(queue) - 1)
  /\ UNCHANGED <<operations, next_sequence, channel, rx_closed, closing, call,
                 host, exit, began, shut_down>>

Recv ==
  /\ executor.pc = "recv"
  /\ queue # << >>
  /\ Executor("received", Head(queue))
  /\ queue' = Tail(queue)
  /\ UNCHANGED <<operations, next_sequence, channel, rx_closed, closing, call,
                 host, exit, began, shut_down>>

IsShutdown == executor.work.command = "Shutdown"

(* Queued for a plane that no longer accepts work.                         *)
Refuse ==
  /\ executor.pc = "received"
  /\ ~IsShutdown /\ closing
  /\ Set(executor.work.id, "Refused")
  /\ Executor("recv", NoWork)
  /\ UNCHANGED <<operations, next_sequence, queue, rx_closed, closing, call,
                 host, exit, began, shut_down>>

Begin ==
  /\ executor.pc = "received"
  /\ IsShutdown \/ ~closing
  /\ Set(executor.work.id, "Running")
  /\ executor' = [executor EXCEPT !.pc = "running"]
  /\ began' = began \cup {operations[executor.work.id].sequence}
  /\ UNCHANGED <<operations, next_sequence, queue, rx_closed, closing, call,
                 host, exit, shut_down>>

(* The transaction returned Ok or Err.  A Shutdown leaves the loop, also   *)
(* when it failed.                                                         *)
Finish(state) ==
  /\ executor.pc = "running"
  /\ Set(executor.work.id, state)
  /\ IF IsShutdown THEN Executor("close", NoWork) /\ exit' = "Clean"
                   ELSE Executor("recv", NoWork) /\ exit' = exit
  /\ shut_down' = (shut_down \/ (IsShutdown /\ state = "Succeeded"))
  /\ UNCHANGED <<operations, next_sequence, queue, rx_closed, closing, call,
                 host, began>>

(* The operation's task panicked: fatal, the executor stops.               *)
Panic ==
  /\ executor.pc = "running"
  /\ Set(executor.work.id, "Died")
  /\ Executor("dying", NoWork)
  /\ exit' = "Died"
  /\ UNCHANGED <<operations, next_sequence, queue, rx_closed, closing, call,
                 host, began, shut_down>>

DieLatch ==
  /\ executor.pc = "dying"
  /\ closing' = TRUE
  /\ Executor("close", NoWork)
  /\ UNCHANGED <<operations, next_sequence, channel, queue, rx_closed, call,
                 host, exit, began, shut_down>>

(* Mutant: drains without closing, so that work arrives behind it.         *)
DrainOpen ==
  /\ executor.pc = "close"
  /\ Executor("drain", NoWork)
  /\ UNCHANGED <<operations, next_sequence, channel, queue, rx_closed, closing,
                 call, host, exit, began, shut_down>>

(* drain closes the receiver, then receives until the queue is empty and   *)
(* every outstanding permit has been used or dropped.                      *)
CloseQueue ==
  /\ executor.pc = "close"
  /\ rx_closed' = TRUE
  /\ Executor("drain", NoWork)
  /\ UNCHANGED <<operations, next_sequence, channel, queue, closing, call, host,
                 exit, began, shut_down>>

DrainedState(work) ==
  IF exit = "Died" THEN "Died"
  ELSE IF work.command = "Shutdown" THEN "Succeeded" ELSE "Refused"

DrainOne ==
  /\ executor.pc = "drain"
  /\ queue # << >>
  /\ Set(Head(queue).id, DrainedState(Head(queue)))
  /\ queue' = Tail(queue)
  /\ UNCHANGED <<operations, next_sequence, rx_closed, closing, call, host,
                 executor, exit, began, shut_down>>

DrainDone ==
  /\ executor.pc = "drain"
  /\ queue = << >> /\ Permits = {}
  /\ Executor("exited", NoWork)
  /\ UNCHANGED <<operations, next_sequence, channel, queue, rx_closed, closing,
                 call, host, exit, began, shut_down>>

-----------------------------------------------------------------------------
SubmitStep(s) ==
  \/ \E work \in [id: ClientIds, command: Commands] : SubmitLoad(s, work)
  \/ SubmitExisting(s) \/ SubmitAdmit(s) \/ SubmitRejected(s) \/ SubmitLatch(s)

HostStep(h) ==
  HostReserve(h) \/ HostAdmit(h) \/ HostWaited(h) \/ HostUntilClosed(h)

ExecutorStep ==
  \/ Recv \/ Refuse \/ Begin
  \/ \E state \in {"Succeeded", "Failed"} : Finish(state)
  \/ Panic \/ DieLatch \/ CloseQueue \/ DrainOne \/ DrainDone

Next ==
  \/ \E s \in Submitters : SubmitStep(s)
  \/ \E h \in Hosts : HostLatch(h) \/ HostStep(h) \/ HostCancel(h)
  \/ ExecutorStep

Spec == Init /\ [][Next]_vars

(***************************************************************************)
(* The runtime keeps polling a task that can go on, and every manager      *)
(* transaction returns or panics (each of its waits has a deadline).       *)
(* Nobody has to submit, to call shutdown() or to cancel it.               *)
(***************************************************************************)
FairSpec ==
  /\ Spec
  /\ WF_vars(ExecutorStep)
  /\ \A h \in Hosts : WF_vars(HostStep(h))

-----------------------------------------------------------------------------
(* Properties                                                              *)

QueuedIds == {queue[k].id : k \in 1 .. Len(queue)}

Holding == executor.pc \in {"received", "running"}

(***************************************************************************)
(* No registered operation is orphaned: one without a terminal state is in *)
(* the queue or in the executor's hands, and whatever is queued or held is *)
(* registered, without a terminal state, under the command it will run     *)
(* (Registry::admit, "there is no window in which a caller can attach to a *)
(* registered operation that will never reach a terminal state").          *)
(***************************************************************************)
LiveOperationsOwned ==
  /\ \A id \in Registered :
       \/ is_terminal(StateOf(id))
       \/ id \in QueuedIds
       \/ Holding /\ executor.work.id = id
  /\ \A k \in 1 .. Len(queue) :
       /\ queue[k].id \in Registered
       /\ StateOf(queue[k].id) = "Queued"
       /\ operations[queue[k].id].digest = queue[k].command

(***************************************************************************)
(* The registry never outgrows its bound although it only evicts terminal  *)
(* entries, because the bound is at least the queue plus the one operation *)
(* outside it (live_registry_capacity), permits included.                  *)
(***************************************************************************)
RegistryBounded == Cardinality(Registered) <= live_registry_capacity

(***************************************************************************)
(* Transactions start in the order of their sequence numbers, and no       *)
(* number starts twice: what a host mirrors by sequence (the bridge's type *)
(* echo) is mirrored in execution order, whoever raced whom to submit.     *)
(***************************************************************************)
StartsInSequence ==
  [][Begin => \A s \in began : s < operations[executor.work.id].sequence]_vars

(***************************************************************************)
(* An operation answered ShuttingDown never touched the manager: a client  *)
(* that is told so may re-submit elsewhere without a second application.   *)
(***************************************************************************)
RefusedNeverRan == \A s \in began : channel[s] # "Refused"

(***************************************************************************)
(* A terminal answer is final: no step of anyone changes a channel whose   *)
(* state is terminal, also not after its registry entry was evicted and    *)
(* its id registered again.                                                *)
(***************************************************************************)
TerminalIsFinal ==
  [][\A s \in SequenceNumbers :
       is_terminal(channel[s]) => channel'[s] = channel[s]]_vars

(***************************************************************************)
(* Once a shutdown() call has returned Ok, no transaction is running and   *)
(* none is about to: work queued before it or racing it cannot put a core  *)
(* back up behind it.                                                      *)
(***************************************************************************)
QuietAfterShutdown == (\E h \in Hosts : host[h].pc = "ok") => ~Holding

(***************************************************************************)
(* Every admitted operation reaches a terminal state: across refusal,      *)
(* panic, shutdown, dropped shutdown() calls and late permits (drain).     *)
(***************************************************************************)
AdmittedTerminates ==
  \A s \in SequenceNumbers : channel[s] = "Queued" ~> is_terminal(channel[s])

(***************************************************************************)
(* A shutdown() call ends: it finds a slot behind a full queue, or learns  *)
(* that the executor is gone, and in both cases gets its answer.           *)
(***************************************************************************)
ShutdownReturns ==
  \A h \in Hosts :
    host[h].pc = "reserving" ~> host[h].pc \in {"ok", "err", "cancelled"}

(***************************************************************************)
(* The control plane implements the serial executor of SerialExecutor: an  *)
(* operation's handle reads its watch channel, and the executor is open    *)
(* until its loop is left.  Nobody who holds handles can tell the plane,   *)
(* with its races between submit, shutdown(), eviction and drain, from a   *)
(* single queue served one at a time.                                      *)
(***************************************************************************)
Serial == INSTANCE SerialExecutor
            WITH Numbers <- SequenceNumbers, ledger <- channel, open <- (exit = "None")
ImplementsSerial == Serial!SerialSpec
=============================================================================
