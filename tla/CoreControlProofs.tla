------------------------- MODULE CoreControlProofs -------------------------
(***************************************************************************)
(* Proofs about the control plane, for every set of callers and ids and    *)
(* for every queue and registry capacity, and about the service's teardown *)
(* over it, for every number of attempts and whatever fails.               *)
(***************************************************************************)
EXTENDS MCServiceShutdown, FiniteSetTheorems, TLAPS

SeqOf(id) == operations[id].sequence

(* Every registered operation has a channel of its own, already created,   *)
(* and the numbers still to be assigned name no channel.                   *)
Channels ==
  /\ \A id \in Registered : SeqOf(id) < next_sequence /\ StateOf(id) # "Unused"
  /\ \A id, other \in Registered : id # other => SeqOf(id) # SeqOf(other)
  /\ \A s \in SequenceNumbers : s >= next_sequence => channel[s] = "Unused"
  /\ \A s \in began : s < next_sequence

(* What is queued is registered and waiting, in the order of the numbers,  *)
(* all of them above every number that began.                              *)
QueueOrdered ==
  /\ \A k \in 1 .. Len(queue) :
       /\ queue[k].id \in Registered
       /\ StateOf(queue[k].id) = "Queued"
       /\ operations[queue[k].id].digest = queue[k].command
       /\ \A s \in began : s < SeqOf(queue[k].id)
  /\ \A j, k \in 1 .. Len(queue) : j < k => SeqOf(queue[j].id) < SeqOf(queue[k].id)

(* What the executor holds left the queue before everything still in it.   *)
HeldOrdered ==
  Holding =>
    /\ executor.work \in Work
    /\ executor.work.id \in Registered
    /\ operations[executor.work.id].digest = executor.work.command
    /\ executor.pc = "received" => /\ StateOf(executor.work.id) = "Queued"
                                   /\ \A s \in began : s < SeqOf(executor.work.id)
    /\ executor.pc = "running" => StateOf(executor.work.id) = "Running"
    /\ \A k \in 1 .. Len(queue) : SeqOf(executor.work.id) < SeqOf(queue[k].id)

Owned ==
  \A id \in Registered :
    \/ is_terminal(StateOf(id))
    \/ \E k \in 1 .. Len(queue) : queue[k].id = id
    \/ Holding /\ executor.work.id = id

RegistryInv == Channels /\ QueueOrdered /\ HeldOrdered /\ Owned /\ RefusedNeverRan

(* An unanswered shutdown() call is registered under its own number, and a *)
(* Succeeded answer means that the executor has left its loop.             *)
HostInv ==
  /\ exit # "None" <=> executor.pc \in {"dying", "close", "drain", "exited"}
  /\ \A h \in Hosts :
       /\ host[h].pc = "waiting" =>
            /\ host[h].sequence \in SequenceNumbers
            /\ host[h].sequence < next_sequence
            /\ \/ /\ h \in Registered
                  /\ SeqOf(h) = host[h].sequence
                  /\ operations[h].digest = "Shutdown"
               \/ is_terminal(channel[host[h].sequence])
            /\ channel[host[h].sequence] = "Succeeded" => exit # "None"
       /\ host[h].pc = "ok" => exit # "None"

(* A submit call past its latch check carries an envelope.                 *)
CallInv == \A s \in Submitters : call[s].pc = "loaded" => call[s].work \in Work

IInv == TypeOK /\ RegistryInv /\ HostInv /\ CallInv

-----------------------------------------------------------------------------
(* The steps that touch neither registry, queue nor executor.              *)
Bystander ==
  /\ UNCHANGED <<operations, next_sequence, channel, queue, began>>
  /\ executor' = executor \/ (~Holding /\ executor'.pc \notin {"received", "running"})

(***************************************************************************)
(* A step that leaves registry, queue and history alone, and the executor  *)
(* either alone or outside a transaction, keeps the registry invariant.    *)
(***************************************************************************)
LEMMA BystanderKeepsRegistry ==
  ASSUME RegistryInv, Bystander
  PROVE  RegistryInv'
<1>1. Registered' = Registered /\ (\A id : StateOf(id)' = StateOf(id) /\ SeqOf(id)' = SeqOf(id))
  BY DEF Bystander, Registered, StateOf, SeqOf
<1>2. (Holding' <=> Holding) /\ (Holding => executor' = executor)
  BY DEF Bystander, Holding
<1>3. Channels'
  BY <1>1 DEF Bystander, RegistryInv, Channels
<1>4. QueueOrdered'
  BY <1>1 DEF Bystander, RegistryInv, QueueOrdered
<1>5. HeldOrdered'
  BY <1>1, <1>2 DEF Bystander, RegistryInv, HeldOrdered
<1>6. Owned'
  BY <1>1, <1>2 DEF Bystander, RegistryInv, Owned
<1>7. RefusedNeverRan'
  BY DEF Bystander, RegistryInv, RefusedNeverRan
<1> QED BY <1>3, <1>4, <1>5, <1>6, <1>7 DEF RegistryInv

(***************************************************************************)
(* The eviction of admit removes terminal entries only, so neither what is *)
(* queued nor what the executor holds.                                     *)
(***************************************************************************)
LEMMA EvictsOnlyTerminal ==
  ASSUME RegistryInv
  PROVE  /\ Evicted \subseteq Registered
         /\ \A id \in Evicted : is_terminal(StateOf(id))
         /\ \A k \in 1 .. Len(queue) : queue[k].id \in Registered \ Evicted
         /\ Holding => executor.work.id \in Registered \ Evicted
<1>1. Evicted \subseteq Registered /\ \A id \in Evicted : is_terminal(StateOf(id))
  BY DEF Evicted, Terminals
<1>2. \A k \in 1 .. Len(queue) : queue[k].id \in Registered \ Evicted
  BY <1>1 DEF RegistryInv, QueueOrdered, is_terminal
<1>3. Holding => executor.work.id \in Registered \ Evicted
  BY <1>1 DEF RegistryInv, HeldOrdered, is_terminal, Holding
<1> QED BY <1>1, <1>2, <1>3

(***************************************************************************)
(* admit keeps the registry invariant when its enqueue succeeds.           *)
(***************************************************************************)
LEMMA AdmitKeepsRegistry ==
  ASSUME TypeOK, RegistryInv, NEW work \in Work, Admit(work),
         executor' = executor, began' = began
  PROVE  RegistryInv'
<1> USE ControlAssumption
<1> DEFINE Kept == Registered \ Evicted
<1>1. /\ Registered' = Kept \cup {work.id}
      /\ work.id \notin Kept
      /\ \A id \in Kept : operations'[id] = operations[id]
      /\ operations'[work.id] = [digest |-> work.command, sequence |-> next_sequence]
  BY DEF Admit, Registered
<1>2. /\ next_sequence \in SequenceNumbers
      /\ next_sequence' = next_sequence + 1
      /\ channel' = [channel EXCEPT ![next_sequence] = "Queued"]
      /\ channel \in [SequenceNumbers -> OperationState]
  BY DEF Admit, TypeOK, SequenceNumbers
<1>3. \A id \in Registered : SeqOf(id) \in SequenceNumbers /\ SeqOf(id) < next_sequence
  BY DEF RegistryInv, Channels, SeqOf, TypeOK, Registered
<1>4. \A id \in Kept : /\ SeqOf(id)' = SeqOf(id)
                       /\ StateOf(id)' = StateOf(id)
  BY <1>1, <1>2, <1>3 DEF SeqOf, StateOf, SequenceNumbers
<1>5. SeqOf(work.id)' = next_sequence /\ StateOf(work.id)' = "Queued"
  BY <1>1, <1>2 DEF SeqOf, StateOf
<1>6. /\ queue' = Append(queue, work)
      /\ Len(queue') = Len(queue) + 1
      /\ \A k \in 1 .. Len(queue) : queue'[k] = queue[k]
      /\ queue'[Len(queue) + 1] = work
      /\ Len(queue) \in Nat
  BY DEF Admit, TypeOK
<1>7. \A k \in 1 .. Len(queue) : queue[k].id \in Kept
  BY EvictsOnlyTerminal
<1>8. Holding' = Holding /\ (Holding => executor.work.id \in Kept)
  BY EvictsOnlyTerminal DEF Holding
<1>9. Channels'
  <2>1. \A id \in Registered' : SeqOf(id)' < next_sequence' /\ StateOf(id)' # "Unused"
    BY <1>1, <1>2, <1>3, <1>4, <1>5 DEF RegistryInv, Channels, SequenceNumbers
  <2>2. \A id, other \in Registered' : id # other => SeqOf(id)' # SeqOf(other)'
    BY <1>1, <1>2, <1>3, <1>4, <1>5 DEF RegistryInv, Channels, SequenceNumbers
  <2>3. \A s \in SequenceNumbers : s >= next_sequence' => channel'[s] = "Unused"
    BY <1>2 DEF RegistryInv, Channels, SequenceNumbers
  <2>4. \A s \in began' : s < next_sequence'
    BY <1>2 DEF RegistryInv, Channels, SequenceNumbers, TypeOK
  <2> QED BY <2>1, <2>2, <2>3, <2>4 DEF Channels
<1>10. QueueOrdered'
  <2>1. \A k \in 1 .. Len(queue) :
          /\ queue'[k].id \in Registered'
          /\ channel'[operations'[queue'[k].id].sequence] = "Queued"
          /\ operations'[queue'[k].id].digest = queue'[k].command
          /\ operations'[queue'[k].id].sequence = SeqOf(queue[k].id)
          /\ SeqOf(queue[k].id) < next_sequence
    BY <1>1, <1>3, <1>4, <1>6, <1>7 DEF RegistryInv, QueueOrdered, SeqOf, StateOf
  <2>2. \A k \in 1 .. Len(queue') :
          /\ queue'[k].id \in Registered'
          /\ channel'[operations'[queue'[k].id].sequence] = "Queued"
          /\ operations'[queue'[k].id].digest = queue'[k].command
          /\ \A s \in began' : s < operations'[queue'[k].id].sequence
    <3> TAKE k \in 1 .. Len(queue')
    <3>1. CASE k \in 1 .. Len(queue)
      BY <3>1, <2>1 DEF RegistryInv, QueueOrdered
    <3>2. CASE k = Len(queue) + 1
      BY <3>2, <1>1, <1>5, <1>6 DEF RegistryInv, Channels, SeqOf, StateOf
    <3> QED BY <3>1, <3>2, <1>6
  <2>3. \A j, k \in 1 .. Len(queue') :
          j < k => operations'[queue'[j].id].sequence < operations'[queue'[k].id].sequence
    <3> TAKE j, k \in 1 .. Len(queue')
    <3>1. CASE k \in 1 .. Len(queue)
      BY <3>1, <2>1, <1>6 DEF RegistryInv, QueueOrdered
    <3>2. CASE k = Len(queue) + 1
      BY <3>2, <2>1, <1>5, <1>6 DEF SeqOf
    <3> QED BY <3>1, <3>2, <1>6
  <2> QED BY <2>2, <2>3 DEF QueueOrdered, SeqOf, StateOf
<1>11. HeldOrdered'
  <2> SUFFICES ASSUME Holding
               PROVE  HeldOrdered'
    BY <1>8 DEF HeldOrdered
  <2>1. /\ executor.work.id \in Kept
        /\ SeqOf(executor.work.id)' = SeqOf(executor.work.id)
        /\ StateOf(executor.work.id)' = StateOf(executor.work.id)
        /\ operations'[executor.work.id] = operations[executor.work.id]
        /\ SeqOf(executor.work.id) < next_sequence
    BY <1>1, <1>3, <1>4, <1>8
  <2>2. \A k \in 1 .. Len(queue') :
          SeqOf(executor.work.id)' < operations'[queue'[k].id].sequence
    <3> TAKE k \in 1 .. Len(queue')
    <3>1. CASE k \in 1 .. Len(queue)
      BY <3>1, <1>4, <1>6, <1>7, <2>1 DEF RegistryInv, HeldOrdered, SeqOf
    <3>2. CASE k = Len(queue) + 1
      BY <3>2, <2>1, <1>5, <1>6 DEF SeqOf
    <3> QED BY <3>1, <3>2, <1>6
  <2> QED BY <1>1, <2>1, <2>2 DEF RegistryInv, HeldOrdered, SeqOf, StateOf, Registered
<1>12. Owned'
  <2> SUFFICES ASSUME NEW id \in Registered'
               PROVE  \/ is_terminal(StateOf(id))'
                      \/ \E k \in 1 .. Len(queue') : queue'[k].id = id
                      \/ Holding' /\ executor'.work.id = id
    BY DEF Owned
  <2>1. CASE id = work.id
    BY <2>1, <1>6
  <2>2. CASE id \in Kept
    <3>1. \/ is_terminal(StateOf(id))
          \/ \E k \in 1 .. Len(queue) : queue[k].id = id
          \/ Holding /\ executor.work.id = id
      BY <2>2 DEF RegistryInv, Owned
    <3> QED BY <2>2, <3>1, <1>4, <1>6, <1>8 DEF is_terminal
  <2> QED BY <1>1, <2>1, <2>2
<1>13. RefusedNeverRan'
  BY <1>2 DEF RegistryInv, RefusedNeverRan, Channels, TypeOK
<1> QED BY <1>9, <1>10, <1>11, <1>12, <1>13 DEF RegistryInv

(***************************************************************************)
(* A refused enqueue keeps it too: it only evicts.                         *)
(***************************************************************************)
LEMMA RejectKeepsRegistry ==
  ASSUME TypeOK, RegistryInv, NEW work, AdmitRejected(work),
         executor' = executor, began' = began
  PROVE  RegistryInv'
<1> USE ControlAssumption
<1> DEFINE Kept == Registered \ Evicted
<1>1. /\ Registered' = Kept
      /\ \A id \in Kept : operations'[id] = operations[id]
      /\ channel' = channel /\ queue' = queue
      /\ next_sequence' = next_sequence + 1
      /\ next_sequence \in Nat
  BY DEF AdmitRejected, Registered, TypeOK
<1>2. \A id \in Kept : SeqOf(id)' = SeqOf(id) /\ StateOf(id)' = StateOf(id)
  BY <1>1 DEF SeqOf, StateOf
<1>3. \A k \in 1 .. Len(queue) : queue[k].id \in Kept
  BY EvictsOnlyTerminal
<1>4. Holding' = Holding /\ (Holding => executor.work.id \in Kept)
  BY EvictsOnlyTerminal DEF Holding
<1>5. Channels'
  <2>1. \A id \in Registered : SeqOf(id) \in Int
    BY DEF SeqOf, TypeOK, Registered, SequenceNumbers
  <2>2. \A s \in began : s \in Int
    BY DEF TypeOK, SequenceNumbers
  <2>3. \A id \in Registered' : SeqOf(id)' < next_sequence' /\ StateOf(id)' # "Unused"
    BY <1>1, <1>2, <2>1 DEF RegistryInv, Channels
  <2>4. \A id, other \in Registered' : id # other => SeqOf(id)' # SeqOf(other)'
    BY <1>1, <1>2 DEF RegistryInv, Channels
  <2>5. \A s \in SequenceNumbers : s >= next_sequence' => channel'[s] = "Unused"
    BY <1>1 DEF RegistryInv, Channels, SequenceNumbers
  <2>6. \A s \in began' : s < next_sequence'
    BY <1>1, <2>2 DEF RegistryInv, Channels
  <2> QED BY <2>3, <2>4, <2>5, <2>6 DEF Channels
<1>6. QueueOrdered'
  BY <1>1, <1>2, <1>3 DEF RegistryInv, QueueOrdered, SeqOf, StateOf
<1>7. HeldOrdered'
  <2> SUFFICES ASSUME Holding PROVE HeldOrdered'
    BY <1>4 DEF HeldOrdered
  <2> QED BY <1>1, <1>2, <1>3, <1>4 DEF RegistryInv, HeldOrdered, SeqOf, StateOf
<1>8. Owned'
  BY <1>1, <1>2, <1>4 DEF RegistryInv, Owned, is_terminal
<1>9. RefusedNeverRan'
  BY <1>1 DEF RegistryInv, RefusedNeverRan
<1> QED BY <1>5, <1>6, <1>7, <1>8, <1>9 DEF RegistryInv

(***************************************************************************)
(* Registry::set writes the channel of the entry it names and no other.    *)
(***************************************************************************)
LEMMA SetWritesOne ==
  ASSUME TypeOK, RegistryInv, NEW id \in Registered, NEW state, Set(id, state),
         operations' = operations
  PROVE  /\ StateOf(id)' = state
         /\ \A other \in Registered : other # id => StateOf(other)' = StateOf(other)
         /\ \A other : SeqOf(other)' = SeqOf(other)
         /\ Registered' = Registered
         /\ \A s \in SequenceNumbers : s # SeqOf(id) => channel'[s] = channel[s]
         /\ SeqOf(id) \in SequenceNumbers
         /\ channel'[SeqOf(id)] = state
<1>1. \A other \in Registered : SeqOf(other) \in SequenceNumbers
  BY DEF SeqOf, TypeOK, Registered
<1>2. channel' = [channel EXCEPT ![SeqOf(id)] = state]
  BY DEF Set, SeqOf
<1>3. channel \in [SequenceNumbers -> OperationState]
  BY DEF TypeOK
<1> QED BY <1>1, <1>2, <1>3 DEF StateOf, SeqOf, Registered, RegistryInv, Channels

(***************************************************************************)
(* recv hands the head of the queue to the executor.                       *)
(***************************************************************************)
LEMMA RecvKeepsRegistry ==
  ASSUME TypeOK, RegistryInv, Recv
  PROVE  RegistryInv'
<1>1. /\ queue \in Seq(Work) /\ queue # << >> /\ queue' = Tail(queue)
      /\ executor'.work = queue[1] /\ executor'.pc = "received"
      /\ ~Holding /\ Holding'
  BY DEF Recv, Executor, TypeOK, Holding
<1>2. /\ Len(queue) \in Nat /\ 1 \in 1 .. Len(queue)
      /\ Len(queue') = Len(queue) - 1
      /\ \A k \in 1 .. Len(queue') : k + 1 \in 1 .. Len(queue) /\ queue'[k] = queue[k + 1]
      /\ queue[1] \in Work
  BY <1>1
<1>3. /\ Registered' = Registered
      /\ operations' = operations /\ channel' = channel /\ began' = began
      /\ next_sequence' = next_sequence
      /\ \A id : StateOf(id)' = StateOf(id) /\ SeqOf(id)' = SeqOf(id)
  BY DEF Recv, Registered, StateOf, SeqOf
<1>4. Channels'
  BY <1>3 DEF RegistryInv, Channels
<1>5. QueueOrdered'
  <2>1. \A k \in 1 .. Len(queue') :
          /\ queue'[k].id \in Registered
          /\ StateOf(queue[k + 1].id) = "Queued"
          /\ operations[queue'[k].id].digest = queue'[k].command
          /\ \A s \in began : s < SeqOf(queue[k + 1].id)
    BY <1>2 DEF RegistryInv, QueueOrdered
  <2>2. \A j, k \in 1 .. Len(queue') :
          j < k => SeqOf(queue[j + 1].id) < SeqOf(queue[k + 1].id)
    BY <1>2 DEF RegistryInv, QueueOrdered
  <2> QED BY <1>2, <1>3, <2>1, <2>2 DEF QueueOrdered, SeqOf, StateOf
<1>6. HeldOrdered'
  BY <1>1, <1>2, <1>3 DEF RegistryInv, QueueOrdered, HeldOrdered, SeqOf, StateOf
<1>7. Owned'
  <2> SUFFICES ASSUME NEW id \in Registered, ~is_terminal(StateOf(id))
               PROVE  \/ \E k \in 1 .. Len(queue') : queue'[k].id = id
                      \/ executor'.work.id = id
    BY <1>1, <1>3 DEF Owned
  <2>1. PICK k \in 1 .. Len(queue) : queue[k].id = id
    BY <1>1 DEF RegistryInv, Owned
  <2>2. CASE k = 1
    BY <1>1, <2>1, <2>2
  <2>3. CASE k # 1
    <3>1. k - 1 \in 1 .. Len(queue') /\ queue'[k - 1] = queue[k]
      BY <1>2, <2>3
    <3> QED BY <2>1, <3>1
  <2> QED BY <2>2, <2>3
<1>8. RefusedNeverRan'
  BY <1>3 DEF RegistryInv, RefusedNeverRan
<1> QED BY <1>4, <1>5, <1>6, <1>7, <1>8 DEF RegistryInv

(***************************************************************************)
(* Starting the held operation.                                            *)
(***************************************************************************)
LEMMA BeginKeepsRegistry ==
  ASSUME TypeOK, RegistryInv, Begin
  PROVE  RegistryInv'
<1> DEFINE held == executor.work.id
<1>1. /\ Holding /\ Holding' /\ executor.pc = "received" /\ executor'.pc = "running"
      /\ executor'.work = executor.work
      /\ held \in Registered
      /\ operations' = operations /\ queue' = queue /\ next_sequence' = next_sequence
      /\ began' = began \cup {SeqOf(held)}
  BY DEF Begin, Holding, RegistryInv, HeldOrdered, TypeOK, SeqOf
<1>2. /\ StateOf(held)' = "Running"
      /\ \A other \in Registered : other # held => StateOf(other)' = StateOf(other)
      /\ \A other : SeqOf(other)' = SeqOf(other)
      /\ Registered' = Registered
      /\ \A s \in SequenceNumbers : s # SeqOf(held) => channel'[s] = channel[s]
      /\ SeqOf(held) \in SequenceNumbers
      /\ channel'[SeqOf(held)] = "Running"
  BY <1>1, SetWritesOne DEF Begin
<1>3. StateOf(held) = "Queued" /\ SeqOf(held) < next_sequence
  BY <1>1 DEF RegistryInv, HeldOrdered, Channels
<1>4. \A k \in 1 .. Len(queue) : queue[k].id # held /\ SeqOf(held) < SeqOf(queue[k].id)
  BY <1>1, <1>2 DEF RegistryInv, HeldOrdered, SequenceNumbers
<1>5. Channels'
  <2>1. \A s \in SequenceNumbers : s >= next_sequence => channel'[s] = "Unused"
    BY <1>2, <1>3 DEF RegistryInv, Channels, SequenceNumbers, TypeOK
  <2> QED BY <1>1, <1>2, <1>3, <2>1 DEF RegistryInv, Channels
<1>6. QueueOrdered'
  BY <1>1, <1>2, <1>4 DEF RegistryInv, QueueOrdered, SeqOf, StateOf
<1>7. HeldOrdered'
  BY <1>1, <1>2, <1>4 DEF RegistryInv, HeldOrdered, SeqOf, StateOf
<1>8. Owned'
  BY <1>1, <1>2 DEF RegistryInv, Owned
<1>9. RefusedNeverRan'
  BY <1>1, <1>2 DEF RegistryInv, RefusedNeverRan, TypeOK
<1> QED BY <1>5, <1>6, <1>7, <1>8, <1>9 DEF RegistryInv

(***************************************************************************)
(* Answering the held operation: it leaves the executor's hands with a     *)
(* terminal state, Refused only when it never began.                       *)
(***************************************************************************)
LEMMA AnswerKeepsRegistry ==
  ASSUME TypeOK, RegistryInv, Holding,
         NEW state \in OperationState, is_terminal(state),
         state = "Refused" => executor.pc = "received",
         Set(executor.work.id, state), ~Holding',
         UNCHANGED <<operations, next_sequence, queue, began>>
  PROVE  RegistryInv'
<1>0. PICK held \in Registered : held = executor.work.id
  BY DEF RegistryInv, HeldOrdered
<1>1. held \in Registered /\ operations' = operations
  OBVIOUS
<1>2. /\ StateOf(held)' = state
      /\ \A other \in Registered : other # held => StateOf(other)' = StateOf(other)
      /\ \A other : SeqOf(other)' = SeqOf(other)
      /\ Registered' = Registered
      /\ \A s \in SequenceNumbers : s # SeqOf(held) => channel'[s] = channel[s]
      /\ SeqOf(held) \in SequenceNumbers
      /\ channel'[SeqOf(held)] = state
  BY <1>0, <1>1, SetWritesOne
<1>3. SeqOf(held) < next_sequence
  BY <1>1 DEF RegistryInv, Channels
<1>4. \A k \in 1 .. Len(queue) : queue[k].id # held
  BY <1>0, <1>1, <1>2 DEF RegistryInv, HeldOrdered, SequenceNumbers
<1>5. Channels'
  <2>1. \A s \in SequenceNumbers : s >= next_sequence => channel'[s] = "Unused"
    BY <1>2, <1>3 DEF RegistryInv, Channels, SequenceNumbers, TypeOK
  <2>2. \A id \in Registered : StateOf(id)' # "Unused"
    BY <1>1, <1>2 DEF RegistryInv, Channels, is_terminal
  <2> QED BY <1>1, <1>2, <2>1, <2>2 DEF RegistryInv, Channels
<1>6. QueueOrdered'
  BY <1>1, <1>2, <1>4 DEF RegistryInv, QueueOrdered, SeqOf, StateOf
<1>7. HeldOrdered'
  BY DEF HeldOrdered
<1>8. Owned'
  <2> SUFFICES ASSUME NEW id \in Registered
               PROVE  is_terminal(StateOf(id))' \/ \E k \in 1 .. Len(queue) : queue[k].id = id
    BY <1>2 DEF Owned
  <2>1. CASE id = held
    BY <2>1, <1>2 DEF is_terminal
  <2>2. CASE id # held
    BY <2>2, <1>0, <1>2 DEF RegistryInv, Owned, is_terminal
  <2> QED BY <2>1, <2>2
<1>9. RefusedNeverRan'
  <2>1. state = "Refused" => SeqOf(held) \notin began
    BY <1>0, <1>2 DEF RegistryInv, HeldOrdered, SequenceNumbers
  <2> QED BY <1>2, <2>1 DEF RegistryInv, RefusedNeverRan, TypeOK
<1> QED BY <1>5, <1>6, <1>7, <1>8, <1>9 DEF RegistryInv

(***************************************************************************)
(* The drain answers the head of the queue, which never began.             *)
(***************************************************************************)
LEMMA DrainKeepsRegistry ==
  ASSUME TypeOK, RegistryInv, DrainOne
  PROVE  RegistryInv'
<1>1. /\ queue \in Seq(Work) /\ queue # << >> /\ queue' = Tail(queue)
      /\ ~Holding /\ ~Holding'
      /\ operations' = operations /\ began' = began /\ next_sequence' = next_sequence
  BY DEF DrainOne, TypeOK, Holding
<1>2. /\ Len(queue) \in Nat /\ 1 \in 1 .. Len(queue)
      /\ Len(queue') = Len(queue) - 1
      /\ \A k \in 1 .. Len(queue') : k + 1 \in 1 .. Len(queue) /\ queue'[k] = queue[k + 1]
      /\ Head(queue) = queue[1]
  BY <1>1
<1>0. PICK head \in Registered : head = queue[1].id
  BY <1>2 DEF RegistryInv, QueueOrdered
<1>3. PICK state \in {"Succeeded", "Refused", "Died"} : Set(head, state)
  BY <1>0, <1>2 DEF DrainOne, DrainedState
<1>4. head \in Registered /\ StateOf(head) = "Queued" /\ SeqOf(head) < next_sequence
      /\ \A s \in began : s < SeqOf(head)
  BY <1>0, <1>2 DEF RegistryInv, QueueOrdered, Channels
<1>5. /\ StateOf(head)' = state
      /\ \A other \in Registered : other # head => StateOf(other)' = StateOf(other)
      /\ \A other : SeqOf(other)' = SeqOf(other)
      /\ Registered' = Registered
      /\ \A s \in SequenceNumbers : s # SeqOf(head) => channel'[s] = channel[s]
      /\ SeqOf(head) \in SequenceNumbers
      /\ channel'[SeqOf(head)] = state
  BY <1>1, <1>3, <1>4, SetWritesOne
<1>6. \A k \in 1 .. Len(queue) : k # 1 => queue[k].id # head
  <2> SUFFICES ASSUME NEW k \in 1 .. Len(queue), k # 1 PROVE queue[k].id # head
    OBVIOUS
  <2>1. SeqOf(queue[1].id) < SeqOf(queue[k].id)
    BY <1>2 DEF RegistryInv, QueueOrdered
  <2> QED BY <2>1, <1>0, <1>5 DEF SequenceNumbers
<1>7. Channels'
  <2>1. \A s \in SequenceNumbers : s >= next_sequence => channel'[s] = "Unused"
    BY <1>4, <1>5 DEF RegistryInv, Channels, SequenceNumbers, TypeOK
  <2>2. \A id \in Registered : StateOf(id)' # "Unused"
    BY <1>3, <1>4, <1>5 DEF RegistryInv, Channels
  <2> QED BY <1>1, <1>5, <2>1, <2>2 DEF RegistryInv, Channels
<1>8. QueueOrdered'
  <2>1. \A k \in 1 .. Len(queue') :
          /\ queue'[k].id \in Registered
          /\ queue'[k].id # head
          /\ StateOf(queue[k + 1].id) = "Queued"
          /\ operations[queue'[k].id].digest = queue'[k].command
          /\ \A s \in began : s < SeqOf(queue[k + 1].id)
    BY <1>2, <1>6 DEF RegistryInv, QueueOrdered
  <2>2. \A j, k \in 1 .. Len(queue') :
          j < k => SeqOf(queue[j + 1].id) < SeqOf(queue[k + 1].id)
    BY <1>2 DEF RegistryInv, QueueOrdered
  <2> QED BY <1>1, <1>2, <1>5, <2>1, <2>2 DEF QueueOrdered, SeqOf, StateOf
<1>9. HeldOrdered'
  BY <1>1 DEF HeldOrdered
<1>10. Owned'
  <2> SUFFICES ASSUME NEW id \in Registered, ~is_terminal(StateOf(id))'
               PROVE  \E k \in 1 .. Len(queue') : queue'[k].id = id
    BY <1>5 DEF Owned
  <2>1. id # head
    BY <1>3, <1>5 DEF is_terminal
  <2>2. PICK k \in 1 .. Len(queue) : queue[k].id = id
    BY <1>1, <1>5, <2>1 DEF RegistryInv, Owned, is_terminal
  <2>3. k - 1 \in 1 .. Len(queue') /\ queue'[k - 1] = queue[k]
    BY <1>0, <1>2, <2>1, <2>2
  <2> QED BY <2>2, <2>3
<1>11. RefusedNeverRan'
  <2>1. SeqOf(head) \notin began
    BY <1>4, <1>5 DEF SequenceNumbers
  <2> QED BY <1>1, <1>5, <2>1 DEF RegistryInv, RefusedNeverRan, TypeOK
<1> QED BY <1>7, <1>8, <1>9, <1>10, <1>11 DEF RegistryInv

-----------------------------------------------------------------------------
(* The type part.                                                          *)
RegistryType ==
  /\ DOMAIN operations \subseteq Ids
  /\ operations \in [DOMAIN operations -> [digest: Commands, sequence: SequenceNumbers]]
  /\ next_sequence \in 0 .. MaxSequence
  /\ channel \in [SequenceNumbers -> OperationState]
  /\ queue \in Seq(Work)

(* A successful admission keeps the types of registry, channels and queue. *)
LEMMA AdmitKeepsTypes ==
  ASSUME TypeOK, NEW work \in Work, Admit(work)
  PROVE  RegistryType'
<1> USE ControlAssumption
<1>1. next_sequence \in SequenceNumbers /\ next_sequence' \in 0 .. MaxSequence
  BY DEF Admit, TypeOK, SequenceNumbers
<1>2. DOMAIN operations' = (Registered \ Evicted) \cup {work.id}
  BY DEF Admit
<1>3. DOMAIN operations' \subseteq Ids
  BY <1>2 DEF TypeOK, Registered, Work
<1>4. operations' \in [DOMAIN operations' -> [digest: Commands, sequence: SequenceNumbers]]
  BY <1>1, <1>2 DEF Admit, TypeOK, Registered, Work
<1>5. channel' \in [SequenceNumbers -> OperationState]
  BY <1>1 DEF Admit, TypeOK, OperationState
<1>6. queue' \in Seq(Work)
  BY DEF Admit, TypeOK
<1> QED BY <1>1, <1>3, <1>4, <1>5, <1>6 DEF RegistryType

(* So does one that is taken back.                                         *)
LEMMA RejectKeepsTypes ==
  ASSUME TypeOK, NEW work, AdmitRejected(work)
  PROVE  RegistryType'
<1> USE ControlAssumption
<1>1. DOMAIN operations' = Registered \ Evicted
  BY DEF AdmitRejected
<1>2. operations' \in [DOMAIN operations' -> [digest: Commands, sequence: SequenceNumbers]]
  BY <1>1 DEF AdmitRejected, TypeOK, Registered
<1> QED BY <1>1, <1>2 DEF AdmitRejected, TypeOK, Registered, RegistryType

(* Registry::set writes one state into one channel.                        *)
LEMMA SetKeepsTypes ==
  ASSUME TypeOK, NEW id, NEW state \in OperationState, Set(id, state)
  PROVE  channel' \in [SequenceNumbers -> OperationState]
BY DEF TypeOK, Set, Registered

(* What shutdown() enqueues is an envelope.                                *)
LEMMA ShutdownWork == \A h \in Hosts : [id |-> h, command |-> "Shutdown"] \in Work
BY ControlAssumption DEF Work, Ids

(***************************************************************************)
(* Type correctness, given that a loaded call has an envelope and that the *)
(* executor only holds registered work.                                    *)
(***************************************************************************)
LEMMA TypeInductive ==
  ASSUME TypeOK, RegistryInv, CallInv, [Next]_vars
  PROVE  TypeOK'
<1> USE DEF TypeOK
<1>1. ASSUME NEW s \in Submitters, NEW work \in [id: ClientIds, command: Commands],
             SubmitLoad(s, work)
      PROVE  TypeOK'
  BY <1>1 DEF SubmitLoad, Work, Ids
<1>2. ASSUME NEW s \in Submitters, SubmitExisting(s) PROVE TypeOK'
  BY <1>2 DEF SubmitExisting, Idle
<1>3. ASSUME NEW s \in Submitters, SubmitAdmit(s) PROVE TypeOK'
  <2>1. RegistryType'
    BY <1>3, AdmitKeepsTypes DEF SubmitAdmit, CallInv
  <2>2. call' \in [Submitters -> [pc: {"idle", "loaded", "latch"}, work: Work \cup {NoWork}]]
    BY <1>3 DEF SubmitAdmit, Idle
  <2> QED BY <1>3, <2>1, <2>2 DEF SubmitAdmit, RegistryType
<1>4. ASSUME NEW s \in Submitters, SubmitRejected(s) PROVE TypeOK'
  <2>1. RegistryType'
    BY <1>4, RejectKeepsTypes DEF SubmitRejected
  <2> QED BY <1>4, <2>1 DEF SubmitRejected, Idle, RegistryType
<1>5. ASSUME NEW s \in Submitters, SubmitLatch(s) PROVE TypeOK'
  BY <1>5 DEF SubmitLatch, Idle
<1>6. ASSUME NEW h \in Hosts, HostLatch(h) PROVE TypeOK'
  BY <1>6 DEF HostLatch, Goto
<1>7. ASSUME NEW h \in Hosts, HostReserve(h) PROVE TypeOK'
  BY <1>7 DEF HostReserve, Goto
<1>8. ASSUME NEW h \in Hosts, HostAdmit(h) PROVE TypeOK'
  <2>1. RegistryType'
    BY <1>8, AdmitKeepsTypes, ShutdownWork DEF HostAdmit
  <2>2. next_sequence \in SequenceNumbers
    BY <1>8, ControlAssumption DEF HostAdmit, Admit, SequenceNumbers
  <2> QED BY <1>8, <2>1, <2>2 DEF HostAdmit, RegistryType
<1>9. ASSUME NEW h \in Hosts, HostWaited(h) PROVE TypeOK'
  BY <1>9 DEF HostWaited, Goto
<1>10. ASSUME NEW h \in Hosts, HostUntilClosed(h) PROVE TypeOK'
  BY <1>10 DEF HostUntilClosed, Goto
<1>11. ASSUME NEW h \in Hosts, HostCancel(h) PROVE TypeOK'
  BY <1>11 DEF HostCancel, Goto
<1>12. CASE Recv
  BY <1>12 DEF Recv, Executor
<1>13. CASE Refuse
  <2>1. channel' \in [SequenceNumbers -> OperationState]
    BY <1>13, SetKeepsTypes DEF Refuse, OperationState
  <2> QED BY <1>13, <2>1 DEF Refuse, Executor
<1>14. CASE Begin
  <2>1. channel' \in [SequenceNumbers -> OperationState]
    BY <1>14, SetKeepsTypes DEF Begin, OperationState
  <2>2. began' \subseteq SequenceNumbers
    BY <1>14 DEF Begin, RegistryInv, HeldOrdered, Holding, Registered
  <2> QED BY <1>14, <2>1, <2>2 DEF Begin
<1>15. ASSUME NEW state \in {"Succeeded", "Failed"}, Finish(state) PROVE TypeOK'
  <2>1. channel' \in [SequenceNumbers -> OperationState]
    BY <1>15, SetKeepsTypes DEF Finish, OperationState
  <2> QED BY <1>15, <2>1 DEF Finish, Executor
<1>16. CASE Panic
  <2>1. channel' \in [SequenceNumbers -> OperationState]
    BY <1>16, SetKeepsTypes DEF Panic, OperationState
  <2> QED BY <1>16, <2>1 DEF Panic, Executor
<1>17. CASE DieLatch
  BY <1>17 DEF DieLatch, Executor
<1>18. CASE CloseQueue
  BY <1>18 DEF CloseQueue, Executor
<1>19. CASE DrainOne
  <2>1. channel' \in [SequenceNumbers -> OperationState]
    BY <1>19, SetKeepsTypes DEF DrainOne, DrainedState, OperationState
  <2> QED BY <1>19, <2>1 DEF DrainOne
<1>20. CASE DrainDone
  BY <1>20 DEF DrainDone, Executor
<1>21. CASE UNCHANGED vars
  BY <1>21 DEF vars
<1> QED BY <1>1, <1>2, <1>3, <1>4, <1>5, <1>6, <1>7, <1>8, <1>9, <1>10, <1>11,
           <1>12, <1>13, <1>14, <1>15, <1>16, <1>17, <1>18, <1>19, <1>20, <1>21
        DEF Next, SubmitStep, HostStep, ExecutorStep

-----------------------------------------------------------------------------
(***************************************************************************)
(* Every step keeps the registry invariant.                                *)
(***************************************************************************)
LEMMA RegistryInductive ==
  ASSUME IInv, [Next]_vars
  PROVE  RegistryInv'
<1> USE DEF IInv
<1>1. ASSUME Bystander PROVE RegistryInv'
  BY <1>1, BystanderKeepsRegistry
<1>2. ASSUME NEW s \in Submitters, SubmitStep(s) PROVE RegistryInv'
  <2>1. ASSUME NEW work \in [id: ClientIds, command: Commands], SubmitLoad(s, work)
        PROVE  RegistryInv'
    BY <1>1, <2>1 DEF SubmitLoad, Bystander
  <2>2. CASE SubmitExisting(s)
    BY <1>1, <2>2 DEF SubmitExisting, Bystander
  <2>3. CASE SubmitAdmit(s)
    BY <2>3, AdmitKeepsRegistry DEF SubmitAdmit, CallInv
  <2>4. CASE SubmitRejected(s)
    BY <2>4, RejectKeepsRegistry DEF SubmitRejected
  <2>5. CASE SubmitLatch(s)
    BY <1>1, <2>5 DEF SubmitLatch, Bystander
  <2> QED BY <1>2, <2>1, <2>2, <2>3, <2>4, <2>5 DEF SubmitStep
<1>3. ASSUME NEW h \in Hosts, HostLatch(h) \/ HostStep(h) \/ HostCancel(h)
      PROVE  RegistryInv'
  <2>1. CASE HostAdmit(h)
    BY <2>1, AdmitKeepsRegistry, ShutdownWork DEF HostAdmit
  <2>2. CASE ~HostAdmit(h)
    BY <1>1, <1>3, <2>2
       DEF HostStep, HostLatch, HostReserve, HostWaited, HostUntilClosed, HostCancel,
           Bystander
  <2> QED BY <2>1, <2>2
<1>4. CASE Recv
  BY <1>4, RecvKeepsRegistry
<1>5. CASE Refuse
  <2>1. Holding /\ ~Holding' /\ executor.pc = "received"
    BY <1>5 DEF Refuse, Executor, Holding
  <2>2. "Refused" \in OperationState /\ is_terminal("Refused")
    BY DEF OperationState, is_terminal
  <2> QED BY <1>5, <2>1, <2>2, AnswerKeepsRegistry DEF Refuse
<1>6. CASE Begin
  BY <1>6, BeginKeepsRegistry
<1>7. ASSUME NEW state \in {"Succeeded", "Failed"}, Finish(state) PROVE RegistryInv'
  <2>1. Holding /\ ~Holding'
    BY <1>7 DEF Finish, Executor, Holding
  <2>2. state \in OperationState /\ is_terminal(state) /\ state # "Refused"
    BY DEF OperationState, is_terminal
  <2> QED BY <1>7, <2>1, <2>2, AnswerKeepsRegistry DEF Finish
<1>8. CASE Panic
  <2>1. Holding /\ ~Holding'
    BY <1>8 DEF Panic, Executor, Holding
  <2>2. "Died" \in OperationState /\ is_terminal("Died") /\ "Died" # "Refused"
    BY DEF OperationState, is_terminal
  <2> QED BY <1>8, <2>1, <2>2, AnswerKeepsRegistry DEF Panic
<1>9. CASE DieLatch
  BY <1>1, <1>9 DEF DieLatch, Executor, Holding, Bystander
<1>10. CASE CloseQueue
  BY <1>1, <1>10 DEF CloseQueue, Executor, Holding, Bystander
<1>11. CASE DrainOne
  BY <1>11, DrainKeepsRegistry
<1>12. CASE DrainDone
  BY <1>1, <1>12 DEF DrainDone, Executor, Holding, Bystander
<1>13. CASE UNCHANGED vars
  BY <1>1, <1>13 DEF vars, Bystander
<1> QED BY <1>2, <1>3, <1>4, <1>5, <1>6, <1>7, <1>8, <1>9, <1>10, <1>11, <1>12, <1>13
        DEF Next, ExecutorStep

(* A submit call keeps its envelope until it returns.                      *)
LEMMA CallInductive ==
  ASSUME IInv, [Next]_vars
  PROVE  CallInv'
<1> USE DEF IInv, TypeOK, CallInv
<1>1. ASSUME NEW s \in Submitters, SubmitStep(s) PROVE CallInv'
  BY <1>1 DEF SubmitStep, SubmitLoad, SubmitExisting, SubmitAdmit, SubmitRejected,
              SubmitLatch, Idle, Work, Ids
<1>2. ASSUME NEW h \in Hosts, HostLatch(h) \/ HostStep(h) \/ HostCancel(h)
      PROVE  CallInv'
  BY <1>2 DEF HostStep, HostLatch, HostReserve, HostAdmit, HostWaited,
              HostUntilClosed, HostCancel
<1>3. CASE ExecutorStep
  BY <1>3 DEF ExecutorStep, Recv, Refuse, Begin, Finish, Panic, DieLatch, CloseQueue,
              DrainOne, DrainDone
<1>4. CASE UNCHANGED vars
  BY <1>4 DEF vars
<1> QED BY <1>1, <1>2, <1>3, <1>4 DEF Next

-----------------------------------------------------------------------------
(***************************************************************************)
(* Which channels a step may write: a fresh one, or that of a registered   *)
(* operation without a terminal state; Succeeded only as the answer of the *)
(* transaction that ran, or by the drain.                                  *)
(***************************************************************************)
LEMMA ChannelWrites ==
  ASSUME IInv, [Next]_vars, NEW s \in SequenceNumbers, channel'[s] # channel[s]
  PROVE  /\ ~is_terminal(channel[s])
         /\ channel'[s] = "Succeeded" =>
              \/ executor.pc = "drain" /\ exit' = exit
              \/ /\ executor.pc = "running" /\ SeqOf(executor.work.id) = s
                 /\ IsShutdown => exit' = "Clean"
<1> USE DEF IInv
<1> DEFINE Goal == /\ ~is_terminal(channel[s])
                   /\ channel'[s] = "Succeeded" =>
                        \/ executor.pc = "drain" /\ exit' = exit
                        \/ /\ executor.pc = "running" /\ SeqOf(executor.work.id) = s
                           /\ IsShutdown => exit' = "Clean"
<1>1. ASSUME NEW work, Admit(work) PROVE Goal
  <2>1. /\ next_sequence \in SequenceNumbers
        /\ channel' = [channel EXCEPT ![next_sequence] = "Queued"]
    BY <1>1, ControlAssumption DEF Admit, TypeOK, SequenceNumbers
  <2>2. s = next_sequence /\ channel'[s] = "Queued"
    BY <2>1 DEF TypeOK
  <2>3. channel[s] = "Unused"
    BY <2>1, <2>2 DEF RegistryInv, Channels, SequenceNumbers
  <2> QED BY <2>2, <2>3 DEF is_terminal
<1>2. ASSUME NEW id \in Registered, NEW state, Set(id, state)
      PROVE  s = SeqOf(id) /\ channel'[s] = state
  BY <1>2 DEF Set, SeqOf, TypeOK, Registered
<1>3. ASSUME Holding, NEW state, Set(executor.work.id, state)
      PROVE  s = SeqOf(executor.work.id) /\ channel'[s] = state /\ ~is_terminal(channel[s])
  <2>1. executor.work.id \in Registered /\ ~is_terminal(StateOf(executor.work.id))
    BY <1>3 DEF RegistryInv, HeldOrdered, Holding, is_terminal
  <2>2. s = SeqOf(executor.work.id) /\ channel'[s] = state
    BY <1>2, <1>3, <2>1
  <2> QED BY <2>1, <2>2 DEF StateOf, SeqOf
<1>4. CASE Refuse
  BY <1>3, <1>4 DEF Refuse, Holding
<1>5. CASE Begin
  BY <1>3, <1>5 DEF Begin, Holding
<1>6. ASSUME NEW state \in {"Succeeded", "Failed"}, Finish(state) PROVE Goal
  BY <1>3, <1>6 DEF Finish, Holding
<1>7. CASE Panic
  BY <1>3, <1>7 DEF Panic, Holding
<1>8. CASE DrainOne
  <2>1. queue \in Seq(Work) /\ queue # << >> /\ 1 \in 1 .. Len(queue) /\ Head(queue) = queue[1]
    BY <1>8 DEF DrainOne, TypeOK
  <2>2. Head(queue).id \in Registered /\ StateOf(Head(queue).id) = "Queued"
    BY <2>1 DEF RegistryInv, QueueOrdered
  <2>3. s = SeqOf(Head(queue).id)
    BY <1>2, <1>8, <2>2 DEF DrainOne
  <2> QED BY <1>8, <2>2, <2>3 DEF DrainOne, StateOf, SeqOf, is_terminal
<1>9. ASSUME NEW t \in Submitters, SubmitStep(t) PROVE Goal
  BY <1>1, <1>9 DEF SubmitStep, SubmitLoad, SubmitExisting, SubmitAdmit, SubmitRejected,
                    AdmitRejected, SubmitLatch
<1>10. ASSUME NEW h \in Hosts, HostLatch(h) \/ HostStep(h) \/ HostCancel(h) PROVE Goal
  BY <1>1, <1>10 DEF HostStep, HostLatch, HostReserve, HostAdmit, HostWaited,
                     HostUntilClosed, HostCancel
<1>11. CASE Recv \/ DieLatch \/ CloseQueue \/ DrainDone
  BY <1>11 DEF Recv, DieLatch, CloseQueue, DrainDone
<1>12. CASE UNCHANGED vars
  BY <1>12 DEF vars
<1> QED BY <1>4, <1>5, <1>6, <1>7, <1>8, <1>9, <1>10, <1>11, <1>12 DEF Next, ExecutorStep

(***************************************************************************)
(* An operation without a terminal state keeps its registry entry.         *)
(***************************************************************************)
LEMMA LiveStaysRegistered ==
  ASSUME IInv, [Next]_vars, NEW id \in Registered, ~is_terminal(StateOf(id))
  PROVE  id \in Registered' /\ operations'[id] = operations[id]
<1>1. id \in Registered \ Evicted
  BY EvictsOnlyTerminal DEF IInv
<1>2. ASSUME NEW work, Admit(work) \/ AdmitRejected(work)
      PROVE  id \in Registered' /\ operations'[id] = operations[id]
  BY <1>1, <1>2 DEF Admit, AdmitRejected, Registered
<1>3. ASSUME operations' = operations
      PROVE  id \in Registered' /\ operations'[id] = operations[id]
  BY <1>3 DEF Registered
<1> QED BY <1>2, <1>3
        DEF Next, SubmitStep, SubmitLoad, SubmitExisting, SubmitAdmit, SubmitRejected,
            SubmitLatch, HostStep, HostLatch, HostReserve, HostAdmit, HostWaited,
            HostUntilClosed, HostCancel, ExecutorStep, Recv, Refuse, Begin, Finish,
            Panic, DieLatch, CloseQueue, DrainOne, DrainDone, vars

(* The exit is decided exactly when the executor leaves its loop, for good. *)
LEMMA ExitInductive ==
  ASSUME IInv, [Next]_vars
  PROVE  /\ exit' # "None" <=> executor'.pc \in {"dying", "close", "drain", "exited"}
         /\ exit # "None" => exit' # "None"
<1> USE DEF IInv, HostInv, TypeOK
<1>1. CASE exit' = exit /\ executor' = executor
  BY <1>1
<1>2. CASE ExecutorStep
  BY <1>2 DEF ExecutorStep, Recv, Refuse, Begin, Finish, Panic, DieLatch, CloseQueue,
              DrainOne, DrainDone, Executor
<1> QED BY <1>1, <1>2
        DEF Next, SubmitStep, SubmitLoad, SubmitExisting, SubmitAdmit, SubmitRejected,
            SubmitLatch, HostStep, HostLatch, HostReserve, HostAdmit, HostWaited,
            HostUntilClosed, HostCancel, vars

(***************************************************************************)
(* A shutdown() call that waits keeps its registration until its channel   *)
(* is terminal, and is answered Succeeded only by an executor that left    *)
(* its loop.                                                               *)
(***************************************************************************)
LEMMA HostInductive ==
  ASSUME IInv, [Next]_vars
  PROVE  HostInv'
<1> USE ControlAssumption
<1>1. next_sequence' \in Nat /\ next_sequence' >= next_sequence /\ next_sequence \in Nat
  <2>1. next_sequence \in Nat
    BY DEF IInv, TypeOK
  <2>2. next_sequence' = next_sequence \/ next_sequence' = next_sequence + 1
    BY DEF Next, SubmitStep, SubmitLoad, SubmitExisting, SubmitAdmit, SubmitRejected,
           Admit, AdmitRejected, SubmitLatch, HostStep, HostLatch, HostReserve, HostAdmit,
           HostWaited, HostUntilClosed, HostCancel, ExecutorStep, Recv, Refuse, Begin,
           Finish, Panic, DieLatch, CloseQueue, DrainOne, DrainDone, vars
  <2> QED BY <2>1, <2>2
<1>2. /\ exit' # "None" <=> executor'.pc \in {"dying", "close", "drain", "exited"}
      /\ exit # "None" => exit' # "None"
  BY ExitInductive
<1>3. ASSUME NEW h \in Hosts, host[h].pc = "waiting", host'[h] = host[h]
      PROVE  /\ host[h].sequence \in SequenceNumbers
             /\ host[h].sequence < next_sequence'
             /\ \/ /\ h \in Registered'
                   /\ SeqOf(h)' = host[h].sequence
                   /\ operations'[h].digest = "Shutdown"
                \/ is_terminal(channel'[host[h].sequence])
             /\ channel'[host[h].sequence] = "Succeeded" => exit' # "None"
  <2>1. /\ host[h].sequence \in SequenceNumbers
        /\ host[h].sequence < next_sequence
        /\ \/ /\ h \in Registered
              /\ SeqOf(h) = host[h].sequence
              /\ operations[h].digest = "Shutdown"
           \/ is_terminal(channel[host[h].sequence])
        /\ channel[host[h].sequence] = "Succeeded" => exit # "None"
    BY <1>3 DEF IInv, HostInv
  <2>2. host[h].sequence < next_sequence'
    BY <1>1, <2>1 DEF SequenceNumbers
  <2>3. CASE is_terminal(channel[host[h].sequence])
    <3>1. channel'[host[h].sequence] = channel[host[h].sequence]
      BY <2>1, <2>3, ChannelWrites
    <3> QED BY <1>2, <2>1, <2>2, <2>3, <3>1 DEF is_terminal
  <2>4. CASE ~is_terminal(channel[host[h].sequence])
    <3>1. h \in Registered' /\ SeqOf(h)' = host[h].sequence /\ operations'[h].digest = "Shutdown"
      BY <2>1, <2>4, LiveStaysRegistered DEF StateOf, SeqOf
    <3>2. ASSUME channel'[host[h].sequence] = "Succeeded" PROVE exit' # "None"
      <4>1. channel'[host[h].sequence] # channel[host[h].sequence]
        BY <2>4, <3>2 DEF is_terminal
      <4>2. CASE executor.pc = "drain" /\ exit' = exit
        BY <4>2 DEF IInv, HostInv
      <4>3. CASE /\ executor.pc = "running"
                 /\ SeqOf(executor.work.id) = host[h].sequence
                 /\ IsShutdown => exit' = "Clean"
        <5>1. executor.work.id = h
          BY <4>3, <2>1, <2>4 DEF IInv, RegistryInv, HeldOrdered, Holding, Channels
        <5>2. IsShutdown
          BY <4>3, <5>1, <2>1, <2>4 DEF IInv, RegistryInv, HeldOrdered, Holding, IsShutdown
        <5> QED BY <4>3, <5>2
      <4> QED BY <3>2, <4>1, <4>2, <4>3, <2>1, ChannelWrites
    <3> QED BY <2>1, <2>2, <3>1, <3>2
  <2> QED BY <2>3, <2>4
<1>4. ASSUME host' = host PROVE HostInv'
  BY <1>2, <1>3, <1>4 DEF IInv, HostInv, SeqOf
<1>5. ASSUME NEW g \in Hosts, HostLatch(g) \/ HostReserve(g) \/ HostWaited(g)
                              \/ HostUntilClosed(g) \/ HostCancel(g)
      PROVE  HostInv'
  <2>1. /\ \A h \in Hosts : h # g => host'[h] = host[h]
        /\ host'[g].pc # "waiting"
        /\ host'[g].pc = "ok" => exit' # "None"
        /\ exit' = exit
    BY <1>5 DEF IInv, HostInv, TypeOK, HostLatch, HostReserve, HostWaited, HostUntilClosed,
                HostCancel, Goto
  <2> QED BY <1>2, <1>3, <2>1 DEF IInv, HostInv, SeqOf
<1>6. ASSUME NEW g \in Hosts, HostAdmit(g) PROVE HostInv'
  <2>1. /\ next_sequence \in SequenceNumbers
        /\ next_sequence' = next_sequence + 1
        /\ g \in DOMAIN operations'
        /\ operations'[g] = [digest |-> "Shutdown", sequence |-> next_sequence]
        /\ channel' = [channel EXCEPT ![next_sequence] = "Queued"]
    BY <1>6 DEF HostAdmit, Admit, IInv, TypeOK, SequenceNumbers
  <2>2. /\ \A h \in Hosts : h # g => host'[h] = host[h]
        /\ host'[g] = [pc |-> "waiting", sequence |-> next_sequence]
    BY <1>6 DEF HostAdmit, IInv, TypeOK
  <2>3. channel'[next_sequence] = "Queued"
    BY <2>1 DEF IInv, TypeOK
  <2>4. next_sequence < next_sequence'
    BY <1>1, <2>1
  <2> QED BY <1>2, <1>3, <2>1, <2>2, <2>3, <2>4 DEF IInv, HostInv, SeqOf, Registered
<1> QED BY <1>4, <1>5, <1>6
        DEF Next, SubmitStep, SubmitLoad, SubmitExisting, SubmitAdmit, SubmitRejected,
            SubmitLatch, HostStep, ExecutorStep, Recv, Refuse, Begin, Finish, Panic,
            DieLatch, CloseQueue, DrainOne, DrainDone, vars

-----------------------------------------------------------------------------
(* The empty control plane satisfies the invariant.                        *)
LEMMA InvariantAtFirst == Init => IInv
<1> SUFFICES ASSUME Init PROVE IInv
  OBVIOUS
<1> USE ControlAssumption DEF Init
<1>1. TypeOK
  <2>1. DOMAIN operations = {}
    OBVIOUS
  <2>2. operations \in [DOMAIN operations -> [digest: Commands, sequence: SequenceNumbers]]
    BY <2>1
  <2>3. channel \in [SequenceNumbers -> OperationState] /\ next_sequence \in 0 .. MaxSequence
    BY DEF OperationState
  <2>4. queue \in Seq(Work)
    OBVIOUS
  <2> QED BY <2>1, <2>2, <2>3, <2>4 DEF TypeOK
<1>2. Registered = {} /\ Len(queue) = 0 /\ ~Holding
  BY DEF Registered, Holding
<1>3. RegistryInv
  BY <1>2 DEF RegistryInv, Channels, QueueOrdered, HeldOrdered, Owned, RefusedNeverRan
<1>4. HostInv /\ CallInv
  BY DEF HostInv, CallInv
<1> QED BY <1>1, <1>3, <1>4 DEF IInv

(* Every step keeps the invariant.                                         *)
LEMMA InvariantKept == ASSUME IInv, [Next]_vars PROVE IInv'
BY TypeInductive, RegistryInductive, HostInductive, CallInductive DEF IInv

(***************************************************************************)
(* The inductive invariant holds in every reachable state.                 *)
(***************************************************************************)
THEOREM Invariance == Spec => []IInv
<1>1. IInv /\ [Next]_vars => IInv'
  BY InvariantKept
<1> QED BY <1>1, InvariantAtFirst, PTL DEF Spec

(***************************************************************************)
(* Type correctness of the control plane.                                  *)
(***************************************************************************)
THEOREM TypeCorrect == Spec => []TypeOK
BY Invariance, PTL DEF IInv

(***************************************************************************)
(* No registered operation is orphaned (Registry::admit, drain): what has  *)
(* no terminal state is queued or held, whatever interleaving of submits,  *)
(* shutdown() calls, cancellations, panics and evictions led there.        *)
(***************************************************************************)
THEOREM NoOrphans == Spec => []LiveOperationsOwned
<1>1. IInv => LiveOperationsOwned
  BY DEF IInv, RegistryInv, Owned, QueueOrdered, LiveOperationsOwned, QueuedIds
<1> QED BY <1>1, Invariance, PTL

(***************************************************************************)
(* An operation answered ShuttingDown never touched the manager.           *)
(***************************************************************************)
THEOREM RefusalIsClean == Spec => []RefusedNeverRan
<1>1. IInv => RefusedNeverRan
  BY DEF IInv, RegistryInv
<1> QED BY <1>1, Invariance, PTL

(***************************************************************************)
(* After an Ok of shutdown() no transaction runs or is about to.           *)
(***************************************************************************)
THEOREM ShutdownIsQuiet == Spec => []QuietAfterShutdown
<1>1. IInv => QuietAfterShutdown
  BY DEF IInv, HostInv, QuietAfterShutdown, Holding
<1> QED BY <1>1, Invariance, PTL

(***************************************************************************)
(* Transactions start in the order of their sequence numbers, none twice.  *)
(***************************************************************************)
THEOREM SequenceOrder == Spec => StartsInSequence
<1>1. IInv /\ [Next]_vars =>
        [Begin => \A s \in began : s < operations[executor.work.id].sequence]_vars
  BY DEF IInv, RegistryInv, HeldOrdered, Begin, Holding, SeqOf
<1> QED BY <1>1, Invariance, PTL DEF Spec, StartsInSequence

(***************************************************************************)
(* A terminal answer is final.                                             *)
(***************************************************************************)
THEOREM AnswersAreFinal == Spec => TerminalIsFinal
<1>1. IInv /\ [Next]_vars =>
        [\A s \in SequenceNumbers : is_terminal(channel[s]) => channel'[s] = channel[s]]_vars
  BY ChannelWrites
<1> QED BY <1>1, Invariance, PTL DEF Spec, TerminalIsFinal

-----------------------------------------------------------------------------
(* A channel without a terminal state is that of a registered operation:   *)
(* eviction never separates a live operation from its handle.              *)
LiveRegistered ==
  \A s \in SequenceNumbers :
    channel[s] \in {"Queued", "Running"} => \E id \in Registered : SeqOf(id) = s

LEMMA LiveRegisteredInductive ==
  ASSUME IInv, LiveRegistered, [Next]_vars
  PROVE  LiveRegistered'
<1> SUFFICES ASSUME NEW s \in SequenceNumbers, channel'[s] \in {"Queued", "Running"}
             PROVE  \E id \in Registered' : operations'[id].sequence = s
  BY DEF LiveRegistered, SeqOf
<1>1. CASE channel'[s] = channel[s]
  <2>1. PICK id \in Registered : SeqOf(id) = s
    BY <1>1 DEF LiveRegistered
  <2>2. ~is_terminal(StateOf(id))
    BY <1>1, <2>1 DEF StateOf, SeqOf, is_terminal
  <2> QED BY <2>1, <2>2, LiveStaysRegistered DEF SeqOf
<1>2. CASE channel'[s] # channel[s]
  <2>1. ASSUME NEW work, Admit(work)
        PROVE  \E id \in Registered' : operations'[id].sequence = s
    <3>1. next_sequence \in SequenceNumbers
      BY <2>1, ControlAssumption DEF Admit, IInv, TypeOK, SequenceNumbers
    <3>2. s = next_sequence
      BY <1>2, <2>1, <3>1 DEF Admit, IInv, TypeOK
    <3>3. work.id \in Registered' /\ operations'[work.id].sequence = next_sequence
      BY <2>1 DEF Admit, Registered
    <3> QED BY <3>2, <3>3
  <2>2. ASSUME NEW id \in Registered, NEW state, Set(id, state), operations' = operations
        PROVE  \E other \in Registered' : operations'[other].sequence = s
    <3>1. s = operations[id].sequence
      BY <1>2, <2>2 DEF Set, IInv, TypeOK, Registered
    <3> QED BY <2>2, <3>1 DEF Registered
  <2>3. Holding => executor.work.id \in Registered
    BY DEF IInv, RegistryInv, HeldOrdered
  <2>4. CASE Refuse
    BY <2>2, <2>3, <2>4 DEF Refuse, Holding
  <2>5. CASE Begin
    BY <2>2, <2>3, <2>5 DEF Begin, Holding
  <2>6. ASSUME NEW state \in {"Succeeded", "Failed"}, Finish(state)
        PROVE  \E other \in Registered' : operations'[other].sequence = s
    BY <2>2, <2>3, <2>6 DEF Finish, Holding
  <2>7. CASE Panic
    BY <2>2, <2>3, <2>7 DEF Panic, Holding
  <2>8. CASE DrainOne
    <3>1. queue \in Seq(Work) /\ queue # << >> /\ 1 \in 1 .. Len(queue) /\ Head(queue) = queue[1]
      BY <2>8 DEF DrainOne, IInv, TypeOK
    <3>2. Head(queue).id \in Registered
      BY <3>1 DEF IInv, RegistryInv, QueueOrdered
    <3> QED BY <2>2, <2>8, <3>2 DEF DrainOne
  <2>9. ASSUME NEW t \in Submitters, SubmitStep(t)
        PROVE  \E id \in Registered' : operations'[id].sequence = s
    BY <1>2, <2>1, <2>9 DEF SubmitStep, SubmitLoad, SubmitExisting, SubmitAdmit,
                            SubmitRejected, AdmitRejected, SubmitLatch
  <2>10. ASSUME NEW h \in Hosts, HostLatch(h) \/ HostStep(h) \/ HostCancel(h)
         PROVE  \E id \in Registered' : operations'[id].sequence = s
    BY <1>2, <2>1, <2>10 DEF HostStep, HostLatch, HostReserve, HostAdmit, HostWaited,
                             HostUntilClosed, HostCancel
  <2>11. CASE Recv \/ DieLatch \/ CloseQueue \/ DrainDone
    BY <1>2, <2>11 DEF Recv, DieLatch, CloseQueue, DrainDone
  <2>12. CASE UNCHANGED vars
    BY <1>2, <2>12 DEF vars
  <2> QED BY <2>4, <2>5, <2>6, <2>7, <2>8, <2>9, <2>10, <2>11, <2>12 DEF Next, ExecutorStep
<1> QED BY <1>1, <1>2

(* An operation that waits or runs is in the queue or in hand.             *)
LEMMA LiveIsOwned ==
  ASSUME IInv, LiveRegistered, NEW s \in SequenceNumbers,
         channel[s] \in {"Queued", "Running"}
  PROVE  \/ /\ channel[s] = "Queued"
            /\ \E k \in 1 .. Len(queue) : SeqOf(queue[k].id) = s
         \/ Holding /\ SeqOf(executor.work.id) = s
<1>1. PICK id \in Registered : SeqOf(id) = s
  BY DEF LiveRegistered
<1>2. ~is_terminal(StateOf(id)) /\ StateOf(id) = channel[s]
  BY <1>1 DEF StateOf, SeqOf, is_terminal
<1>3. CASE \E k \in 1 .. Len(queue) : queue[k].id = id
  BY <1>1, <1>2, <1>3 DEF IInv, RegistryInv, QueueOrdered
<1>4. CASE Holding /\ executor.work.id = id
  BY <1>1, <1>4
<1> QED BY <1>2, <1>3, <1>4 DEF IInv, RegistryInv, Owned

(* What the executor received is the lowest number that waits, and nothing *)
(* runs beside it.                                                         *)
LEMMA ReceivedIsFirst ==
  ASSUME IInv, LiveRegistered, executor.pc = "received"
  PROVE  /\ SeqOf(executor.work.id) \in SequenceNumbers
         /\ channel[SeqOf(executor.work.id)] = "Queued"
         /\ Serial!First(SeqOf(executor.work.id))
         /\ ~Serial!Busy
<1>1. /\ executor.work.id \in Registered
      /\ StateOf(executor.work.id) = "Queued"
      /\ \A k \in 1 .. Len(queue) : SeqOf(executor.work.id) < SeqOf(queue[k].id)
  BY DEF IInv, RegistryInv, HeldOrdered, Holding
<1>2. SeqOf(executor.work.id) \in SequenceNumbers
  BY <1>1 DEF IInv, TypeOK, Registered, SeqOf
<1>3. channel[SeqOf(executor.work.id)] = "Queued"
  BY <1>1 DEF StateOf, SeqOf
<1>4. \A m \in SequenceNumbers : channel[m] = "Queued" => SeqOf(executor.work.id) <= m
  BY <1>1, <1>2, LiveIsOwned DEF SequenceNumbers
<1>5. \A m \in SequenceNumbers : channel[m] # "Running"
  BY <1>3, LiveIsOwned
<1> QED BY <1>2, <1>3, <1>4, <1>5 DEF Serial!First, Serial!Waiting, Serial!Busy

(* Once the executor drains, the head of the queue is the lowest number    *)
(* that waits, and nothing runs.                                           *)
LEMMA DrainedIsFirst ==
  ASSUME IInv, LiveRegistered, executor.pc = "drain", queue # << >>
  PROVE  /\ Head(queue).id \in Registered
         /\ SeqOf(Head(queue).id) \in SequenceNumbers
         /\ Serial!First(SeqOf(Head(queue).id))
         /\ ~Serial!Busy
<1>1. queue \in Seq(Work) /\ 1 \in 1 .. Len(queue) /\ Head(queue) = queue[1]
  BY DEF IInv, TypeOK
<1>2. /\ Head(queue).id \in Registered
      /\ StateOf(Head(queue).id) = "Queued"
  BY <1>1 DEF IInv, RegistryInv, QueueOrdered
<1>3. SeqOf(Head(queue).id) \in SequenceNumbers /\ channel[SeqOf(Head(queue).id)] = "Queued"
  BY <1>2 DEF IInv, TypeOK, Registered, SeqOf, StateOf
<1>4. \A k \in 1 .. Len(queue) : SeqOf(Head(queue).id) <= SeqOf(queue[k].id)
  <2> TAKE k \in 1 .. Len(queue)
  <2>1. queue[k].id \in Registered
    BY DEF IInv, RegistryInv, QueueOrdered
  <2>2. SeqOf(queue[k].id) \in SequenceNumbers
    BY <2>1 DEF IInv, TypeOK, Registered, SeqOf
  <2>3. CASE k = 1
    BY <1>1, <1>3, <2>3 DEF SequenceNumbers
  <2>4. CASE 1 < k
    BY <1>1, <1>3, <2>2, <2>4 DEF IInv, RegistryInv, QueueOrdered, SequenceNumbers
  <2> QED BY <1>1, <2>3, <2>4
<1>5. ~Holding
  BY DEF Holding
<1>6. \A m \in SequenceNumbers : channel[m] = "Queued" => SeqOf(Head(queue).id) <= m
  BY <1>4, <1>5, LiveIsOwned
<1>7. \A m \in SequenceNumbers : channel[m] # "Running"
  BY <1>5, LiveIsOwned
<1> QED BY <1>2, <1>3, <1>6, <1>7 DEF Serial!First, Serial!Waiting, Serial!Busy

(***************************************************************************)
(* Every step of the control plane is a step of the serial executor, or    *)
(* leaves what handles read alone.                                         *)
(***************************************************************************)
LEMMA StepSimulation ==
  ASSUME IInv, LiveRegistered, [Next]_vars
  PROVE  [Serial!SerialNext]_<<channel, exit = "None">>
<1> DEFINE Still == channel' = channel /\ (exit' = "None") = (exit = "None")
           Goal == Serial!SerialNext \/ Still
<1>1. ASSUME NEW work, Admit(work), exit' = exit PROVE Serial!SerialNext
  <2>1. next_sequence \in SequenceNumbers
    BY <1>1, ControlAssumption DEF Admit, IInv, TypeOK, SequenceNumbers
  <2>2. \A m \in SequenceNumbers : m >= next_sequence => channel[m] = "Unused"
    BY DEF IInv, RegistryInv, Channels
  <2>3. Serial!Take(next_sequence)
    BY <1>1, <2>1, <2>2 DEF Admit, Serial!Take, SequenceNumbers
  <2> QED BY <2>1, <2>3 DEF Serial!SerialNext
<1>2. Holding => executor.work.id \in Registered
  BY DEF IInv, RegistryInv, HeldOrdered
<1>3. Holding => exit = "None"
  BY DEF IInv, HostInv, Holding
<1>4. CASE Refuse
  <2>1. channel' = [channel EXCEPT ![SeqOf(executor.work.id)] = "Refused"] /\ exit' = exit
    BY <1>2, <1>4 DEF Refuse, Holding, Set, SeqOf
  <2>2. Serial!Dismiss(SeqOf(executor.work.id), "Refused")
    BY <1>4, <2>1, ReceivedIsFirst DEF Refuse, Serial!Dismiss
  <2> QED BY <1>4, <2>2, ReceivedIsFirst DEF Refuse, Serial!SerialNext
<1>5. CASE Begin
  <2>1. channel' = [channel EXCEPT ![SeqOf(executor.work.id)] = "Running"] /\ exit' = exit
    BY <1>2, <1>5 DEF Begin, Holding, Set, SeqOf
  <2>2. Serial!Run(SeqOf(executor.work.id))
    BY <1>3, <1>5, <2>1, ReceivedIsFirst DEF Begin, Holding, Serial!Run
  <2> QED BY <1>5, <2>2, ReceivedIsFirst DEF Begin, Serial!SerialNext
<1>6. executor.pc = "running" => /\ channel[SeqOf(executor.work.id)] = "Running"
                                 /\ SeqOf(executor.work.id) \in SequenceNumbers
  BY DEF IInv, RegistryInv, HeldOrdered, Holding, StateOf, SeqOf, TypeOK, Registered
<1>7. ASSUME NEW state \in {"Succeeded", "Failed"}, Finish(state) PROVE Serial!SerialNext
  <2>1. channel' = [channel EXCEPT ![SeqOf(executor.work.id)] = state]
    BY <1>2, <1>7 DEF Finish, Holding, Set, SeqOf
  <2>2. Serial!Answer(SeqOf(executor.work.id), state)
    BY <1>6, <1>7, <2>1 DEF Finish, Serial!Answer
  <2> QED BY <1>6, <1>7, <2>2 DEF Finish, Serial!SerialNext
<1>8. CASE Panic
  <2>1. channel' = [channel EXCEPT ![SeqOf(executor.work.id)] = "Died"] /\ exit' = "Died"
    BY <1>2, <1>8 DEF Panic, Holding, Set, SeqOf
  <2>2. Serial!Answer(SeqOf(executor.work.id), "Died")
    BY <1>6, <1>8, <2>1 DEF Panic, Serial!Answer
  <2> QED BY <1>6, <1>8, <2>2 DEF Panic, Serial!SerialNext
<1>9. CASE DrainOne
  <2> DEFINE n == SeqOf(Head(queue).id)
             state == DrainedState(Head(queue))
  <2>1. channel' = [channel EXCEPT ![n] = state] /\ exit' = exit /\ exit # "None"
    BY <1>9, DrainedIsFirst DEF DrainOne, Set, SeqOf, IInv, HostInv
  <2>2. state \in {"Refused", "Succeeded", "Died"}
    BY DEF DrainedState
  <2>3. n \in SequenceNumbers /\ Serial!First(n) /\ ~Serial!Busy
    BY <1>9, DrainedIsFirst DEF DrainOne
  <2>4. Serial!Dismiss(n, state)
    BY <2>1, <2>3 DEF Serial!Dismiss
  <2> QED BY <2>2, <2>3, <2>4 DEF Serial!SerialNext
<1>10. ASSUME NEW t \in Submitters, SubmitStep(t) PROVE Goal
  BY <1>1, <1>10 DEF SubmitStep, SubmitLoad, SubmitExisting, SubmitAdmit,
                     SubmitRejected, AdmitRejected, SubmitLatch
<1>11. ASSUME NEW h \in Hosts, HostLatch(h) \/ HostStep(h) \/ HostCancel(h) PROVE Goal
  BY <1>1, <1>11 DEF HostStep, HostLatch, HostReserve, HostAdmit, HostWaited,
                     HostUntilClosed, HostCancel
<1>12. CASE Recv \/ DieLatch \/ CloseQueue \/ DrainDone
  BY <1>12 DEF Recv, DieLatch, CloseQueue, DrainDone
<1>13. CASE UNCHANGED vars
  BY <1>13 DEF vars
<1> QED BY <1>4, <1>5, <1>7, <1>8, <1>9, <1>10, <1>11, <1>12, <1>13 DEF Next, ExecutorStep

(***************************************************************************)
(* The control plane implements the serial executor, for every number of   *)
(* callers and every capacity: operations are started in the order of      *)
(* their numbers, one at a time, answered at most once, and never started  *)
(* once the executor has left its loop.                                    *)
(***************************************************************************)
THEOREM Refinement == Spec => ImplementsSerial
<1>1. Init => Serial!SerialInit
  BY DEF Init, Serial!SerialInit
<1>2. Init => LiveRegistered
  BY DEF Init, LiveRegistered
<1>3. IInv /\ LiveRegistered /\ [Next]_vars => LiveRegistered'
  BY LiveRegisteredInductive
<1>4. IInv /\ LiveRegistered /\ [Next]_vars => [Serial!SerialNext]_<<channel, exit = "None">>
  BY StepSimulation
<1> QED BY <1>1, <1>2, <1>3, <1>4, Invariance, PTL DEF Spec, ImplementsSerial, Serial!SerialSpec

-----------------------------------------------------------------------------
(* The bound on the registry: every queued operation and every permit      *)
(* holds one of the queue's slots.                                         *)
SlotsHeld == Len(queue) + Cardinality(Permits) <= QueueCapacity

(* A nonempty set of numbers has a least one.                              *)
LEMMA LeastNumber ==
  ASSUME NEW T \in SUBSET Nat, T # {}
  PROVE  \E n \in T : \A m \in T : n <= m
<1>1. PICK n \in T : \A m \in T : <<m, n>> \notin OpToRel(<, Nat)
  BY NatLessThanWellFounded, WFMin
<1>2. \A m \in T : ~(m < n)
  BY <1>1 DEF OpToRel
<1> QED BY <1>2

(* Registry, permits and queue are finite, and their sizes are numbers.    *)
LEMMA SizesAreNumbers ==
  ASSUME TypeOK
  PROVE  /\ IsFiniteSet(Registered) /\ Cardinality(Registered) \in Nat
         /\ IsFiniteSet(Permits) /\ Cardinality(Permits) \in Nat
         /\ Len(queue) \in Nat
<1>1. IsFiniteSet(Ids)
  BY ControlAssumption, FS_Union DEF Ids
<1>2. IsFiniteSet(Registered)
  BY <1>1, FS_Subset DEF TypeOK, Registered
<1>3. IsFiniteSet(Permits)
  BY ControlAssumption, FS_Subset DEF Permits
<1> QED BY <1>2, <1>3, FS_CardinalityType DEF TypeOK

(***************************************************************************)
(* Registered and not terminal is queued or in the executor's hands, so    *)
(* live entries number at most one more than the queue holds.              *)
(***************************************************************************)
LEMMA LiveEntriesFit ==
  ASSUME TypeOK, RegistryInv
  PROVE  /\ IsFiniteSet(Registered \ Terminals)
         /\ Cardinality(Registered \ Terminals) <= Len(queue) + 1
<1> DEFINE Live == Registered \ Terminals
           Spots == QueuedIds \cup {executor.work.id}
           at == [k \in 1 .. Len(queue) |-> queue[k].id]
<1>1. Len(queue) \in Nat
  BY SizesAreNumbers
<1>2. IsFiniteSet(1 .. Len(queue)) /\ Cardinality(1 .. Len(queue)) = Len(queue)
  <2>1. 1 \in Int /\ Len(queue) \in Int
    BY <1>1
  <2>2. /\ IsFiniteSet(1 .. Len(queue))
        /\ Cardinality(1 .. Len(queue)) = IF 1 > Len(queue) THEN 0 ELSE Len(queue) - 1 + 1
    BY <2>1, FS_Interval
  <2> QED BY <1>1, <2>2
<1>3. at \in Surjection(1 .. Len(queue), QueuedIds)
  BY DEF Surjection, QueuedIds
<1>4. IsFiniteSet(QueuedIds) /\ Cardinality(QueuedIds) <= Len(queue)
  <2> HIDE DEF at
  <2> QED BY <1>2, <1>3, FS_Surjection
<1>5. Cardinality(QueuedIds) \in Nat
  BY <1>4, FS_CardinalityType
<1>6. IsFiniteSet(Spots) /\ Cardinality(Spots) <= Len(queue) + 1
  BY <1>1, <1>4, <1>5, FS_AddElement
<1>7. Live \subseteq Spots
  BY DEF RegistryInv, Owned, Terminals, QueuedIds
<1>8. IsFiniteSet(Live) /\ Cardinality(Live) <= Cardinality(Spots)
  BY <1>6, <1>7, FS_Subset
<1>9. Cardinality(Live) \in Nat /\ Cardinality(Spots) \in Nat
  BY <1>6, <1>8, FS_CardinalityType
<1> QED BY <1>1, <1>6, <1>8, <1>9

(***************************************************************************)
(* The oldest terminal entry is evicted from a table at its bound: no      *)
(* other terminal entry has a number below its own.                        *)
(***************************************************************************)
LEMMA OldestIsEvicted ==
  ASSUME TypeOK, RegistryInv, Terminals # {},
         Cardinality(Registered) = live_registry_capacity
  PROVE  Evicted # {}
<1> DEFINE Numbers == {operations[id].sequence : id \in Terminals}
<1>1. Terminals \subseteq Registered
  BY DEF Terminals
<1>2. \A id \in Registered : operations[id].sequence \in Nat
  BY DEF TypeOK, Registered, SequenceNumbers
<1>3. Numbers \in SUBSET Nat /\ Numbers # {}
  BY <1>1, <1>2
<1>4. PICK n \in Numbers : \A m \in Numbers : n <= m
  <2> HIDE DEF Numbers
  <2> QED BY <1>3, LeastNumber
<1>5. PICK id \in Terminals : operations[id].sequence = n
  BY <1>4
<1> DEFINE Older == {other \in Terminals :
                       operations[other].sequence <= operations[id].sequence}
<1>6. Older = {id}
  <2>1. \A other \in Terminals :
          operations[other].sequence <= operations[id].sequence => other = id
    <3> TAKE other \in Terminals
    <3> HAVE operations[other].sequence <= operations[id].sequence
    <3>1. operations[id].sequence <= operations[other].sequence
      BY <1>4, <1>5
    <3>2. SeqOf(other) = SeqOf(id)
      BY <1>1, <1>2, <3>1 DEF SeqOf
    <3> QED BY <1>1, <3>2 DEF RegistryInv, Channels
  <2>2. operations[id].sequence <= operations[id].sequence
    BY <1>1, <1>2
  <2> QED BY <2>1, <2>2
<1>7. Cardinality(Older) = 1
  BY <1>6, FS_Singleton
<1>8. Cardinality(Registered) - live_registry_capacity + 1 = 1
  BY SizesAreNumbers
<1>9. Cardinality(Older) <= Cardinality(Registered) - live_registry_capacity + 1
  <2> HIDE DEF Older
  <2> QED BY <1>7, <1>8
<1>10. id \in Evicted
  BY <1>9 DEF Evicted
<1> QED BY <1>10

(***************************************************************************)
(* An admission that has a slot of the queue keeps the registry within its *)
(* bound: at the bound some entry is terminal, because the live ones fit   *)
(* in the queue and the executor's hands.                                  *)
(***************************************************************************)
LEMMA AdmissionFits ==
  ASSUME TypeOK, RegistryInv, RegistryBounded, NEW work,
         Registered' = (Registered \ Evicted) \cup {work.id},
         Len(queue) < QueueCapacity
  PROVE  RegistryBounded'
<1> DEFINE cap == live_registry_capacity
           size == Cardinality(Registered)
           Kept == Registered \ Evicted
<1>1. /\ cap \in Nat /\ QueueCapacity \in Nat /\ QueueCapacity < cap
      /\ cap' = cap
  BY ControlAssumption DEF live_registry_capacity
<1>2. IsFiniteSet(Registered) /\ size \in Nat /\ Len(queue) \in Nat
  BY SizesAreNumbers
<1>3. /\ IsFiniteSet(Kept) /\ Cardinality(Kept) \in Nat /\ Cardinality(Kept) <= size
      /\ Cardinality(Kept) = size => Kept = Registered
  BY <1>2, FS_Subset, FS_CardinalityType
<1>4. Cardinality(Registered') <= Cardinality(Kept) + 1 /\ Cardinality(Registered') \in Nat
  <2>1. /\ IsFiniteSet(Registered')
        /\ Cardinality(Registered') = IF work.id \in Kept THEN Cardinality(Kept)
                                                         ELSE Cardinality(Kept) + 1
    <3> HIDE DEF Kept
    <3> QED BY <1>3, FS_AddElement DEF Kept
  <2> HIDE DEF Kept
  <2> QED BY <1>3, <2>1
<1>5. size <= cap
  BY DEF RegistryBounded
<1>6. CASE size < cap
  <2>1. Cardinality(Registered') <= cap
    <3> HIDE DEF cap, size, Kept
    <3> QED BY <1>1, <1>2, <1>3, <1>4, <1>6
  <2> QED BY <1>1, <2>1 DEF RegistryBounded
<1>7. CASE size = cap
  <2>1. Terminals # {}
    <3> SUFFICES ASSUME Terminals = {} PROVE FALSE
      OBVIOUS
    <3>1. Registered \ Terminals = Registered
      OBVIOUS
    <3>2. size <= Len(queue) + 1
      BY <3>1, LiveEntriesFit
    <3> HIDE DEF cap, size
    <3> QED BY <1>1, <1>2, <1>7, <3>2
  <2>2. Evicted # {} /\ Evicted \subseteq Registered
    BY <1>7, <2>1, OldestIsEvicted, EvictsOnlyTerminal
  <2>3. Cardinality(Kept) # size
    BY <1>3, <2>2
  <2>4. Cardinality(Registered') <= cap
    <3> HIDE DEF cap, size, Kept
    <3> QED BY <1>1, <1>2, <1>3, <1>4, <1>7, <2>3
  <2> QED BY <1>1, <2>4 DEF RegistryBounded
<1> QED BY <1>1, <1>2, <1>5, <1>6, <1>7

(* The steps that take no slot and register nothing.                       *)
LEMMA NothingTaken ==
  ASSUME TypeOK, SlotsHeld, RegistryBounded,
         Registered' \subseteq Registered,
         Len(queue') \in Nat, Len(queue') <= Len(queue),
         Permits' \subseteq Permits
  PROVE  SlotsHeld' /\ RegistryBounded'
<1>1. /\ Cardinality(Permits') \in Nat /\ Cardinality(Permits') <= Cardinality(Permits)
      /\ Cardinality(Registered') \in Nat /\ Cardinality(Registered') <= Cardinality(Registered)
  BY SizesAreNumbers, FS_Subset, FS_CardinalityType
<1>2. /\ Len(queue) \in Nat /\ Cardinality(Permits) \in Nat /\ Cardinality(Registered) \in Nat
      /\ QueueCapacity \in Nat /\ live_registry_capacity \in Nat
  BY SizesAreNumbers, ControlAssumption DEF live_registry_capacity
<1>3. SlotsHeld'
  BY <1>1, <1>2 DEF SlotsHeld
<1>4. RegistryBounded'
  BY <1>1, <1>2 DEF RegistryBounded, live_registry_capacity
<1> QED BY <1>3, <1>4

(* Every step keeps slots and registry within their bounds.                *)
LEMMA BoundsInductive ==
  ASSUME IInv, SlotsHeld, RegistryBounded, [Next]_vars
  PROVE  SlotsHeld' /\ RegistryBounded'
<1> USE DEF IInv
<1> DEFINE Goal == SlotsHeld' /\ RegistryBounded'
<1>1. /\ IsFiniteSet(Permits) /\ Cardinality(Permits) \in Nat /\ Len(queue) \in Nat
      /\ QueueCapacity \in Nat /\ queue \in Seq(Work)
  BY SizesAreNumbers, ControlAssumption DEF TypeOK
<1>2. ASSUME NEW work, Admit(work)
      PROVE  /\ Registered' = (Registered \ Evicted) \cup {work.id}
             /\ Len(queue') = Len(queue) + 1
  BY <1>1, <1>2 DEF Admit, Registered
<1>3. ASSUME NEW s \in Submitters, SubmitAdmit(s) PROVE Goal
  <2>1. Permits' = Permits /\ Len(queue) + Cardinality(Permits) < QueueCapacity
    BY <1>3 DEF SubmitAdmit, Permits, HasSlot
  <2>2. /\ Registered' = (Registered \ Evicted) \cup {call[s].work.id}
        /\ Len(queue') = Len(queue) + 1
    BY <1>2, <1>3 DEF SubmitAdmit
  <2>3. SlotsHeld'
    BY <1>1, <2>1, <2>2 DEF SlotsHeld
  <2>4. Len(queue) < QueueCapacity
    BY <1>1, <2>1
  <2>5. RegistryBounded'
    BY <2>2, <2>4, AdmissionFits
  <2> QED BY <2>3, <2>5
<1>4. ASSUME NEW h \in Hosts, HostAdmit(h) PROVE Goal
  <2> DEFINE work == [id |-> h, command |-> "Shutdown"]
  <2>1. h \in Permits /\ Permits' = Permits \ {h}
    BY <1>4 DEF HostAdmit, Permits, TypeOK
  <2>2. /\ Cardinality(Permits') = Cardinality(Permits) - 1
        /\ Cardinality(Permits') \in Nat
    BY <1>1, <2>1, FS_RemoveElement, FS_CardinalityType
  <2>3. /\ Registered' = (Registered \ Evicted) \cup {work.id}
        /\ Len(queue') = Len(queue) + 1
    BY <1>2, <1>4 DEF HostAdmit
  <2>4. SlotsHeld'
    BY <1>1, <2>2, <2>3 DEF SlotsHeld
  <2>5. Len(queue) < QueueCapacity
    BY <1>1, <2>2 DEF SlotsHeld
  <2>6. RegistryBounded'
    BY <2>3, <2>5, AdmissionFits
  <2> QED BY <2>4, <2>6
<1>5. ASSUME NEW h \in Hosts, HostReserve(h) PROVE Goal
  <2>1. Registered' = Registered /\ queue' = queue
    BY <1>5 DEF HostReserve, Registered
  <2>2. CASE rx_closed
    <3>1. Permits' \subseteq Permits
      BY <1>5, <2>2 DEF HostReserve, Goto, Permits, TypeOK
    <3> QED BY <1>1, <2>1, <3>1, NothingTaken
  <2>3. CASE ~rx_closed
    <3>1. Permits' = Permits \cup {h} /\ Len(queue) + Cardinality(Permits) < QueueCapacity
      BY <1>5, <2>3 DEF HostReserve, Goto, Permits, TypeOK, HasSlot
    <3>2. /\ Cardinality(Permits') <= Cardinality(Permits) + 1
          /\ Cardinality(Permits') \in Nat
      <4>1. Cardinality(Permits') = IF h \in Permits THEN Cardinality(Permits)
                                                     ELSE Cardinality(Permits) + 1
        BY <1>1, <3>1, FS_AddElement
      <4> QED BY <1>1, <4>1
    <3>3. SlotsHeld'
      BY <1>1, <2>1, <3>1, <3>2 DEF SlotsHeld
    <3>4. RegistryBounded'
      BY <2>1 DEF RegistryBounded, live_registry_capacity
    <3> QED BY <3>3, <3>4
  <2> QED BY <2>2, <2>3
<1>6. ASSUME NEW h \in Hosts,
             HostLatch(h) \/ HostWaited(h) \/ HostUntilClosed(h) \/ HostCancel(h)
      PROVE  Goal
  <2>1. Registered' = Registered /\ queue' = queue
    BY <1>6 DEF HostLatch, HostWaited, HostUntilClosed, HostCancel, Registered
  <2>2. Permits' \subseteq Permits
    BY <1>6 DEF HostLatch, HostWaited, HostUntilClosed, HostCancel, Goto, Permits, TypeOK
  <2> QED BY <1>1, <2>1, <2>2, NothingTaken
<1>7. ASSUME NEW s \in Submitters, SubmitStep(s), ~SubmitAdmit(s) PROVE Goal
  <2>1. Registered' \subseteq Registered /\ queue' = queue /\ host' = host
    BY <1>7 DEF SubmitStep, SubmitLoad, SubmitExisting, SubmitRejected, AdmitRejected,
                SubmitLatch, Registered
  <2>2. Permits' = Permits
    BY <2>1 DEF Permits
  <2> QED BY <1>1, <2>1, <2>2, NothingTaken
<1>8. CASE ExecutorStep
  <2>1. /\ operations' = operations /\ host' = host
        /\ queue' = queue \/ (queue # << >> /\ queue' = Tail(queue))
    BY <1>8 DEF ExecutorStep, Recv, Refuse, Begin, Finish, Panic, DieLatch, CloseQueue,
                DrainOne, DrainDone
  <2>2. Len(queue') \in Nat /\ Len(queue') <= Len(queue)
    BY <1>1, <2>1
  <2>3. Registered' = Registered /\ Permits' = Permits
    BY <2>1 DEF Registered, Permits
  <2> QED BY <2>2, <2>3, NothingTaken
<1>9. CASE UNCHANGED vars
  <2>1. Registered' = Registered /\ Permits' = Permits /\ queue' = queue
    BY <1>9 DEF vars, Registered, Permits
  <2> QED BY <1>1, <2>1, NothingTaken
<1> QED BY <1>3, <1>4, <1>5, <1>6, <1>7, <1>8, <1>9 DEF Next, HostStep

(***************************************************************************)
(* The registry never outgrows its bound although admit only evicts        *)
(* terminal entries, for every queue and every configured capacity: the    *)
(* floor of live_registry_capacity is what makes this true.                *)
(***************************************************************************)
THEOREM RegistryStaysBounded == Spec => []RegistryBounded
<1>1. Init => SlotsHeld /\ RegistryBounded
  <2> SUFFICES ASSUME Init PROVE SlotsHeld /\ RegistryBounded
    OBVIOUS
  <2>1. Registered = {} /\ Permits = {} /\ Len(queue) = 0
    BY DEF Init, Registered, Permits
  <2>2. Cardinality(Registered) = 0 /\ Cardinality(Permits) = 0
    BY <2>1, FS_EmptySet
  <2> QED BY <2>1, <2>2, ControlAssumption DEF SlotsHeld, RegistryBounded, live_registry_capacity
<1>2. IInv /\ SlotsHeld /\ RegistryBounded /\ [Next]_vars => SlotsHeld' /\ RegistryBounded'
  BY BoundsInductive
<1> QED BY <1>1, <1>2, Invariance, PTL DEF Spec

-----------------------------------------------------------------------------
(***************************************************************************)
(* ServiceShutdown: the service's teardown over the control plane.         *)
(***************************************************************************)

(* The receiver is closed exactly while the executor drains or is gone.    *)
Closed == rx_closed <=> executor.pc \in {"drain", "exited"}

(* An answered shutdown() call means that the executor left its loop, and  *)
(* an Ok that it did so cleanly.                                           *)
Told(h) ==
  /\ host[h].pc = "waiting" =>
       /\ is_terminal(channel[host[h].sequence]) => exit # "None"
       /\ channel[host[h].sequence] = "Succeeded" => exit = "Clean"
  /\ host[h].pc = "err" => exit # "None"
  /\ host[h].pc = "ok" => exit = "Clean"

(* A second attempt is made on an executor that is on its way out, and     *)
(* hears nothing from it before the receiver is closed.                    *)
Second ==
  /\ attempt >= 2 => exit # "None"
  /\ (attempt >= 2 /\ attempt \in Hosts) =>
       /\ (host[attempt].pc = "waiting" /\ is_terminal(channel[host[attempt].sequence])) => rx_closed
       /\ host[attempt].pc = "err" => rx_closed

(* The attempts after the present one were not begun.                      *)
Unbegun ==
  \A h \in Hosts : h > attempt \/ (h = attempt /\ service \in {"serving", "attempt"})
                     => host[h].pc = "idle"

(* A Shutdown comes from the bridge only, after it latched the adapter.    *)
Latched ==
  /\ service # "serving" => v1 = "none"
  /\ \A s \in Submitters : call[s].pc = "loaded" => call[s].work.command # "Shutdown"
  /\ service = "serving" =>
       /\ exit # "Clean"
       /\ \A k \in 1 .. Len(queue) : queue[k].command # "Shutdown"
       /\ Holding => executor.work.command # "Shutdown"

Over == service \in {"retry", "returned"} => exit # "None"

BridgeTyped ==
  /\ core \in {"up", "down", "stray"}
  /\ v1 \in {"none", "start", "stop", "restart"}
  /\ service \in {"serving", "attempt", "calling", "until_closed", "retry", "returned"}
  /\ attempt \in 1 .. 2
  /\ service \in {"calling", "until_closed", "retry", "returned"} => attempt \in Hosts
  /\ attempt <= MaxAttempts + 1

(* With a DNS restore that succeeds, a clean exit has taken the core down. *)
Down ==
  ~RestoreMayFail => /\ exit = "Clean" => core # "up"
                     /\ service = "returned" => core # "up"

PlaneInv == IInv /\ Closed /\ \A h \in Hosts : Told(h)
ServiceInv == PlaneInv /\ BridgeTyped /\ Second /\ Unbegun /\ Latched /\ Over /\ Down

(***************************************************************************)
(* Who writes an answer: the drain, or the executor for the operation in   *)
(* its hands; a Shutdown's answer always ends the loop.                    *)
(***************************************************************************)
LEMMA AnswerWrites ==
  ASSUME IInv, [Next]_vars, NEW s \in SequenceNumbers, channel'[s] # channel[s],
         is_terminal(channel'[s])
  PROVE  \/ /\ executor.pc = "drain" /\ exit' = exit
            /\ channel'[s] = "Succeeded" => exit # "Died"
         \/ /\ Holding /\ SeqOf(executor.work.id) = s
            /\ IsShutdown => /\ exit' # "None"
                             /\ channel'[s] = "Succeeded" => exit' = "Clean"
<1> USE DEF IInv
<1> DEFINE Goal == \/ /\ executor.pc = "drain" /\ exit' = exit
                      /\ channel'[s] = "Succeeded" => exit # "Died"
                   \/ /\ Holding /\ SeqOf(executor.work.id) = s
                      /\ IsShutdown => /\ exit' # "None"
                                       /\ channel'[s] = "Succeeded" => exit' = "Clean"
<1>1. ASSUME NEW work, Admit(work) PROVE FALSE
  <2>1. /\ next_sequence \in SequenceNumbers
        /\ channel' = [channel EXCEPT ![next_sequence] = "Queued"]
    BY <1>1, ControlAssumption DEF Admit, TypeOK, SequenceNumbers
  <2> QED BY <2>1 DEF TypeOK, is_terminal
<1>2. ASSUME NEW id \in Registered, NEW state, Set(id, state)
      PROVE  s = SeqOf(id) /\ channel'[s] = state
  BY <1>2 DEF Set, SeqOf, TypeOK, Registered
<1>3. ASSUME Holding, NEW state, Set(executor.work.id, state)
      PROVE  s = SeqOf(executor.work.id) /\ channel'[s] = state
  <2>1. executor.work.id \in Registered
    BY <1>3 DEF RegistryInv, HeldOrdered
  <2> QED BY <1>2, <1>3, <2>1
<1>4. CASE Refuse
  BY <1>3, <1>4 DEF Refuse, Holding
<1>5. CASE Begin
  BY <1>3, <1>5 DEF Begin, Holding, is_terminal
<1>6. ASSUME NEW state \in {"Succeeded", "Failed"}, Finish(state) PROVE Goal
  BY <1>3, <1>6 DEF Finish, Holding
<1>7. CASE Panic
  BY <1>3, <1>7 DEF Panic, Holding
<1>8. CASE DrainOne
  <2>1. queue \in Seq(Work) /\ queue # << >> /\ 1 \in 1 .. Len(queue) /\ Head(queue) = queue[1]
    BY <1>8 DEF DrainOne, TypeOK
  <2>2. Head(queue).id \in Registered
    BY <2>1 DEF RegistryInv, QueueOrdered
  <2>3. channel'[s] = DrainedState(Head(queue)) /\ executor.pc = "drain" /\ exit' = exit
    BY <1>2, <1>8, <2>2 DEF DrainOne
  <2> QED BY <2>3 DEF DrainedState
<1>9. ASSUME NEW t \in Submitters, SubmitStep(t) PROVE Goal
  BY <1>1, <1>9 DEF SubmitStep, SubmitLoad, SubmitExisting, SubmitAdmit, SubmitRejected,
                    AdmitRejected, SubmitLatch
<1>10. ASSUME NEW h \in Hosts, HostLatch(h) \/ HostStep(h) \/ HostCancel(h) PROVE Goal
  BY <1>1, <1>10 DEF HostStep, HostLatch, HostReserve, HostAdmit, HostWaited,
                     HostUntilClosed, HostCancel
<1>11. CASE Recv \/ DieLatch \/ CloseQueue \/ DrainDone
  BY <1>11 DEF Recv, DieLatch, CloseQueue, DrainDone
<1>12. CASE UNCHANGED vars
  BY <1>12 DEF vars
<1> QED BY <1>4, <1>5, <1>6, <1>7, <1>8, <1>9, <1>10, <1>11, <1>12 DEF Next, ExecutorStep

(* How the executor ends is decided once.                                  *)
LEMMA ExitIsFinal ==
  ASSUME IInv, [Next]_vars, exit # "None"
  PROVE  exit' = exit
<1>1. ~Holding
  BY DEF IInv, HostInv, Holding
<1> QED BY <1>1 DEF Holding, Next, SubmitStep, SubmitLoad, SubmitExisting, SubmitAdmit,
        SubmitRejected, SubmitLatch, HostStep, HostLatch, HostReserve, HostAdmit, HostWaited,
        HostUntilClosed, HostCancel, ExecutorStep, Recv, Refuse, Begin, Finish, Panic, DieLatch,
        CloseQueue, DrainOne, DrainDone, vars

(* A call that waits on, with its answer or without.                       *)
LEMMA WaitingTold ==
  ASSUME PlaneInv, [Next]_vars, NEW h \in Hosts, host[h].pc = "waiting"
  PROVE  /\ is_terminal(channel'[host[h].sequence]) => exit' # "None"
         /\ channel'[host[h].sequence] = "Succeeded" => exit' = "Clean"
<1> DEFINE s == host[h].sequence
<1>1. /\ s \in SequenceNumbers
      /\ \/ h \in Registered /\ SeqOf(h) = s /\ operations[h].digest = "Shutdown"
         \/ is_terminal(channel[s])
  BY DEF PlaneInv, IInv, HostInv
<1>2. /\ is_terminal(channel[s]) => exit # "None"
      /\ channel[s] = "Succeeded" => exit = "Clean"
  BY DEF PlaneInv, Told
<1>3. CASE channel'[s] = channel[s]
  BY <1>2, <1>3, ExitIsFinal DEF PlaneInv
<1>4. CASE channel'[s] # channel[s]
  <2> SUFFICES ASSUME is_terminal(channel'[s])
               PROVE  exit' # "None" /\ (channel'[s] = "Succeeded" => exit' = "Clean")
    BY DEF is_terminal
  <2>1. CASE /\ executor.pc = "drain" /\ exit' = exit
             /\ channel'[s] = "Succeeded" => exit # "Died"
    BY <2>1 DEF PlaneInv, IInv, HostInv, TypeOK
  <2>2. CASE /\ Holding /\ SeqOf(executor.work.id) = s
             /\ IsShutdown => /\ exit' # "None"
                              /\ channel'[s] = "Succeeded" => exit' = "Clean"
    <3>1. ~is_terminal(channel[s])
      BY <1>1, <1>4, ChannelWrites DEF PlaneInv
    <3>2. executor.work.id = h
      BY <1>1, <2>2, <3>1 DEF PlaneInv, IInv, RegistryInv, HeldOrdered, Channels
    <3>3. IsShutdown
      BY <1>1, <2>2, <3>1, <3>2 DEF PlaneInv, IInv, RegistryInv, HeldOrdered, IsShutdown
    <3> QED BY <2>2, <3>3
  <2> QED BY <1>1, <1>4, <2>1, <2>2, AnswerWrites DEF PlaneInv
<1> QED BY <1>3, <1>4

(* Every step of the plane keeps what its callers were told true.          *)
LEMMA PlaneKept ==
  ASSUME PlaneInv, [Next]_vars
  PROVE  PlaneInv'
<1>1. IInv'
  BY InvariantKept DEF PlaneInv
<1>2. Closed'
  <2> USE DEF PlaneInv, Closed
  <2>1. CASE UNCHANGED <<rx_closed, executor>>
    BY <2>1
  <2>2. CASE Recv \/ Refuse \/ Panic \/ DieLatch
    BY <2>2 DEF Recv, Refuse, Panic, DieLatch, Executor
  <2>3. CASE Begin
    BY <2>3 DEF Begin, IInv, TypeOK
  <2>4. ASSUME NEW state, Finish(state) PROVE Closed'
    BY <2>4 DEF Finish, Executor
  <2>5. CASE CloseQueue \/ DrainDone
    BY <2>5 DEF CloseQueue, DrainDone, Executor
  <2> QED BY <2>1, <2>2, <2>3, <2>4, <2>5
          DEF Next, SubmitStep, SubmitLoad, SubmitExisting, SubmitAdmit, SubmitRejected, SubmitLatch,
              HostStep, HostLatch, HostReserve, HostAdmit, HostWaited, HostUntilClosed, HostCancel,
              ExecutorStep, DrainOne, vars
<1>3. ASSUME NEW h \in Hosts, host'[h] = host[h] PROVE Told(h)'
  <2>1. exit # "None" => exit' = exit
    BY ExitIsFinal DEF PlaneInv
  <2>2. Told(h)
    BY DEF PlaneInv
  <2>3. host'[h].pc = host[h].pc /\ host'[h].sequence = host[h].sequence
    BY <1>3
  <2>4. host[h].pc = "waiting" =>
          /\ is_terminal(channel'[host[h].sequence]) => exit' # "None"
          /\ channel'[host[h].sequence] = "Succeeded" => exit' = "Clean"
    BY WaitingTold
  <2> QED BY <2>1, <2>2, <2>3, <2>4 DEF Told
<1>4. ASSUME NEW g \in Hosts, HostLatch(g) \/ HostReserve(g) \/ HostWaited(g)
                              \/ HostUntilClosed(g) \/ HostCancel(g)
      PROVE  \A h \in Hosts : Told(h)'
  <2>1. /\ \A h \in Hosts : h # g => host'[h] = host[h]
        /\ host'[g].pc # "waiting" /\ exit' = exit
        /\ host'[g].pc = "ok" => (HostWaited(g) /\ channel[host[g].sequence] = "Succeeded")
                                 \/ exit = "Clean"
        /\ host'[g].pc = "err" => HostWaited(g) \/ executor.pc = "exited"
    BY <1>4 DEF PlaneInv, IInv, TypeOK, HostLatch, HostReserve, HostWaited, HostUntilClosed,
                HostCancel, Goto
  <2>2. Told(g)'
    BY <2>1 DEF PlaneInv, Told, HostWaited, IInv, HostInv
  <2> QED BY <1>3, <2>1, <2>2
<1>5. ASSUME NEW g \in Hosts, HostAdmit(g) PROVE \A h \in Hosts : Told(h)'
  <2>1. /\ next_sequence \in SequenceNumbers
        /\ channel' = [channel EXCEPT ![next_sequence] = "Queued"]
    BY <1>5, ControlAssumption DEF HostAdmit, Admit, PlaneInv, IInv, TypeOK, SequenceNumbers
  <2>2. channel'[next_sequence] = "Queued"
    BY <2>1 DEF PlaneInv, IInv, TypeOK
  <2>3. /\ \A h \in Hosts : h # g => host'[h] = host[h]
        /\ host'[g] = [pc |-> "waiting", sequence |-> next_sequence]
    BY <1>5 DEF HostAdmit, PlaneInv, IInv, TypeOK
  <2>4. Told(g)'
    BY <2>2, <2>3 DEF Told, is_terminal
  <2> QED BY <1>3, <2>3, <2>4
<1>6. ASSUME host' = host PROVE \A h \in Hosts : Told(h)'
  BY <1>3, <1>6
<1>7. \A h \in Hosts : Told(h)'
  BY <1>4, <1>5, <1>6
     DEF Next, SubmitStep, SubmitLoad, SubmitExisting, SubmitAdmit, SubmitRejected,
         SubmitLatch, HostStep, ExecutorStep, Recv, Refuse, Begin, Finish, Panic,
         DieLatch, CloseQueue, DrainOne, DrainDone, vars
<1> QED BY <1>1, <1>2, <1>7 DEF PlaneInv

(* The bridge, its clients and its executor take steps of the plane.       *)
LEMMA ServiceStepsPlane ==
  ASSUME ServiceInv, [ServiceNext]_allVars
  PROVE  [Next]_vars
<1>1. CASE ExecutorMoves
  BY <1>1 DEF ExecutorMoves, TransactionEnds, TransactionPanics, Next, ExecutorStep
<1>2. ASSUME NEW s \in Submitters, ClientMoves(s) PROVE Next
  BY <1>2 DEF ClientMoves, Next, SubmitStep
<1>3. CASE Call \/ Calling \/ TimesOut
  <2>1. attempt \in Hosts
    BY <1>3, ServiceAssumption DEF Call, Calling, TimesOut, ServiceInv, BridgeTyped
  <2> QED BY <1>3, <2>1 DEF Call, Calling, TimesOut, Next
<1> QED BY <1>1, <1>2, <1>3
        DEF ServiceNext, BridgeMoves, V1Begin, V1End, CoreDies, ServiceShutdown, Answered,
            UntilClosed, RetrySucceeds, RetryFails, allVars

(* What the manager's transactions can leave of the core.                  *)
LEMMA EffectTyped ==
  ASSUME core \in {"up", "down", "stray"}, NEW command \in Commands,
         NEW state \in {"Succeeded", "Failed"}, NEW next \in Effect(command, state)
  PROVE  next \in {"up", "down", "stray"}
<1>1. command \in {"Reconcile", "Stop", "Recover", "Shutdown"}
  BY ServiceAssumption
<1>2. CASE command = "Reconcile"
  BY <1>2 DEF Effect, Reconciled
<1>3. CASE command = "Stop"
  BY <1>3 DEF Effect, Stopped, ShutDown
<1>4. CASE command = "Recover"
  BY <1>4 DEF Effect, Recovered
<1>5. CASE command = "Shutdown"
  BY <1>5 DEF Effect, ShutDown
<1> QED BY <1>1, <1>2, <1>3, <1>4, <1>5

(***************************************************************************)
(* The bridge stays within two attempts: after an error on an open         *)
(* receiver it is at its first.                                            *)
(***************************************************************************)
LEMMA BridgeKept ==
  ASSUME ServiceInv, [ServiceNext]_allVars
  PROVE  BridgeTyped'
<1> USE DEF BridgeTyped
<1>1. BridgeTyped
  BY DEF ServiceInv
<1>2. CASE TransactionEnds
  <2>1. PICK state \in {"Succeeded", "Failed"} :
          /\ Finish(state) /\ core' \in Effect(executor.work.command, state)
          /\ UNCHANGED <<v1, service, attempt>>
    BY <1>2 DEF TransactionEnds
  <2>2. executor.work.command \in Commands
    BY <2>1 DEF ServiceInv, PlaneInv, IInv, RegistryInv, HeldOrdered, Holding, Finish, Work
  <2>3. core' \in {"up", "down", "stray"}
    BY <1>1, <2>1, <2>2, EffectTyped
  <2> QED BY <1>1, <2>1, <2>3
<1>3. CASE V1End
  <2>1. PICK state \in {"Succeeded", "Failed"} :
          core' \in Effect(IF v1 = "stop" THEN "Stop" ELSE "Reconcile", state)
    BY <1>3 DEF V1End
  <2>2. core' \in {"up", "down", "stray"}
    BY <1>1, <2>1 DEF Effect, Reconciled, Stopped, ShutDown
  <2> QED BY <1>1, <1>3, <2>2 DEF V1End
<1>4. CASE Answered
  <2>1. attempt \in Hosts /\ attempt \in 1 .. 2
    BY <1>1, <1>4 DEF Answered
  <2>2. (host[attempt].pc = "err" /\ ~rx_closed) => attempt = 1
    BY <2>1 DEF ServiceInv, Second
  <2> QED BY <1>1, <1>4, <2>1, <2>2, ServiceAssumption DEF Answered
<1>5. CASE RetrySucceeds \/ RetryFails
  BY <1>1, <1>5 DEF RetrySucceeds, RetryFails, ShutDown
<1>6. CASE TransactionPanics
  BY <1>1, <1>6 DEF TransactionPanics
<1>7. CASE Call
  BY <1>1, <1>7, ServiceAssumption DEF Call
<1> QED BY <1>1, <1>2, <1>3, <1>4, <1>5, <1>6, <1>7
        DEF ServiceNext, BridgeMoves, ExecutorMoves, ClientMoves, V1Begin, CoreDies,
            ServiceShutdown, Calling, TimesOut, UntilClosed, serviceVars, allVars

(* Only the call of the present attempt moves.                             *)
LEMMA OneCallMoves ==
  ASSUME ServiceInv, [ServiceNext]_allVars, NEW h \in Hosts, host'[h] # host[h]
  PROVE  /\ h = attempt /\ attempt' = attempt /\ service \in {"attempt", "calling"}
         /\ service' \in {"calling", "until_closed"}
         /\ HostLatch(h) \/ HostStep(h) \/ HostCancel(h)
<1>1. host \in [Hosts -> [pc: {"idle", "reserving", "permit", "waiting",
                               "until_closed", "ok", "err", "cancelled"},
                          sequence: SequenceNumbers \cup {-1}]]
  BY DEF ServiceInv, PlaneInv, IInv, TypeOK
<1>2. CASE Call
  BY <1>1, <1>2 DEF Call, HostLatch, Goto
<1>3. CASE Calling
  BY <1>1, <1>3 DEF Calling, HostStep, HostReserve, HostAdmit, HostWaited, HostUntilClosed,
                    Goto, serviceVars
<1>4. CASE TimesOut
  BY <1>1, <1>4 DEF TimesOut, HostCancel, Goto
<1> QED BY <1>2, <1>3, <1>4
        DEF ServiceNext, BridgeMoves, ExecutorMoves, TransactionEnds, TransactionPanics, Recv,
            Refuse, Begin, Finish, Panic, DieLatch, CloseQueue, DrainOne, DrainDone, ClientMoves,
            SubmitLoad, SubmitExisting, SubmitAdmit, SubmitRejected, V1Begin, V1End, CoreDies,
            ServiceShutdown, Answered, UntilClosed, RetrySucceeds, RetryFails, vars, allVars

(* Calls of later attempts stay unbegun.                                   *)
LEMMA UnbegunKept ==
  ASSUME ServiceInv, [ServiceNext]_allVars
  PROVE  Unbegun'
<1> SUFFICES ASSUME NEW h \in Hosts,
                    h > attempt' \/ (h = attempt' /\ service' \in {"serving", "attempt"})
             PROVE  host'[h].pc = "idle"
  BY DEF Unbegun
<1>1. h \in Int /\ attempt \in 1 .. 2 /\ Hosts = 1 .. MaxAttempts /\ MaxAttempts \in Nat
  BY ServiceAssumption DEF ServiceInv, BridgeTyped
<1>2. host'[h] = host[h]
  BY <1>1, OneCallMoves
<1>3. /\ attempt' = attempt /\ (service' \in {"serving", "attempt"} => service \in {"serving", "attempt"})
      \/ attempt' = attempt + 1
  BY DEF ServiceNext, BridgeMoves, ExecutorMoves, TransactionEnds, TransactionPanics, ClientMoves,
         V1Begin, V1End, CoreDies, ServiceShutdown, Answered, UntilClosed, RetrySucceeds,
         RetryFails, Call, Calling, TimesOut, serviceVars, allVars
<1> QED BY <1>1, <1>2, <1>3 DEF ServiceInv, Unbegun

(***************************************************************************)
(* A second attempt meets an executor that has left its loop: only the     *)
(* drain can answer it, behind a closed receiver.                          *)
(***************************************************************************)
LEMMA SecondKept ==
  ASSUME ServiceInv, [ServiceNext]_allVars
  PROVE  Second'
<1>1. [Next]_vars /\ IInv /\ PlaneInv /\ Closed /\ Second /\ BridgeTyped /\ Unbegun
  BY ServiceStepsPlane DEF ServiceInv, PlaneInv
<1>2. exit # "None" => exit' = exit
  BY <1>1, ExitIsFinal
<1>3. rx_closed => rx_closed'
  BY <1>1 DEF Next, SubmitStep, SubmitLoad, SubmitExisting, SubmitAdmit, SubmitRejected,
              SubmitLatch, HostStep, HostLatch, HostReserve, HostAdmit, HostWaited,
              HostUntilClosed, HostCancel, ExecutorStep, Recv, Refuse, Begin, Finish, Panic,
              DieLatch, CloseQueue, DrainOne, DrainDone, vars
<1>4. CASE attempt' = attempt
  <2> SUFFICES ASSUME attempt >= 2
               PROVE  Second'
    BY <1>4 DEF Second
  <2>1. exit # "None" /\ exit' # "None" /\ ~Holding
    BY <1>1, <1>2 DEF Second, IInv, HostInv, Holding
  <2> SUFFICES ASSUME attempt \in Hosts
               PROVE  /\ (host'[attempt].pc = "waiting" /\ is_terminal(channel'[host'[attempt].sequence]))
                           => rx_closed'
                      /\ host'[attempt].pc = "err" => rx_closed'
    BY <1>4, <2>1 DEF Second
  <2>2. /\ (host[attempt].pc = "waiting" /\ is_terminal(channel[host[attempt].sequence])) => rx_closed
        /\ host[attempt].pc = "err" => rx_closed
    BY <1>1 DEF Second
  <2>3. CASE host'[attempt] = host[attempt]
    <3>1. ASSUME host[attempt].pc = "waiting", is_terminal(channel'[host[attempt].sequence])
          PROVE  rx_closed'
      <4>1. host[attempt].sequence \in SequenceNumbers
        BY <1>1, <3>1 DEF IInv, HostInv
      <4>2. CASE channel'[host[attempt].sequence] = channel[host[attempt].sequence]
        BY <1>3, <2>2, <3>1, <4>2
      <4>3. CASE channel'[host[attempt].sequence] # channel[host[attempt].sequence]
        <5>1. executor.pc = "drain"
          BY <1>1, <2>1, <3>1, <4>1, <4>3, AnswerWrites
        <5> QED BY <1>1, <1>3, <5>1 DEF Closed
      <4> QED BY <4>2, <4>3
    <3> QED BY <1>3, <2>2, <2>3, <3>1
  <2>4. CASE host'[attempt] # host[attempt]
    <3>1. HostLatch(attempt) \/ HostStep(attempt) \/ HostCancel(attempt)
      BY <2>4, OneCallMoves
    <3>2. CASE HostAdmit(attempt)
      <4>1. /\ next_sequence \in SequenceNumbers
            /\ channel' = [channel EXCEPT ![next_sequence] = "Queued"]
            /\ host' = [host EXCEPT ![attempt] = [pc |-> "waiting", sequence |-> next_sequence]]
        BY <1>1, <3>2, ControlAssumption DEF HostAdmit, Admit, IInv, TypeOK, SequenceNumbers
      <4>2. host'[attempt] = [pc |-> "waiting", sequence |-> next_sequence]
        BY <1>1, <4>1 DEF IInv, TypeOK
      <4>3. channel'[next_sequence] = "Queued"
        BY <1>1, <4>1 DEF IInv, TypeOK
      <4> QED BY <4>2, <4>3 DEF is_terminal
    <3>3. CASE HostWaited(attempt)
      <4>1. rx_closed
        BY <2>2, <3>3 DEF HostWaited
      <4> QED BY <1>3, <4>1
    <3>4. CASE HostUntilClosed(attempt)
      <4>1. rx_closed
        BY <1>1, <3>4 DEF HostUntilClosed, Closed
      <4> QED BY <1>3, <4>1
    <3>5. CASE HostLatch(attempt) \/ HostReserve(attempt) \/ HostCancel(attempt)
      <4>1. host'[attempt].pc \in {"reserving", "until_closed", "permit", "cancelled"}
        BY <1>1, <3>5 DEF HostLatch, HostReserve, HostCancel, Goto, IInv, TypeOK
      <4> QED BY <4>1
    <3> QED BY <3>1, <3>2, <3>3, <3>4, <3>5 DEF HostStep
  <2> QED BY <2>3, <2>4
<1>5. CASE attempt' # attempt
  <2>1. Answered
    BY <1>5 DEF ServiceNext, BridgeMoves, ExecutorMoves, TransactionEnds, TransactionPanics,
         ClientMoves, V1Begin, V1End, CoreDies, ServiceShutdown, UntilClosed, RetrySucceeds,
         RetryFails, Call, Calling, TimesOut, serviceVars, allVars
  <2>2. /\ service = "calling" /\ host[attempt].pc = "err" /\ attempt' = attempt + 1
        /\ UNCHANGED vars
    BY <1>5, <2>1 DEF Answered
  <2>3. attempt \in Hosts /\ attempt \in 1 .. 2
    BY <1>1, <2>2 DEF BridgeTyped
  <2>4. exit # "None"
    BY <1>1, <2>2, <2>3 DEF PlaneInv, Told
  <2>5. attempt' \in Hosts => host[attempt'].pc = "idle"
    BY <1>1, <2>2, <2>3 DEF Unbegun
  <2> QED BY <2>2, <2>4, <2>5 DEF Second, vars
<1> QED BY <1>4, <1>5

(* Who latches: nobody but the bridge puts a Shutdown into the plane.      *)
LEMMA LatchedKept ==
  ASSUME ServiceInv, [ServiceNext]_allVars
  PROVE  Latched'
<1>1. [Next]_vars /\ TypeOK /\ Latched /\ BridgeTyped
  BY ServiceStepsPlane DEF ServiceInv, PlaneInv, IInv
<1>2. service' # "serving" => v1' = "none"
  BY <1>1 DEF Latched, ServiceNext, BridgeMoves, ExecutorMoves, TransactionEnds,
       TransactionPanics, ClientMoves, V1Begin, V1End, CoreDies, ServiceShutdown, Answered,
       UntilClosed, RetrySucceeds, RetryFails, Call, Calling, TimesOut, AdapterClosing,
       serviceVars, allVars
<1>3. ASSUME NEW s \in Submitters, call'[s].pc = "loaded"
      PROVE  call'[s].work.command # "Shutdown"
  <2>1. CASE call' = call
    BY <1>1, <1>3, <2>1 DEF Latched
  <2>2. ASSUME NEW t \in Submitters, NEW work \in [id: ClientIds, command: Commands \ {"Shutdown"}],
               SubmitLoad(t, work)
        PROVE  call'[s].work.command # "Shutdown"
    BY <1>1, <1>3, <2>2 DEF Latched, SubmitLoad, TypeOK
  <2>3. ASSUME NEW t \in Submitters, SubmitExisting(t) \/ SubmitAdmit(t) \/ SubmitRejected(t)
        PROVE  call'[s].work.command # "Shutdown"
    <3>1. t = s => call'[s].pc # "loaded"
      BY <1>1, <2>3 DEF SubmitExisting, SubmitAdmit, SubmitRejected, Idle, TypeOK
    <3>2. t # s => call'[s] = call[s]
      BY <1>1, <2>3 DEF SubmitExisting, SubmitAdmit, SubmitRejected, Idle, TypeOK
    <3> QED BY <1>1, <1>3, <3>1, <3>2 DEF Latched
  <2> QED BY <2>1, <2>2, <2>3
          DEF ServiceNext, BridgeMoves, ExecutorMoves, TransactionEnds, TransactionPanics,
              ClientMoves, V1Begin, V1End, CoreDies, ServiceShutdown, Answered, UntilClosed,
              RetrySucceeds, RetryFails, Call, Calling, TimesOut, Recv, Refuse, Begin, Finish,
              Panic, DieLatch, CloseQueue, DrainOne, DrainDone, HostLatch, HostStep, HostReserve,
              HostAdmit, HostWaited, HostUntilClosed, HostCancel, vars, allVars
<1>4. ASSUME service' = "serving"
      PROVE  /\ exit' # "Clean"
             /\ \A k \in 1 .. Len(queue') : queue'[k].command # "Shutdown"
             /\ Holding' => executor'.work.command # "Shutdown"
  <2>1. service = "serving"
    BY <1>4 DEF ServiceNext, BridgeMoves, ExecutorMoves, TransactionEnds, TransactionPanics,
              ClientMoves, V1Begin, V1End, CoreDies, ServiceShutdown, Answered, UntilClosed,
              RetrySucceeds, RetryFails, Call, Calling, TimesOut, serviceVars, allVars
  <2>2. /\ exit # "Clean" /\ queue \in Seq(Work)
        /\ \A k \in 1 .. Len(queue) : queue[k].command # "Shutdown"
        /\ Holding => executor.work.command # "Shutdown"
    BY <1>1, <2>1 DEF Latched, TypeOK
  <2>3. CASE Recv
    <3>1. /\ queue # << >> /\ queue' = Tail(queue) /\ exit' = exit
          /\ executor' = [pc |-> "received", work |-> Head(queue)]
      BY <2>3 DEF Recv, Executor
    <3>2. Head(queue) = queue[1] /\ 1 \in 1 .. Len(queue)
      BY <2>2, <3>1
    <3>3. \A k \in 1 .. Len(queue') : queue'[k] = queue[k + 1] /\ k + 1 \in 1 .. Len(queue)
      BY <2>2, <3>1
    <3>4. executor'.work.command # "Shutdown"
      BY <2>2, <3>1, <3>2
    <3> QED BY <2>2, <3>1, <3>3, <3>4
  <2>4. CASE DrainOne
    <3>1. queue # << >> /\ queue' = Tail(queue) /\ exit' = exit /\ executor' = executor
      BY <2>4 DEF DrainOne
    <3>2. \A k \in 1 .. Len(queue') : queue'[k] = queue[k + 1] /\ k + 1 \in 1 .. Len(queue)
      BY <2>2, <3>1
    <3> QED BY <2>2, <3>1, <3>2 DEF Holding
  <2>5. CASE Refuse \/ Panic \/ DieLatch \/ CloseQueue \/ DrainDone
    BY <2>2, <2>5 DEF Refuse, Panic, DieLatch, CloseQueue, DrainDone, Executor, Holding
  <2>6. CASE Begin
    BY <1>1, <2>2, <2>6 DEF Begin, Holding, TypeOK
  <2>7. CASE \E state \in {"Succeeded", "Failed"} : Finish(state)
    BY <2>2, <2>7 DEF Finish, IsShutdown, Executor, Holding
  <2>8. ASSUME NEW s \in Submitters, SubmitAdmit(s)
        PROVE  /\ exit' # "Clean"
               /\ \A k \in 1 .. Len(queue') : queue'[k].command # "Shutdown"
               /\ Holding' => executor'.work.command # "Shutdown"
    <3>1. /\ queue' = Append(queue, call[s].work) /\ exit' = exit /\ executor' = executor
          /\ call[s].work.command # "Shutdown"
      BY <1>1, <2>8 DEF SubmitAdmit, Admit, Latched
    <3>2. call[s].work \in Work \cup {NoWork}
      BY <1>1 DEF TypeOK
    <3>3. \A k \in 1 .. Len(queue') : (k \in 1 .. Len(queue) /\ queue'[k] = queue[k])
                                      \/ queue'[k] = call[s].work
      BY <2>2, <3>1
    <3> QED BY <2>2, <3>1, <3>3 DEF Holding
  <2>9. CASE UNCHANGED <<queue, executor, exit>>
    BY <2>2, <2>9 DEF Holding
  <2> QED BY <1>4, <2>1, <2>3, <2>4, <2>5, <2>6, <2>7, <2>8, <2>9
          DEF ServiceNext, BridgeMoves, ExecutorMoves, TransactionEnds, TransactionPanics,
              ClientMoves, SubmitLoad, SubmitExisting, SubmitRejected, AdmitRejected, V1Begin,
              V1End, CoreDies, ServiceShutdown, Answered, UntilClosed, RetrySucceeds, RetryFails,
              Call, Calling, TimesOut, vars, allVars
<1> QED BY <1>2, <1>3, <1>4 DEF Latched

(* Past the control plane the executor is out of its loop.                 *)
LEMMA OverKept ==
  ASSUME ServiceInv, [ServiceNext]_allVars
  PROVE  Over'
<1>1. [Next]_vars /\ IInv /\ Over /\ BridgeTyped /\ PlaneInv
  BY ServiceStepsPlane DEF ServiceInv, PlaneInv
<1>2. exit # "None" => exit' = exit
  BY <1>1, ExitIsFinal
<1>3. CASE Answered
  <2>1. attempt \in Hosts
    BY <1>1, <1>3 DEF Answered, BridgeTyped
  <2>2. host[attempt].pc \in {"ok", "err"}
    BY <1>3 DEF Answered
  <2>3. exit # "None"
    BY <1>1, <2>1, <2>2 DEF PlaneInv, Told
  <2> QED BY <1>2, <2>3 DEF Over
<1>4. CASE UntilClosed
  BY <1>1, <1>2, <1>4 DEF UntilClosed, IInv, HostInv, Over
<1>5. CASE service' \in {"retry", "returned"} => service \in {"retry", "returned"}
  BY <1>1, <1>2, <1>5 DEF Over
<1> QED BY <1>3, <1>4, <1>5
        DEF ServiceNext, BridgeMoves, ExecutorMoves, TransactionEnds, TransactionPanics,
            ClientMoves, V1Begin, V1End, CoreDies, ServiceShutdown, RetrySucceeds, RetryFails,
            Call, Calling, TimesOut, serviceVars, allVars

(***************************************************************************)
(* A Shutdown that ran took the core down or gave it up, unless the DNS    *)
(* restore failed; behind it nothing owns the core any more.               *)
(***************************************************************************)
LEMMA DownKept ==
  ASSUME ServiceInv, [ServiceNext]_allVars
  PROVE  Down'
<1> SUFFICES ASSUME ~RestoreMayFail
             PROVE  /\ exit' = "Clean" => core' # "up"
                    /\ service' = "returned" => core' # "up"
  BY DEF Down
<1>1. [Next]_vars /\ IInv /\ Over /\ BridgeTyped /\ PlaneInv /\ Latched
  BY ServiceStepsPlane DEF ServiceInv, PlaneInv
<1>2. (exit = "Clean" => core # "up") /\ (service = "returned" => core # "up")
  BY DEF ServiceInv, Down
<1>3. exit # "None" => ~Holding
  BY <1>1 DEF IInv, HostInv, Holding
<1>4. CASE TransactionEnds
  <2>1. PICK state \in {"Succeeded", "Failed"} :
          /\ Finish(state) /\ core' \in Effect(executor.work.command, state)
          /\ UNCHANGED <<v1, service, attempt>>
    BY <1>4 DEF TransactionEnds
  <2>2. Holding /\ exit = "None" /\ service # "returned"
    BY <1>1, <1>3, <2>1 DEF Finish, Holding, Over
  <2>3. CASE IsShutdown
    <3>1. core' \in ShutDown(state)
      BY <2>1, <2>3 DEF Effect, IsShutdown
    <3>2. core' # "up"
      BY <3>1 DEF ShutDown
    <3> QED BY <3>2
  <2>4. CASE ~IsShutdown
    BY <2>1, <2>2, <2>4 DEF Finish
  <2> QED BY <2>3, <2>4
<1>5. CASE TransactionPanics
  <2>1. Panic /\ service' = service
    BY <1>5 DEF TransactionPanics
  <2>2. Holding /\ exit' = "Died" /\ service # "returned"
    BY <1>1, <1>3, <2>1 DEF Panic, Holding, Over
  <2> QED BY <2>1, <2>2
<1>6. CASE V1End
  <2>1. service = "serving" /\ service' = service /\ exit' = exit
    BY <1>1, <1>6 DEF V1End, Latched, vars
  <2>2. exit # "Clean"
    BY <1>1, <2>1 DEF Latched
  <2> QED BY <2>1, <2>2
<1>7. CASE Answered
  <2>1. attempt \in Hosts
    BY <1>1, <1>7 DEF Answered, BridgeTyped
  <2>2. host[attempt].pc = "ok" => exit = "Clean"
    BY <1>1, <2>1 DEF PlaneInv, Told
  <2> QED BY <1>2, <1>7, <2>2 DEF Answered, vars
<1>8. CASE RetrySucceeds
  <2>1. core' # "up"
    BY <1>8 DEF RetrySucceeds, ShutDown
  <2> QED BY <2>1
<1>9. CASE RetryFails
  <2>1. core' # "up" /\ service' = "retry"
    BY <1>9 DEF RetryFails, ShutDown
  <2> QED BY <2>1
<1>10. CASE core' = core /\ exit' = exit /\ (service' = "returned" => service = "returned")
  BY <1>2, <1>10
<1>11. CASE CoreDies
  BY <1>11 DEF CoreDies
<1> QED BY <1>4, <1>5, <1>6, <1>7, <1>8, <1>9, <1>10, <1>11
        DEF ServiceNext, BridgeMoves, ExecutorMoves, ClientMoves, V1Begin, ServiceShutdown,
            UntilClosed, Call, Calling, TimesOut, Recv, Refuse, Begin, DieLatch, CloseQueue,
            DrainOne, DrainDone, SubmitLoad, SubmitExisting, SubmitAdmit, SubmitRejected,
            HostLatch, HostStep, HostReserve, HostAdmit, HostWaited, HostUntilClosed, HostCancel,
            serviceVars, allVars, vars

(* The teardown's invariant holds at first.                                *)
LEMMA ServiceAtFirst == ServiceInit => ServiceInv
<1> SUFFICES ASSUME ServiceInit
             PROVE  ServiceInv
  OBVIOUS
<1>1. Init /\ IInv
  BY InvariantAtFirst DEF ServiceInit
<1>2. \A h \in Hosts : host[h].pc = "idle"
  BY <1>1 DEF Init
<1>3. PlaneInv
  BY <1>1, <1>2 DEF PlaneInv, Closed, Told, Init
<1>4. BridgeTyped
  BY ServiceAssumption DEF BridgeTyped, ServiceInit
<1>5. Second /\ Unbegun /\ Over /\ Down
  BY <1>1, <1>2 DEF Second, Unbegun, Over, Down, ServiceInit, Init
<1>6. \A s \in Submitters : call[s].pc = "idle"
  BY <1>1 DEF Init
<1>7. Latched
  BY <1>1, <1>6 DEF Latched, ServiceInit, Init, Holding
<1> QED BY <1>3, <1>4, <1>5, <1>7 DEF ServiceInv

(* Every step of the service keeps it.                                     *)
LEMMA ServiceKept ==
  ASSUME ServiceInv, [ServiceNext]_allVars
  PROVE  ServiceInv'
<1>1. PlaneInv'
  BY ServiceStepsPlane, PlaneKept DEF ServiceInv
<1> QED BY <1>1, BridgeKept, SecondKept, UnbegunKept, LatchedKept, OverKept, DownKept
        DEF ServiceInv

(***************************************************************************)
(* In every state of the service: the plane's invariant and its answers,   *)
(* the bridge's attempts, who latched, and what became of the core.        *)
(***************************************************************************)
THEOREM ServiceInvariance == ServiceSpec => []ServiceInv
<1>1. ServiceInit => ServiceInv
  BY ServiceAtFirst
<1>2. ServiceInv /\ [ServiceNext]_allVars => ServiceInv'
  BY ServiceKept
<1> QED BY <1>1, <1>2, PTL DEF ServiceSpec

(***************************************************************************)
(* CoreManagerService::shutdown returns with no transaction owned and no   *)
(* v1 call in flight, and it asks the control plane at most twice, for     *)
(* every number of attempts allowed, however long a transaction takes and  *)
(* whatever fails.                                                         *)
(***************************************************************************)
THEOREM TeardownIsQuiet == ServiceSpec => []TeardownInv
<1>1. ASSUME ServiceInv PROVE TeardownInv
  <2>1. ServiceTypeOK
    BY <1>1, ServiceAssumption DEF ServiceInv, PlaneInv, IInv, BridgeTyped, ServiceTypeOK
  <2>2. NothingBehindShutdown
    BY <1>1 DEF ServiceInv, PlaneInv, IInv, HostInv, Over, Latched, Holding, NothingBehindShutdown
  <2>3. AskedAtMostTwice
    BY <1>1 DEF ServiceInv, BridgeTyped, AskedAtMostTwice
  <2> QED BY <2>1, <2>2, <2>3 DEF TeardownInv
<1>2. ServiceInv => TeardownInv
  BY <1>1
<1> QED BY <1>2, ServiceInvariance, PTL

(***************************************************************************)
(* Where the host DNS restore cannot fail, the service is torn down only   *)
(* with the core stopped or given up, also when an attempt outlasts        *)
(* CORE_SHUTDOWN_TIMEOUT or the executor died.                             *)
(***************************************************************************)
THEOREM TeardownFindsCoreDown ==
  ASSUME ~RestoreMayFail
  PROVE  ServiceSpec => []CoreDownAtTeardown
<1>1. ServiceInv => CoreDownAtTeardown
  BY DEF ServiceInv, Down, CoreDownAtTeardown
<1> QED BY <1>1, ServiceInvariance, PTL

(***************************************************************************)
(* The same where the two paces are run side by side: while the manager's  *)
(* shutdown succeeds, the service is torn down only once the core is given *)
(* up, for every number of attempts and of callers around it.              *)
(***************************************************************************)
THEOREM CoreIsDownPromptly ==
  ASSUME ~RestoreMayFail
  PROVE  MCServiceSpec => []PromptlyDown
<1> DEFINE PromptInv == pace = "prompt" => ServiceInv
<1>1. MCServiceInit => PromptInv
  BY ServiceAtFirst DEF MCServiceInit
<1>2. PromptInv /\ [MCServiceNext]_<<pace, allVars>> => PromptInv'
  <2> SUFFICES ASSUME PromptInv, [MCServiceNext]_<<pace, allVars>>, pace' = "prompt"
               PROVE  ServiceInv'
    OBVIOUS
  <2>1. pace = "prompt" /\ [ServiceNext]_allVars
    BY DEF MCServiceNext, Prompt, Slowly
  <2> QED BY <2>1, ServiceKept
<1>3. PromptInv => PromptlyDown
  BY DEF ServiceInv, Down, CoreDownAtTeardown, PromptlyDown
<1> QED BY <1>1, <1>2, <1>3, PTL DEF MCServiceSpec
=============================================================================
