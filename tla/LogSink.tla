------------------------------- MODULE LogSink -------------------------------
(***************************************************************************)
(* The archive of core logs (log_sink.rs): a writer task takes frames from *)
(* a broadcast ring in batches and appends them to numbered files that it  *)
(* rotates and prunes.  A frame is its number since the start of the run,  *)
(* a size is a number of units, and a directory maps file numbers to their *)
(* records.  Serialisation does not fail (every frame is plain data).      *)
(***************************************************************************)
EXTENDS Naturals, Sequences, FiniteSets, FiniteSetsExt, Functions

CONSTANTS
  RingCapacity,    \* capacity of the log broadcast
  MaxBatch,        \* MAX_BATCH_RECORDS
  MaxBytes,        \* SinkOptions::max_bytes
  MaxFiles,        \* SinkOptions::max_files
  FrameSize,       \* size of a log record at most; a gap record has size 1
  MaxFrames,       \* bound: frames of a run
  MaxRuns,         \* bound: runs of the daemon
  MaxDiskFaults    \* bound: failures of the disk

ASSUME SinkAssumption ==
  /\ {RingCapacity, MaxBatch, MaxBytes, MaxFiles, FrameSize, MaxRuns} \subseteq Nat \ {0}
  /\ {MaxFrames, MaxDiskFaults} \subseteq Nat

VARIABLES
  run,     \* run of the daemon
  ring,    \* sent frames, position of the receiver, senders gone
  sink,    \* the writer task
  dir,     \* files of the directory
  halt,    \* SinkHandle::shutdown: caller, and frames sent before the cancel
  diskFaults, \* failures of the disk so far
  gone     \* ghost: frames of this run whose records the disk lost

kvars == <<run, ring, sink, dir, halt, diskFaults, gone>>

LogRecord(lo, hi) == [run |-> run, lo |-> lo, hi |-> hi, gap |-> FALSE, torn |-> FALSE]
Size(e) == IF e.gap THEN 1 ELSE FrameSize

(* The frames that whole records stand for.                                *)
Frames(es) == UNION {es[i].lo .. es[i].hi : i \in {j \in DOMAIN es : ~es[j].torn}}

(* `size` is the length of a file, `bytes` that of the buffer, `written`   *)
(* what the writer takes the length of its file to be.                     *)
NoFile == [recs |-> <<>>, size |-> 0, over |-> FALSE]
NoSink == [phase |-> "none", batch |-> <<>>, buffer |-> <<>>, bytes |-> 0, written |-> 0, seq |-> 0,
           last |-> FALSE]

(***************************************************************************)
(* The directory                                                           *)
(***************************************************************************)
Seqs == DOMAIN dir

(* next_seq                                                                *)
NextSeq(seqs) == IF seqs = {} THEN 1 ELSE Max(seqs) + 1

(* prune_targets: everything but the newest `keep`.                        *)
PruneTargets(seqs, keep) == {s \in seqs : Cardinality({t \in seqs : t > s}) >= keep}

(* prune_dir: what is to be deleted.                                       *)
Prunable(seqs, keep, protect) == PruneTargets(seqs, keep) \ {protect}

Cost(ok) == (ok \/ diskFaults < MaxDiskFaults) /\ diskFaults' = IF ok THEN diskFaults ELSE diskFaults + 1

(* remove_file of each target; a failure is skipped.                       *)
Remaining(files, keep, protect, ok) ==
  IF ok THEN Restrict(files, DOMAIN files \ Prunable(DOMAIN files, keep, protect)) ELSE files

(* open_append of a number that is new.                                    *)
WithFile(files, s) == [t \in DOMAIN files \union {s} |-> IF t = s THEN NoFile ELSE files[t]]

InRun(files, r) == {s \in DOMAIN files : files[s].recs # <<>> /\ files[s].recs[1].run = r}
Pruned(before, after) == UNION {Frames(before[s].recs) : s \in InRun(before, run) \ DOMAIN after}

SinkInit ==
  /\ run = 1 /\ dir = <<>> /\ diskFaults = 0 /\ gone = {} /\ sink = NoSink
  /\ ring = [sent |-> 0, pos |-> 0, closed |-> FALSE] /\ halt = [phase |-> "none", due |-> 0]

(* Writer::open and spawn: a new file for every run.                       *)
Open(ok) ==
  /\ sink.phase = "none" /\ halt.phase = "none" /\ Cost(ok)
  /\ LET s == NextSeq(Seqs) IN
     /\ dir' = WithFile(Remaining(dir, MaxFiles - 1, 0, ok), s)
     /\ sink' = [NoSink EXCEPT !.phase = "select", !.seq = s]
  /\ UNCHANGED <<run, ring, halt, gone>>

(***************************************************************************)
(* The ring                                                                *)
(***************************************************************************)
(* publish_log_frame: the broadcast never waits for a receiver.            *)
SendFrame ==
  /\ sink.phase # "none" /\ ~ring.closed /\ ring.sent < MaxFrames
  /\ ring' = [ring EXCEPT !.sent = @ + 1] /\ UNCHANGED <<run, sink, dir, halt, diskFaults, gone>>

(* The manager is dropped without shutdown.                                *)
CloseRing ==
  /\ sink.phase # "none" /\ ~ring.closed /\ halt.phase = "none"
  /\ ring' = [ring EXCEPT !.closed = TRUE] /\ UNCHANGED <<run, sink, dir, halt, diskFaults, gone>>

(* What recv answers: a frame, how many were missed, Empty or Closed.      *)
Received ==
  LET oldest == IF ring.sent > RingCapacity THEN ring.sent - RingCapacity ELSE 0 IN
  IF ring.pos < oldest THEN <<[LogRecord(ring.pos + 1, oldest) EXCEPT !.gap = TRUE]>>
  ELSE IF ring.pos < ring.sent THEN <<LogRecord(ring.pos + 1, ring.pos + 1)>> ELSE <<>>

Take(s) ==
  /\ Received # <<>>
  /\ sink' = [s EXCEPT !.batch = @ \o Received]
  /\ ring' = [ring EXCEPT !.pos = Received[1].hi]

(***************************************************************************)
(* run                                                                     *)
(***************************************************************************)
(* The arm of recv: a first frame or gap, or the end of the channel.       *)
SelectRecv ==
  /\ sink.phase = "select"
  /\ \/ Take([sink EXCEPT !.phase = "drain"])
     \/ /\ Received = <<>> /\ ring.closed
        /\ sink' = [sink EXCEPT !.phase = "done"] /\ UNCHANGED ring
  /\ UNCHANGED <<run, dir, halt, diskFaults, gone>>

(* The arm of the token, taken whether or not frames wait.                 *)
SelectCancelled ==
  /\ sink.phase = "select" /\ halt.phase # "none"
  /\ sink' = [sink EXCEPT !.phase = "lastDrain"]
  /\ UNCHANGED <<run, ring, dir, halt, diskFaults, gone>>

(* drain ends: the batch is full, or the ring is empty or closed.          *)
Drained ==
  /\ sink.phase \in {"drain", "lastDrain"}
  /\ Len(sink.batch) = MaxBatch \/ Received = <<>>
  /\ LET full == Len(sink.batch) = MaxBatch IN
     sink' = [sink EXCEPT !.phase = "write",
                          !.last = ~full /\ (ring.closed \/ sink.phase = "lastDrain")]
  /\ UNCHANGED <<run, ring, dir, halt, diskFaults, gone>>

(* drain: one try_recv.                                                    *)
DrainTakes ==
  /\ sink.phase \in {"drain", "lastDrain"} /\ Len(sink.batch) < MaxBatch
  /\ Take(sink) /\ UNCHANGED <<run, dir, halt, diskFaults, gone>>

(***************************************************************************)
(* Writer::write                                                           *)
(***************************************************************************)
IsFull == sink.written + sink.bytes >= MaxBytes

(* The next record of the batch joins the buffer.                          *)
Buffered(s) ==
  [s EXCEPT !.buffer = Append(@, Head(s.batch)), !.bytes = @ + Size(Head(s.batch)), !.batch = Tail(@)]

WriteRecord ==
  /\ sink.phase = "write" /\ sink.batch # <<>> /\ ~IsFull
  /\ sink' = Buffered(sink) /\ UNCHANGED <<run, ring, dir, halt, diskFaults, gone>>

(* The record would land past the limit: flush and rotate before it.       *)
WriteFull ==
  /\ sink.phase = "write" /\ sink.batch # <<>> /\ IsFull
  /\ sink' = [sink EXCEPT !.phase = "flushThenRotate"]
  /\ UNCHANGED <<run, ring, dir, halt, diskFaults, gone>>

WriteEnds ==
  /\ sink.phase = "write" /\ sink.batch = <<>>
  /\ sink' = [sink EXCEPT !.phase = "flush"] /\ UNCHANGED <<run, ring, dir, halt, diskFaults, gone>>

AfterFlush(s) ==
  [s EXCEPT !.buffer = <<>>, !.bytes = 0,
            !.phase = IF s.phase = "flushThenRotate" THEN "prune"
                      ELSE IF s.last THEN "done" ELSE "select"]

(* Records that a cut write leaves: some whole ones and half of the next.  *)
Cut(es, n) == Append(SubSeq(es, 1, n), [es[n + 1] EXCEPT !.torn = TRUE])

(* The length of a file whose last write was cut is counted as if it had   *)
(* not been: no file is longer than that.                                  *)
AppendedTo(s, es, len, over) ==
  [dir EXCEPT ![s] = [recs |-> @.recs \o es, size |-> @.size + len, over |-> @.over \/ over]]

(* Mutant: the buffer is written and kept.                                 *)
FlushPendingKeeps ==
  /\ sink.phase \in {"flush", "flushThenRotate"}
  /\ sink' = [AfterFlush(sink) EXCEPT !.written = @ + sink.bytes, !.buffer = sink.buffer, !.bytes = sink.bytes]
  /\ dir' = AppendedTo(sink.seq, sink.buffer, sink.bytes, FALSE)
  /\ UNCHANGED <<run, ring, halt, diskFaults, gone>>

(* flush_pending; an empty buffer touches nothing.                         *)
FlushPending ==
  /\ sink.phase \in {"flush", "flushThenRotate"}
  /\ sink' = [AfterFlush(sink) EXCEPT !.written = @ + sink.bytes]
  /\ dir' = AppendedTo(sink.seq, sink.buffer, sink.bytes, FALSE)
  /\ UNCHANGED <<run, ring, halt, diskFaults, gone>>

(* write_all fails, or flush does: the records are dropped, and a failed   *)
(* flush still counts them; a part may have reached the file.              *)
FlushFails ==
  /\ sink.phase \in {"flush", "flushThenRotate"} /\ sink.buffer # <<>> /\ Cost(FALSE)
  /\ \E counted \in {0, sink.bytes} :
       sink' = [AfterFlush(sink) EXCEPT !.written = @ + counted]
  /\ \/ /\ dir' = AppendedTo(sink.seq, <<>>, 0, TRUE) /\ gone' = gone \union Frames(sink.buffer)
     \/ \E n \in 0..(Len(sink.buffer) - 1) :
          /\ dir' = AppendedTo(sink.seq, Cut(sink.buffer, n), sink.bytes, TRUE)
          /\ gone' = gone \union Frames(SubSeq(sink.buffer, n + 1, Len(sink.buffer)))
  /\ UNCHANGED <<run, ring, halt>>

(* rotate, first half: room for the new file.                              *)
RotatePrunes(ok) ==
  /\ sink.phase = "prune" /\ Cost(ok)
  /\ dir' = Remaining(dir, MaxFiles - 1, sink.seq, ok)
  /\ gone' = gone \union Pruned(dir, dir')
  /\ sink' = [sink EXCEPT !.phase = "create"] /\ UNCHANGED <<run, ring, halt>>

(* rotate: the new file is the active one, and the old ones converge.      *)
RotateCreates(ok) ==
  /\ sink.phase = "create" /\ Cost(ok)
  /\ dir' = Remaining(WithFile(dir, sink.seq + 1), MaxFiles, sink.seq + 1, ok)
  /\ gone' = gone \union Pruned(dir, dir')
  /\ sink' = Buffered([sink EXCEPT !.phase = "write", !.seq = @ + 1, !.written = 0])
  /\ UNCHANGED <<run, ring, halt>>

(* rotate: the file cannot be created; the old one takes the record too.   *)
RotateFails ==
  /\ sink.phase = "create" /\ Cost(FALSE)
  /\ dir' = AppendedTo(sink.seq, <<>>, 0, TRUE)
  /\ sink' = Buffered([sink EXCEPT !.phase = "write"]) /\ UNCHANGED <<run, ring, halt, gone>>

(***************************************************************************)
(* Shutdown, crash                                                         *)
(***************************************************************************)
ShutdownCancels ==
  /\ sink.phase # "none" /\ halt.phase = "none" /\ ~ring.closed
  /\ halt' = [phase |-> "waiting", due |-> ring.sent]
  /\ UNCHANGED <<run, ring, sink, dir, diskFaults, gone>>

ShutdownReturns ==
  /\ halt.phase = "waiting" /\ sink.phase = "done"
  /\ halt' = [halt EXCEPT !.phase = "returned"] /\ UNCHANGED <<run, ring, sink, dir, diskFaults, gone>>

(* What is left of a writer cut off in the middle of a flush.              *)
CutOff ==
  \/ UNCHANGED dir
  \/ /\ sink.phase \in {"flush", "flushThenRotate"}
     /\ \E n \in 0..(Len(sink.buffer) - 1) : dir' = AppendedTo(sink.seq, Cut(sink.buffer, n), sink.bytes, FALSE)

(* Five seconds are over: the writer is aborted.                           *)
ShutdownAborts ==
  /\ halt.phase = "waiting" /\ sink.phase # "done"
  /\ halt' = [halt EXCEPT !.phase = "returned"] /\ sink' = [sink EXCEPT !.phase = "aborted"]
  /\ CutOff /\ UNCHANGED <<run, ring, diskFaults, gone>>

(* The daemon ends, by a crash or after its shutdown, and starts again.    *)
NextRun ==
  /\ run < MaxRuns /\ sink.phase # "none" /\ run' = run + 1
  /\ \/ sink.phase \in {"done", "aborted"} /\ UNCHANGED dir
     \/ sink.phase \notin {"done", "aborted"} /\ CutOff
  /\ ring' = [sent |-> 0, pos |-> 0, closed |-> FALSE] /\ halt' = [phase |-> "none", due |-> 0]
  /\ sink' = NoSink /\ gone' = {} /\ UNCHANGED diskFaults

WriterStep ==
  \/ SelectRecv \/ SelectCancelled \/ DrainTakes \/ Drained \/ WriteRecord \/ WriteFull \/ WriteEnds
  \/ FlushPending \/ FlushFails \/ RotateFails
  \/ \E ok \in BOOLEAN : RotatePrunes(ok) \/ RotateCreates(ok)

SinkNext ==
  \/ \E ok \in BOOLEAN : Open(ok)
  \/ SendFrame \/ CloseRing \/ WriterStep
  \/ ShutdownCancels \/ ShutdownReturns \/ ShutdownAborts \/ NextRun

SinkSpec == SinkInit /\ [][SinkNext]_kvars

(***************************************************************************)
(* Properties                                                              *)
(***************************************************************************)
(* Types; a batch never outgrows MAX_BATCH_RECORDS (drain).                *)
SinkTypeOK ==
  /\ run \in 1..MaxRuns /\ ring.pos <= ring.sent /\ Len(sink.batch) <= MaxBatch
  /\ Len(sink.buffer) <= MaxBatch /\ diskFaults \in 0..MaxDiskFaults
  /\ sink.phase \in {"none", "select", "drain", "lastDrain", "write", "flush", "flushThenRotate",
                     "prune", "create", "done", "aborted"}

OnDisk(r) == UNION {Frames(dir[s].recs) : s \in InRun(dir, r)}

(* Whole records whose frames follow each other: none twice.               *)
InOrder(es) ==
  \A i, j \in DOMAIN es : (i < j /\ ~es[i].torn /\ ~es[j].torn) => es[i].hi < es[j].lo

(* Every frame the receiver passed is on disk, counted by a gap on disk,   *)
(* still with the writer, or lost to the disk, and none is there twice: a  *)
(* lag is a visible hole, no batch is written twice, and the files of a    *)
(* run, read by number, have the frames in order (run, drain, rotate).     *)
HolesVisible ==
  sink.phase \notin {"none", "aborted"} =>
    LET queued == Frames(sink.buffer) \union Frames(sink.batch)
        files == InRun(dir, run) IN
    /\ OnDisk(run) \union gone \union queued = 1 .. ring.pos
    /\ OnDisk(run) \intersect gone = {} /\ (OnDisk(run) \union gone) \intersect queued = {}
    /\ InOrder(sink.buffer \o sink.batch) /\ \A s \in files : InOrder(dir[s].recs)
    /\ \A s, t \in files : s < t =>
         \A x \in Frames(dir[s].recs), y \in Frames(dir[t].recs) : x < y

(* A file holds the records of one run, in order, and only its last record *)
(* can be torn, unless a write to it failed and the writer went on (open:  *)
(* a new file for every run, because a crash may tear the last line).      *)
FilesWhole ==
  \A s \in Seqs : \A i \in 1..(Len(dir[s].recs) - 1) :
    LET e == dir[s].recs[i]
        f == dir[s].recs[i + 1] IN
    e.run = f.run /\ (dir[s].over \/ (~e.torn /\ f.lo = e.hi + 1))

(* The active file exists, whatever rotation prunes and whichever of its   *)
(* deletes fail; and without disk faults the directory keeps its budget,   *)
(* but for the moment in which the old and the new file coexist (rotate).  *)
Retained ==
  /\ sink.phase # "none" => sink.seq \in Seqs
  /\ diskFaults = 0 => Cardinality(Seqs) <= MaxFiles

(* No file grows more than one record past the limit while rollover and    *)
(* writes succeed, also when a burst arrives as one batch (Writer::write). *)
FileBounded == \A s \in Seqs : ~dir[s].over => dir[s].size < MaxBytes + FrameSize

(* A writer that ended by itself has taken everything that was sent before *)
(* the shutdown, more than one batch too (run, the arm of the token).      *)
DrainedAtShutdown ==
  (sink.phase = "done" /\ halt.phase # "none") => ring.pos >= halt.due

=============================================================================
