------------------------------ MODULE VcdSink ------------------------------
(***************************************************************************)
(* The dump sink of src/src/vcd_sink.rs: the simulation thread hands bytes *)
(* and time-slot records to a `VcdSink', which either formats them on the  *)
(* spot (Mode::Inline) or queues them for the "xezim-vcd" writer thread    *)
(* (Mode::Threaded).                                                       *)
(*                                                                         *)
(* Payloads are abstracted to their position in the caller's program       *)
(* order: the i-th byte or record the caller handed over is the number i.  *)
(* What a reader of the dump can tell apart is then exactly which numbers  *)
(* are in the file, and in which order.                                    *)
(***************************************************************************)
EXTENDS Naturals, Sequences, FiniteSets

CONSTANTS
  BatchFlush,       \* VCD_BATCH_FLUSH, in records
  CommitThreshold,  \* COMMIT_THRESHOLD, in bytes
  MaxWrite,         \* bound: bytes of one io::Write::write call
  MaxItems,         \* bound: bytes and records handed over in one behaviour
  MaxQueue          \* bound: messages queued when flush() is called

ASSUME VcdSinkAssumption ==
  /\ BatchFlush \in Nat \ {0}
  /\ CommitThreshold \in Nat \ {0}
  /\ MaxWrite \in Nat /\ MaxItems \in Nat /\ MaxQueue \in Nat

VARIABLES
  mode,       \* Mode::Inline or Mode::Threaded
  medium,     \* "faulty": a write to the file may fail (a full disk)
  dump,       \* which kind of dump the owner writes through this sink
  sink,       \* "open", "dropping" (inside Drop, joining) or "dropped"
  buf,        \* Mode::Threaded.buf
  pending,    \* Mode::Threaded.pending
  pendingXt,  \* Mode::Threaded.pending_xt
  chan,       \* the mpsc channel
  worker,     \* where the writer thread is
  hand,       \* records of the batch the writer thread is walking through
  held,       \* accepted by the BufWriter (and zstd encoder), not in the file
  file,       \* what the operating system has
  writer,     \* "closed" once the DumpWriter is dropped (.zst footer written)
  lost,       \* history: items dropped because a write to the file failed
  produced,   \* history: number of items handed over so far
  flushed     \* history: `produced' at the newest flush that was carried out

caller == <<mode, dump, medium>>
stage  == <<buf, pending, pendingXt>>
disk   == <<held, file, lost>>
vars   == <<mode, dump, medium, sink, buf, pending, pendingXt, chan, worker, hand,
            held, file, writer, lost, produced, flushed>>

\* WorkerMsg. `mark' is history: how much had been handed over at the send.
Msg ==
  [type : {"Chunk", "VcdBatch", "XtraceBatch"}, items : Seq(Nat) \ {<<>>}, mark : Nat]
    \cup [type : {"Flush", "Shutdown"}, items : {<<>>}, mark : Nat]
Message(t, s) == [type |-> t, items |-> s, mark |-> produced]

TypeOK ==
  /\ mode \in {"Inline", "Threaded"}
  /\ dump \in {"vcd", "xtrace"}
  /\ medium \in {"sound", "faulty"}
  /\ sink \in {"open", "dropping", "dropped"}
  /\ buf \in Seq(Nat) /\ pending \in Seq(Nat) /\ pendingXt \in Seq(Nat)
  /\ chan \in Seq(Msg)
  /\ worker \in {"recv", "batch", "exit", "done"}
  /\ hand \in Seq(Nat)
  /\ held \in Seq(Nat) /\ file \in Seq(Nat)
  /\ writer \in {"open", "closed"}
  /\ lost \in SUBSET Nat
  /\ produced \in Nat /\ flushed \in Nat

Init ==
  /\ mode \in {"Inline", "Threaded"}
  /\ dump \in {"vcd", "xtrace"}
  /\ medium \in {"sound", "faulty"}
  /\ sink = "open"
  /\ buf = <<>> /\ pending = <<>> /\ pendingXt = <<>>
  /\ chan = <<>>
  /\ worker = IF mode = "Threaded" THEN "recv" ELSE "done"
  /\ hand = <<>>
  /\ held = <<>> /\ file = <<>>
  /\ writer = "open"
  /\ lost = {}
  /\ produced = 0 /\ flushed = 0

(***************************************************************************)
(* The writer stack: BufWriter over a file or a streaming zstd encoder.    *)
(* It may pass on any prefix of what it holds whenever it is written to.   *)
(* A failing write loses the end of the data being written, never what the *)
(* BufWriter already held; every caller in vcd_sink.rs ignores the error.  *)
(***************************************************************************)
MayFail == medium = "faulty"

WriterAccept(items) ==
  LET all == held \o items
  IN \E kept \in Len(held)..Len(all) :
     \E out \in 0..kept :
       /\ kept = Len(all) \/ MayFail
       /\ file' = file \o SubSeq(all, 1, out)
       /\ held' = SubSeq(all, out + 1, kept)
       /\ lost' = lost \cup {all[i] : i \in kept + 1 .. Len(all)}

\* flush(): a failed flush keeps the unwritten rest in the BufWriter.
WriterFlush(mark) ==
  \E out \in 0..Len(held) :
    /\ out = Len(held) \/ MayFail
    /\ file' = file \o SubSeq(held, 1, out)
    /\ held' = SubSeq(held, out + 1, Len(held))
    /\ flushed' = IF out = Len(held) /\ mark > flushed THEN mark ELSE flushed
    /\ UNCHANGED lost

\* Dropping the BufWriter: a last flush, then the inner writer is finished.
WriterDrop ==
  \E out \in 0..Len(held) :
    /\ out = Len(held) \/ MayFail
    /\ file' = file \o SubSeq(held, 1, out)
    /\ held' = <<>>
    /\ lost' = lost \cup {held[i] : i \in out + 1 .. Len(held)}
    /\ writer' = "closed"
----------------------------------------------------------------------------
(***************************************************************************)
(* The simulation thread.  An mpsc send never blocks, so the sends of one  *)
(* call are one step: the receiver cannot influence what is sent.          *)
(***************************************************************************)
\* mutant: no is_empty() test
SendAlways(q, type, items) == Append(q, Message(type, items))

\* std::mem::replace / take, then tx.send, unless there is nothing to send
SendIf(q, type, items) ==
  IF items = <<>> THEN q ELSE Append(q, Message(type, items))

\* mutant: the buffer is taken and not sent
SendNothing(q) == q

SendChunk(q) == SendIf(q, "Chunk", buf)

\* fn dispatch_batches
DispatchBatches(q) ==
  SendIf(SendIf(q, "VcdBatch", pending), "XtraceBatch", pendingXt)

Full(batch) == Len(batch) >= BatchFlush

NewItems(n) == [i \in 1..n |-> produced + i]

\* mutant: raw bytes do not push the records posted before them
WriteUndispatched(n) ==
  /\ sink = "open"
  /\ produced + n <= MaxItems
  /\ produced' = produced + n
  /\ \/ /\ mode = "Threaded"
        /\ buf' = buf \o NewItems(n)
        /\ UNCHANGED <<pending, pendingXt, chan, disk>>
     \/ /\ mode = "Inline"
        /\ WriterAccept(NewItems(n))
        /\ UNCHANGED <<stage, chan>>
  /\ UNCHANGED <<caller, sink, worker, hand, writer, flushed>>

\* impl Write for VcdSink: fn write
Write(n) ==
  /\ sink = "open"
  /\ produced + n <= MaxItems
  /\ produced' = produced + n
  /\ \/ /\ mode = "Threaded"
        /\ chan' = DispatchBatches(chan)
        /\ pending' = <<>> /\ pendingXt' = <<>>
        /\ buf' = buf \o NewItems(n)
        /\ UNCHANGED disk
     \/ /\ mode = "Inline"
        /\ WriterAccept(NewItems(n))
        /\ UNCHANGED <<stage, chan>>
  /\ UNCHANGED <<caller, sink, worker, hand, writer, flushed>>

\* fn post_vcd_changes
PostVcdChanges ==
  LET batch == Append(pending, produced + 1)
  IN
  /\ sink = "open" /\ dump = "vcd"
  /\ produced < MaxItems
  /\ produced' = produced + 1
  /\ \/ /\ mode = "Threaded"
        /\ chan' = SendIf(SendChunk(chan), "VcdBatch",
                          IF Full(batch) THEN batch ELSE <<>>)
        /\ buf' = <<>>
        /\ pending' = IF Full(batch) THEN <<>> ELSE batch
        /\ UNCHANGED <<pendingXt, disk>>
     \/ /\ mode = "Inline"
        /\ WriterAccept(<<produced + 1>>)
        /\ UNCHANGED <<stage, chan>>
  /\ UNCHANGED <<caller, sink, worker, hand, writer, flushed>>

\* fn post_xtrace_changes
PostXtraceChanges ==
  LET batch == Append(pendingXt, produced + 1)
  IN
  /\ sink = "open" /\ dump = "xtrace"
  /\ produced < MaxItems
  /\ produced' = produced + 1
  /\ \/ /\ mode = "Threaded"
        /\ chan' = SendIf(SendChunk(chan), "XtraceBatch",
                          IF Full(batch) THEN batch ELSE <<>>)
        /\ buf' = <<>>
        /\ pendingXt' = IF Full(batch) THEN <<>> ELSE batch
        /\ UNCHANGED <<pending, disk>>
     \/ /\ mode = "Inline"
        /\ WriterAccept(<<produced + 1>>)
        /\ UNCHANGED <<stage, chan>>
  /\ UNCHANGED <<caller, sink, worker, hand, writer, flushed>>

\* fn commit: every hand-over is gated by its threshold
Over(s, threshold) == IF Len(s) >= threshold THEN s ELSE <<>>
Under(s, threshold) == IF Len(s) >= threshold THEN <<>> ELSE s

Commit ==
  /\ sink = "open"
  /\ \/ /\ mode = "Threaded"
        /\ chan' = SendIf(SendIf(SendIf(chan,
                            "Chunk", Over(buf, CommitThreshold)),
                            "VcdBatch", Over(pending, BatchFlush)),
                            "XtraceBatch", Over(pendingXt, BatchFlush))
        /\ buf' = Under(buf, CommitThreshold)
        /\ pending' = Under(pending, BatchFlush)
        /\ pendingXt' = Under(pendingXt, BatchFlush)
     \/ /\ mode = "Inline"
        /\ UNCHANGED <<stage, chan>>
  /\ UNCHANGED <<caller, sink, worker, hand, disk, writer, produced, flushed>>

\* mutant: the request is queued ahead of what it is about
FlushFirst ==
  /\ sink = "open"
  /\ Len(chan) <= MaxQueue
  /\ \/ /\ mode = "Threaded"
        /\ chan' = DispatchBatches(SendChunk(Append(chan, Message("Flush", <<>>))))
        /\ buf' = <<>> /\ pending' = <<>> /\ pendingXt' = <<>>
        /\ UNCHANGED <<disk, flushed>>
     \/ /\ mode = "Inline"
        /\ WriterFlush(produced)
        /\ UNCHANGED <<stage, chan>>
  /\ UNCHANGED <<caller, sink, worker, hand, writer, produced>>

\* impl Write for VcdSink: fn flush.  In threaded mode it only asks for it.
Flush ==
  /\ sink = "open"
  /\ Len(chan) <= MaxQueue
  /\ \/ /\ mode = "Threaded"
        /\ chan' = Append(DispatchBatches(SendChunk(chan)), Message("Flush", <<>>))
        /\ buf' = <<>> /\ pending' = <<>> /\ pendingXt' = <<>>
        /\ UNCHANGED <<disk, flushed>>
     \/ /\ mode = "Inline"
        /\ WriterFlush(produced)
        /\ UNCHANGED <<stage, chan>>
  /\ UNCHANGED <<caller, sink, worker, hand, writer, produced>>

\* impl Drop for VcdSink up to the join; an inline sink just drops its writer
Drop ==
  /\ sink = "open"
  /\ \/ /\ mode = "Threaded"
        /\ chan' = Append(DispatchBatches(SendChunk(chan)), Message("Shutdown", <<>>))
        /\ buf' = <<>> /\ pending' = <<>> /\ pendingXt' = <<>>
        /\ sink' = "dropping"
        /\ UNCHANGED <<disk, writer>>
     \/ /\ mode = "Inline"
        /\ WriterDrop
        /\ sink' = "dropped"
        /\ UNCHANGED <<stage, chan>>
  /\ UNCHANGED <<caller, worker, hand, produced, flushed>>

\* h.join() returns once the writer thread has ended
Join ==
  /\ sink = "dropping"
  /\ worker = "done"
  /\ sink' = "dropped"
  /\ UNCHANGED <<caller, stage, chan, worker, hand, disk, writer, produced,
                 flushed>>
----------------------------------------------------------------------------
(***************************************************************************)
(* The writer thread: the closure spawned by fn threaded.                  *)
(***************************************************************************)
\* mutant: a failed write ends the loop
WorkerChunkQuits ==
  /\ worker = "recv" /\ chan # <<>>
  /\ Head(chan).type = "Chunk"
  /\ chan' = Tail(chan)
  /\ WriterAccept(Head(chan).items)
  /\ worker' = IF lost' = lost THEN "recv" ELSE "exit"
  /\ UNCHANGED <<caller, sink, stage, hand, writer, produced, flushed>>

WorkerChunk ==
  /\ worker = "recv" /\ chan # <<>>
  /\ Head(chan).type = "Chunk"
  /\ chan' = Tail(chan)
  /\ WriterAccept(Head(chan).items)
  /\ UNCHANGED <<caller, sink, stage, worker, hand, writer, produced, flushed>>

WorkerBatch ==
  /\ worker = "recv" /\ chan # <<>>
  /\ Head(chan).type \in {"VcdBatch", "XtraceBatch"}
  /\ chan' = Tail(chan)
  /\ hand' = Head(chan).items
  /\ worker' = "batch"
  /\ UNCHANGED <<caller, sink, stage, disk, writer, produced, flushed>>

\* one turn of `for ts in &batch'
WorkerRecord ==
  /\ worker = "batch" /\ hand # <<>>
  /\ WriterAccept(<<Head(hand)>>)
  /\ hand' = Tail(hand)
  /\ UNCHANGED <<caller, sink, stage, chan, worker, writer, produced, flushed>>

WorkerBatchEnd ==
  /\ worker = "batch" /\ hand = <<>>
  /\ worker' = "recv"
  /\ UNCHANGED <<caller, sink, stage, chan, hand, disk, writer, produced,
                 flushed>>

\* mutant: the request is taken from the queue and forgotten
WorkerFlushForgets ==
  /\ worker = "recv" /\ chan # <<>>
  /\ Head(chan).type = "Flush"
  /\ chan' = Tail(chan)
  /\ UNCHANGED <<caller, sink, stage, worker, hand, disk, writer, produced,
                 flushed>>

WorkerFlush ==
  /\ worker = "recv" /\ chan # <<>>
  /\ Head(chan).type = "Flush"
  /\ chan' = Tail(chan)
  /\ WriterFlush(Head(chan).mark)
  /\ UNCHANGED <<caller, sink, stage, worker, hand, writer, produced>>

\* mutant: the loop goes on
WorkerShutdownIgnored ==
  /\ worker = "recv" /\ chan # <<>>
  /\ Head(chan).type = "Shutdown"
  /\ chan' = Tail(chan)
  /\ UNCHANGED <<caller, sink, stage, worker, hand, disk, writer, produced,
                 flushed>>

WorkerShutdown ==
  /\ worker = "recv" /\ chan # <<>>
  /\ Head(chan).type = "Shutdown"
  /\ chan' = Tail(chan)
  /\ worker' = "exit"
  /\ UNCHANGED <<caller, sink, stage, hand, disk, writer, produced, flushed>>

\* after the loop: the final flush and the drop of the BufWriter
WorkerExit ==
  /\ worker = "exit"
  /\ WriterDrop
  /\ worker' = "done"
  /\ UNCHANGED <<caller, sink, stage, chan, hand, produced, flushed>>
----------------------------------------------------------------------------
Worker == \/ WorkerChunk \/ WorkerBatch \/ WorkerRecord \/ WorkerBatchEnd
          \/ WorkerFlush \/ WorkerShutdown \/ WorkerExit

Terminated == sink = "dropped" /\ UNCHANGED vars

Next ==
  \/ \E n \in 1..MaxWrite : Write(n)
  \/ PostVcdChanges
  \/ PostXtraceChanges
  \/ Commit
  \/ Flush
  \/ Drop
  \/ Join
  \/ Worker
  \/ Terminated

Spec == Init /\ [][Next]_vars

\* Threads that can run do run; nothing makes the simulation call the sink.
FairSpec == Spec /\ WF_vars(Worker) /\ WF_vars(Join)
----------------------------------------------------------------------------
(***************************************************************************)
(* Properties.                                                             *)
(***************************************************************************)
Items(s) == {s[i] : i \in DOMAIN s}
QueueItems(q) == UNION {Items(q[k].items) : k \in DOMAIN q}
Staged == buf \o pending \o pendingXt

Increasing(s) == \A i, j \in DOMAIN s : i < j => s[i] < s[j]
Precedes(S, T) == \A x \in S, y \in T : x < y

QueueOrder(q) ==
  \A k \in DOMAIN q :
    /\ Increasing(q[k].items)
    /\ \A l \in DOMAIN q : k < l => Precedes(Items(q[k].items), Items(q[l].items))

\* From the file back to the staging buffers: f, h, d, the queue q, then t.
Ordered(f, h, d, q, t) ==
  /\ Increasing(f) /\ Increasing(h) /\ Increasing(d) /\ Increasing(t)
  /\ QueueOrder(q)
  /\ Precedes(Items(f), Items(h) \cup Items(d) \cup QueueItems(q) \cup Items(t))
  /\ Precedes(Items(h), Items(d) \cup QueueItems(q) \cup Items(t))
  /\ Precedes(Items(d), QueueItems(q) \cup Items(t))
  /\ Precedes(QueueItems(q), Items(t))

(***************************************************************************)
(* StreamOrder: at every moment the items on their way to the disk are in  *)
(* program order from the file back to the staging buffers - so a header   *)
(* or footer written through io::Write never overtakes records posted      *)
(* earlier, nor the reverse (the comment on dispatch_batches), whatever    *)
(* the two threads and the disk do.                                        *)
(***************************************************************************)
StreamOrder == Ordered(file, held, hand, chan, Staged)

(***************************************************************************)
(* OneStage: raw bytes and records are never staged at the same time, the  *)
(* reason why Flush, Commit and Drop may send `buf' before the batches.    *)
(***************************************************************************)
OneStage ==
  /\ buf # <<>> => pending = <<>> /\ pendingXt = <<>>
  /\ pending # <<>> => pendingXt = <<>>

(***************************************************************************)
(* StreamIntact: everything handed over is in the file, in a buffer on its *)
(* way there, or was dropped by a failed write: no call forgets anything,  *)
(* and nothing reaches the file that was not handed over.                  *)
(***************************************************************************)
StreamIntact ==
  /\ Items(file) \cup Items(held) \cup Items(hand) \cup QueueItems(chan)
       \cup Items(Staged) \cup lost = 1..produced
  /\ ~MayFail => lost = {}

(***************************************************************************)
(* FlushReaches: once the flush asked for by flush() has been carried out, *)
(* a crash cannot lose anything handed over before that flush() call.      *)
(***************************************************************************)
FlushReaches == 1..flushed \subseteq Items(file) \cup lost

(***************************************************************************)
(* FlushCompletes: a flush that was asked for is eventually carried out,   *)
(* although flush() itself does not wait for the writer thread, if the     *)
(* disk accepts what is written to it.                                     *)
(***************************************************************************)
FlushQueued(m) ==
  \E k \in DOMAIN chan : chan[k].type = "Flush" /\ chan[k].mark = m

FlushCompletes ==
  \A m \in 1..MaxItems :
    (FlushQueued(m) /\ ~MayFail) ~> (flushed >= m)

(***************************************************************************)
(* DropReturns: Drop is never stuck in join(): the Shutdown it sends       *)
(* reaches the writer thread behind whatever is still queued.              *)
(***************************************************************************)
DropReturns == (sink = "dropping") ~> (sink = "dropped")

(***************************************************************************)
(* Implements: the sink, with its threads and buffers, is a DumpStream     *)
(* that is closed when Drop returns: the whole dump is then in the file.   *)
(***************************************************************************)
Stream == INSTANCE DumpStream WITH
            accepted <- produced, dropped <- lost, out <- file,
            closed <- (sink = "dropped")
Implements == Stream!Spec
=============================================================================
