----------------------------- MODULE StdoutSink -----------------------------
(***************************************************************************)
(* The $display / $write sink of src/src/stdout_sink.rs and its writer     *)
(* thread "xezim-stdout".  As in VcdSink the i-th byte handed over is the  *)
(* number i.  A newline is a byte like any other, so the bytes of one      *)
(* writeln_str call are remembered in `glued': i is in it when bytes i and *)
(* i + 1 belong to the same such call.                                     *)
(*                                                                         *)
(* Under --log stdout and stderr are the same file, and the simulation     *)
(* thread also writes diagnostics to it directly, past this sink.          *)
(***************************************************************************)
EXTENDS Naturals, Sequences

CONSTANTS
  FlushThreshold,  \* FLUSH_THRESHOLD, in bytes
  MaxText,         \* bound: bytes of one message
  MaxBytes,        \* bound: bytes handed over in one behaviour
  MaxQueue         \* bound: messages queued when a barrier is sent

ASSUME StdoutSinkAssumption ==
  /\ FlushThreshold \in Nat \ {0}
  /\ MaxText \in Nat /\ MaxBytes \in Nat /\ MaxQueue \in Nat

VARIABLES
  mode,      \* Mode::Inline or Mode::Threaded
  caller,    \* "run", "sync" (in ack_rx.recv), "join" (in Drop), "dropped"
  buf,       \* Mode::Threaded.buf
  clock,     \* "stale": last_dispatch is LINE_FLUSH_MAX_DELAY or more ago
  chan,      \* the Msg channel
  recycle,   \* the channel of emptied buffers
  ack,       \* "sent": the barrier's answer is waiting for the caller
  worker,    \* where run_threaded_writer is
  acks,      \* barriers it has taken and not answered
  held,      \* in the BufWriter
  file,      \* what the operating system has of this sink's output
  produced,  \* history: number of bytes handed over
  glued,     \* history: see above
  synced,    \* history: `produced' at the newest sync() that returned
  diags      \* history: the places in `file' where a diagnostic went in

output == <<held, file>>
hist   == <<produced, glued>>
vars   == <<mode, caller, buf, clock, chan, recycle, ack, worker, acks, held,
            file, produced, glued, synced, diags>>

Msg == [type : {"Chunk"}, bytes : Seq(Nat) \ {<<>>}]
         \cup [type : {"Sync", "Shutdown"}, bytes : {<<>>}]
Message(t, s) == [type |-> t, bytes |-> s]

TypeOK ==
  /\ mode \in {"Inline", "Threaded"}
  /\ caller \in {"run", "sync", "join", "dropped"}
  /\ buf \in Seq(Nat)
  /\ clock \in {"fresh", "stale"}
  /\ chan \in Seq(Msg)
  /\ recycle \in Seq(Seq(Nat))
  /\ ack \in {"none", "sent"}
  /\ worker \in {"recv", "drain", "flush", "flushStop", "ack", "ackStop",
                 "exit", "done"}
  /\ acks \in Nat
  /\ held \in Seq(Nat) /\ file \in Seq(Nat)
  /\ produced \in Nat /\ synced \in Nat
  /\ glued \in SUBSET Nat /\ diags \in SUBSET Nat

Init ==
  /\ mode \in {"Inline", "Threaded"}
  /\ caller = "run"
  /\ buf = <<>>
  /\ clock = "fresh"
  /\ chan = <<>> /\ recycle = <<>>
  /\ ack = "none"
  /\ worker = IF mode = "Threaded" THEN "recv" ELSE "done"
  /\ acks = 0
  /\ held = <<>> /\ file = <<>>
  /\ produced = 0 /\ synced = 0
  /\ glued = {} /\ diags = {}

(***************************************************************************)
(* BufWriter<Stdout>.  write_all keeps the bytes, or first passes on what  *)
(* it holds, or passes on everything; the file only ever ends at the end   *)
(* of one write_all (Stdout's own line buffering cuts after a newline).    *)
(***************************************************************************)
WriterAccept(bytes) ==
  \/ file' = file                   /\ held' = held \o bytes
  \/ file' = file \o held           /\ held' = bytes
  \/ file' = file \o held \o bytes  /\ held' = <<>>

WriterFlush == file' = file \o held /\ held' = <<>>

\* Vec::clear
Clear(bytes) == <<>>
----------------------------------------------------------------------------
(* The simulation thread. *)

\* fn fresh_buf: a recycled buffer, cleared, or a new one
FreshBuf == IF recycle = <<>> THEN <<>> ELSE Clear(Head(recycle))
TakeRecycled == IF recycle = <<>> THEN <<>> ELSE Tail(recycle)

\* mutant: the bytes sent stay in the buffer
DispatchKeeps(bytes) ==
  /\ chan' = Append(chan, Message("Chunk", bytes))
  /\ buf' = bytes
  /\ recycle' = TakeRecycled
  /\ clock' = "fresh"

\* Hand `bytes' to the writer thread (Msg::Chunk) and start a fresh buffer.
Dispatch(bytes) ==
  /\ chan' = Append(chan, Message("Chunk", bytes))
  /\ buf' = FreshBuf
  /\ recycle' = TakeRecycled
  /\ clock' = "fresh"

Keep(bytes) ==
  /\ buf' = bytes
  /\ UNCHANGED <<chan, recycle, clock>>

NewBytes(n) == [i \in 1..n |-> produced + i]

\* fn write_str, fn write_bytes
WriteStr(n) ==
  LET bytes == buf \o NewBytes(n)
  IN
  /\ caller = "run"
  /\ produced + n <= MaxBytes
  /\ produced' = produced + n
  /\ IF mode = "Inline"
     THEN WriterAccept(NewBytes(n)) /\ UNCHANGED <<buf, chan, recycle, clock>>
     ELSE /\ IF Len(bytes) >= FlushThreshold THEN Dispatch(bytes) ELSE Keep(bytes)
          /\ UNCHANGED output
  /\ UNCHANGED <<mode, caller, ack, worker, acks, glued, synced, diags>>

\* mutant: the text and its newline are dispatched separately
WritelnTwice(n) ==
  LET text == buf \o NewBytes(n)
      newline == produced + n + 1
  IN
  /\ caller = "run"
  /\ produced + n + 1 <= MaxBytes
  /\ produced' = produced + n + 1
  /\ glued' = glued \cup (produced + 1 .. produced + n)
  /\ IF mode = "Inline"
     THEN /\ file' = file \o held \o NewBytes(n + 1) /\ held' = <<>>
          /\ UNCHANGED <<buf, chan, recycle, clock>>
     ELSE /\ IF Len(text) >= FlushThreshold
             THEN /\ chan' = Append(chan, Message("Chunk", text))
                  /\ buf' = Append(FreshBuf, newline)
                  /\ recycle' = TakeRecycled /\ clock' = "fresh"
             ELSE IF Len(text) + 1 < FlushThreshold /\ clock = "fresh"
             THEN Keep(Append(text, newline))
             ELSE Dispatch(Append(text, newline))
          /\ UNCHANGED output
  /\ UNCHANGED <<mode, caller, ack, worker, acks, synced, diags>>

\* fn writeln_str with fn line_flush: n bytes of text and their newline, one
\* dispatch decision for both.
WritelnStr(n) ==
  LET bytes == buf \o NewBytes(n + 1)
  IN
  /\ caller = "run"
  /\ produced + n + 1 <= MaxBytes
  /\ produced' = produced + n + 1
  /\ glued' = glued \cup (produced + 1 .. produced + n)
  /\ IF mode = "Inline"
     THEN /\ file' = file \o held \o NewBytes(n + 1) /\ held' = <<>>
          /\ UNCHANGED <<buf, chan, recycle, clock>>
     ELSE /\ IF Len(bytes) < FlushThreshold /\ clock = "fresh"
             THEN Keep(bytes)
             ELSE Dispatch(bytes)
          /\ UNCHANGED output
  /\ UNCHANGED <<mode, caller, ack, worker, acks, synced, diags>>

\* fn flush
Flush ==
  /\ caller = "run"
  /\ IF mode = "Inline"
     THEN WriterFlush /\ UNCHANGED <<buf, chan, recycle, clock>>
     ELSE /\ IF buf # <<>> THEN Dispatch(buf) ELSE Keep(buf)
          /\ UNCHANGED output
  /\ UNCHANGED <<mode, caller, ack, worker, acks, hist, synced, diags>>

\* mutant: only a buffer over the threshold is released
FlushIfStaleAndFull ==
  /\ caller = "run" /\ mode = "Threaded"
  /\ Len(buf) >= FlushThreshold /\ clock = "stale"
  /\ Dispatch(buf)
  /\ UNCHANGED <<mode, caller, ack, worker, acks, output, hist, synced, diags>>

\* fn flush_if_stale, called by the simulator whenever time advances
FlushIfStale ==
  /\ caller = "run" /\ mode = "Threaded"
  /\ buf # <<>> /\ clock = "stale"
  /\ Dispatch(buf)
  /\ UNCHANGED <<mode, caller, ack, worker, acks, output, hist, synced, diags>>

\* What flush() does to the channel, then one more message.
FlushThen(m) ==
  IF buf # <<>>
  THEN /\ chan' = Append(Append(chan, Message("Chunk", buf)), m)
       /\ buf' = FreshBuf /\ recycle' = TakeRecycled /\ clock' = "fresh"
  ELSE /\ chan' = Append(chan, m)
       /\ UNCHANGED <<buf, recycle, clock>>

\* fn sync: flush, then wait for the writer thread
Sync ==
  /\ caller = "run"
  /\ Len(chan) <= MaxQueue
  /\ IF mode = "Inline"
     THEN /\ WriterFlush /\ synced' = produced
          /\ UNCHANGED <<caller, buf, chan, recycle, clock>>
     ELSE /\ FlushThen(Message("Sync", <<>>))
          /\ caller' = "sync"
          /\ UNCHANGED <<output, synced>>
  /\ UNCHANGED <<mode, ack, worker, acks, hist, diags>>

\* ack_rx.recv() returns
SyncReturn ==
  /\ caller = "sync" /\ ack = "sent"
  /\ caller' = "run"
  /\ ack' = "none"
  /\ synced' = produced
  /\ UNCHANGED <<mode, buf, clock, chan, recycle, worker, acks, output, hist, diags>>

\* impl Drop for StdoutSink, up to the join
Drop ==
  /\ caller = "run"
  /\ IF mode = "Inline"
     THEN /\ WriterFlush /\ caller' = "dropped"
          /\ UNCHANGED <<buf, chan, recycle, clock>>
     ELSE /\ FlushThen(Message("Shutdown", <<>>))
          /\ caller' = "join"
          /\ UNCHANGED output
  /\ UNCHANGED <<mode, ack, worker, acks, hist, synced, diags>>

Join ==
  /\ caller = "join" /\ worker = "done"
  /\ caller' = "dropped"
  /\ UNCHANGED <<mode, buf, clock, chan, recycle, ack, worker, acks, output,
                 hist, synced, diags>>

\* A diagnostic written straight to stderr, which --log makes the same file.
Diagnostic ==
  /\ caller \in {"run", "dropped"}
  /\ diags' = diags \cup {Len(file)}
  /\ UNCHANGED <<mode, caller, buf, clock, chan, recycle, ack, worker, acks,
                 output, hist, synced>>

\* LINE_FLUSH_MAX_DELAY passes
Tick ==
  /\ mode = "Threaded" /\ clock = "fresh" /\ caller # "dropped"
  /\ clock' = "stale"
  /\ UNCHANGED <<mode, caller, buf, chan, recycle, ack, worker, acks, output,
                 hist, synced, diags>>
----------------------------------------------------------------------------
(* The writer thread: fn run_threaded_writer. *)

\* rx.recv() and rx.try_recv() deliver a chunk: write it, give the buffer back
WorkerChunk ==
  /\ worker \in {"recv", "drain"} /\ chan # <<>>
  /\ Head(chan).type = "Chunk"
  /\ chan' = Tail(chan)
  /\ WriterAccept(Head(chan).bytes)
  /\ recycle' = Append(recycle, Clear(Head(chan).bytes))
  /\ worker' = "drain"
  /\ UNCHANGED <<mode, caller, buf, clock, ack, acks, hist, synced, diags>>

\* mutant: the barrier is answered before the flush
WorkerSyncEarly ==
  /\ worker \in {"recv", "drain"} /\ chan # <<>>
  /\ Head(chan).type = "Sync"
  /\ chan' = Tail(chan)
  /\ ack' = "sent"
  /\ worker' = "drain"
  /\ UNCHANGED <<mode, caller, buf, clock, recycle, acks, output, hist, synced, diags>>

WorkerSync ==
  /\ worker \in {"recv", "drain"} /\ chan # <<>>
  /\ Head(chan).type = "Sync"
  /\ chan' = Tail(chan)
  /\ acks' = acks + 1
  /\ worker' = "drain"
  /\ UNCHANGED <<mode, caller, buf, clock, recycle, ack, output, hist, synced, diags>>

\* mutant: a Shutdown met while draining does not stop the outer loop
WorkerShutdownLost ==
  /\ worker \in {"recv", "drain"} /\ chan # <<>>
  /\ Head(chan).type = "Shutdown"
  /\ chan' = Tail(chan)
  /\ worker' = IF worker = "recv" THEN "exit" ELSE "flush"
  /\ UNCHANGED <<mode, caller, buf, clock, recycle, ack, acks, output, hist,
                 synced, diags>>

WorkerShutdown ==
  /\ worker \in {"recv", "drain"} /\ chan # <<>>
  /\ Head(chan).type = "Shutdown"
  /\ chan' = Tail(chan)
  /\ worker' = IF worker = "recv" THEN "exit" ELSE "flushStop"
  /\ UNCHANGED <<mode, caller, buf, clock, recycle, ack, acks, output, hist,
                 synced, diags>>

\* TryRecvError::Empty
WorkerCaughtUp ==
  /\ worker = "drain" /\ chan = <<>>
  /\ worker' = "flush"
  /\ UNCHANGED <<mode, caller, buf, clock, chan, recycle, ack, acks, output,
                 hist, synced, diags>>

WorkerFlush ==
  /\ worker \in {"flush", "flushStop"}
  /\ WriterFlush
  /\ worker' = IF worker = "flush" THEN "ack" ELSE "ackStop"
  /\ UNCHANGED <<mode, caller, buf, clock, chan, recycle, ack, acks, hist,
                 synced, diags>>

\* for ack in acks.drain(..), then the next turn or the end of the loop
WorkerAck ==
  /\ worker \in {"ack", "ackStop"}
  /\ ack' = IF acks > 0 THEN "sent" ELSE ack
  /\ acks' = 0
  /\ worker' = IF worker = "ack" THEN "recv" ELSE "exit"
  /\ UNCHANGED <<mode, caller, buf, clock, chan, recycle, output, hist, synced,
                 diags>>

\* after the loop
WorkerExit ==
  /\ worker = "exit"
  /\ WriterFlush
  /\ ack' = IF acks > 0 THEN "sent" ELSE ack
  /\ acks' = 0
  /\ worker' = "done"
  /\ UNCHANGED <<mode, caller, buf, clock, chan, recycle, hist, synced, diags>>
----------------------------------------------------------------------------
Worker == \/ WorkerChunk \/ WorkerSync \/ WorkerShutdown \/ WorkerCaughtUp
          \/ WorkerFlush \/ WorkerAck \/ WorkerExit

Next ==
  \/ \E n \in 1..MaxText : WriteStr(n)
  \/ \E n \in 0..MaxText : WritelnStr(n)
  \/ Flush
  \/ FlushIfStale
  \/ Sync
  \/ SyncReturn
  \/ Drop
  \/ Join
  \/ Diagnostic
  \/ Tick
  \/ Worker

Spec == Init /\ [][Next]_vars

\* The writer thread and a caller whose wait is over run.
ThreadFairness == WF_vars(Worker) /\ WF_vars(SyncReturn) /\ WF_vars(Join)
FairSpec == Spec /\ ThreadFairness

\* Simulated time goes on, which is when the simulator calls the sink.
TimeAdvances == WF_vars(Tick) /\ WF_vars(FlushIfStale)
----------------------------------------------------------------------------
Items(s) == {s[i] : i \in DOMAIN s}

(***************************************************************************)
(* Implements: what reaches the terminal is what was printed, in order and *)
(* complete once the sink is dropped ("Single-producer FIFO -> output      *)
(* ordering is preserved"); recycled buffers never bring old bytes back.   *)
(***************************************************************************)
Stream == INSTANCE DumpStream WITH
            accepted <- produced, dropped <- {}, out <- file,
            closed <- (caller = "dropped")
Implements == Stream!Spec

(***************************************************************************)
(* LineAtomic: a diagnostic written to the shared log never lands inside a *)
(* line printed by writeln_str ("a chunk boundary can never fall inside a  *)
(* line").                                                                 *)
(***************************************************************************)
LineAtomic == \A p \in diags : p > 0 => file[p] \notin glued

(***************************************************************************)
(* SyncReaches: when sync() has returned, every byte printed before it is  *)
(* in the file, so a diagnostic written next cannot overtake it.           *)
(***************************************************************************)
SyncReaches == 1..synced \subseteq Items(file)

(***************************************************************************)
(* CallsReturn: sync() never waits forever for the acknowledgement of its  *)
(* barrier, nor Drop for the writer thread it joins.                       *)
(***************************************************************************)
CallsReturn == /\ (caller = "sync") ~> (caller = "run")
               /\ (caller = "join") ~> (caller = "dropped")

(***************************************************************************)
(* LineVisible: a byte left in the producer's buffer by a burst that has   *)
(* ended becomes visible, though the simulation never prints or flushes    *)
(* again, as long as its time advances (core #49).                         *)
(***************************************************************************)
LineVisible ==
  TimeAdvances => \A i \in 1..MaxBytes : (i \in Items(buf)) ~> (i \in Items(file))
=============================================================================
