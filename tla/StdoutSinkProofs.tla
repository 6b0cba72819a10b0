-------------------------- MODULE StdoutSinkProofs --------------------------
(***************************************************************************)
(* Proofs about StdoutSink, for every threshold and bound and for both     *)
(* modes.                                                                  *)
(*                                                                         *)
(* LineAtomic speaks of the file only; what keeps it true is that no place *)
(* where the stream is cut - the end of the file, of what the BufWriter    *)
(* holds, of every chunk in the channel - lies inside a line.  Pipe says   *)
(* where these places are, and the Pipe lemmas show once for each way of   *)
(* moving bytes along (stage, send, receive, flush) what it keeps.         *)
(***************************************************************************)
EXTENDS StdoutSink, SequenceTheorems, TLAPS

\* s is the bytes that follow byte a.
Run(s, a) == s \in Seq(Nat) /\ \A i \in 1 .. Len(s) : s[i] = a + i

\* From the file f over the BufWriter h and the channel q to the buffer b lie
\* the bytes 1 .. p in order; chunk k of q starts after byte at[k].
Placed(f, h, q, b, p, at) ==
  /\ Run(f, 0) /\ Run(h, Len(f))
  /\ at[1] = Len(f) + Len(h)
  /\ \A k \in 1 .. Len(q) : Run(q[k].bytes, at[k]) /\ at[k + 1] = at[k] + Len(q[k].bytes)
  /\ Run(b, at[Len(q) + 1]) /\ p = at[Len(q) + 1] + Len(b)

\* None of the places where the stream is cut is inside a line of g.
Uncut(f, q, p, g, at) ==
  /\ Len(f) \notin g
  /\ \A k \in 1 .. Len(q) + 1 : at[k] \notin g
  /\ \A x \in g : x \in Nat /\ x < p

Pipe(f, h, q, b, p, g) ==
  \E at \in [1 .. Len(q) + 1 -> 0..p] : Placed(f, h, q, b, p, at) /\ Uncut(f, q, p, g, at)

\* The newest message asks for t; only chunks are before it.
Asked(t) ==
  /\ chan # <<>> /\ chan[Len(chan)].type = t
  /\ \A k \in 1 .. Len(chan) - 1 : chan[k].type = "Chunk"

Looping == worker \in {"recv", "drain", "flush", "ack"}

(***************************************************************************)
(* Where the one barrier or shutdown the caller waits for is: in the       *)
(* channel, in the writer thread's hands, or answered - and then nothing   *)
(* is left in the BufWriter.                                               *)
(***************************************************************************)
SyncPending ==
  /\ buf = <<>> /\ Looping
  /\ \/ Asked("Sync") /\ acks = 0 /\ ack = "none"
     \/ /\ chan = <<>> /\ acks = 1 /\ ack = "none" /\ worker # "recv"
        /\ worker = "ack" => held = <<>>
     \/ chan = <<>> /\ acks = 0 /\ ack = "sent" /\ worker = "recv" /\ held = <<>>

JoinPending ==
  /\ buf = <<>> /\ acks = 0 /\ ack = "none"
  /\ \/ Asked("Shutdown") /\ Looping
     \/ /\ chan = <<>> /\ worker \in {"exit", "flushStop", "ackStop", "done"}
        /\ worker = "done" => held = <<>>

Handshake ==
  /\ mode = "Inline" => /\ caller \in {"run", "dropped"} /\ chan = <<>> /\ buf = <<>>
                        /\ worker = "done" /\ acks = 0 /\ ack = "none"
  /\ mode = "Threaded" /\ caller = "run" =>
       /\ Looping /\ acks = 0 /\ ack = "none"
       /\ \A k \in 1 .. Len(chan) : chan[k].type = "Chunk"
  /\ mode = "Threaded" /\ caller = "sync" => SyncPending
  /\ mode = "Threaded" /\ caller = "join" => JoinPending
  /\ caller = "dropped" => chan = <<>> /\ buf = <<>> /\ held = <<>> /\ worker = "done"

\* What was seen from outside: the diagnostics and the barriers so far.
Observed ==
  /\ \A d \in diags : d \in 0 .. Len(file) /\ d \notin glued
  /\ synced <= Len(file)

IInv ==
  /\ TypeOK
  /\ Pipe(file, held, chan, buf, produced, glued)
  /\ Handshake
  /\ Observed

----------------------------------------------------------------------------
(* Runs of bytes *)

\* The empty run starts anywhere.
LEMMA RunEmpty == \A a : Run(<<>>, a)
  BY DEF Run

\* Two runs, the second where the first ends, are one.
LEMMA RunConcat ==
  ASSUME NEW s, NEW t, NEW a \in Nat, Run(s, a), Run(t, a + Len(s))
  PROVE  Run(s \o t, a) /\ Len(s \o t) = Len(s) + Len(t)
<1>1. /\ s \in Seq(Nat) /\ t \in Seq(Nat) /\ Len(s) \in Nat /\ Len(t) \in Nat
      /\ s \o t \in Seq(Nat) /\ Len(s \o t) = Len(s) + Len(t)
      /\ \A i \in 1 .. Len(s) + Len(t) :
           (s \o t)[i] = IF i <= Len(s) THEN s[i] ELSE t[i - Len(s)]
  BY ConcatProperties DEF Run
<1>2. ASSUME NEW i \in 1 .. Len(s) + Len(t)
      PROVE  (s \o t)[i] = a + i
  <2>1. CASE i <= Len(s)
    BY <1>1, <1>2, <2>1 DEF Run
  <2>2. CASE i > Len(s)
    <3>1. i - Len(s) \in 1 .. Len(t)
      BY <1>1, <1>2, <2>2
    <3>2. t[i - Len(s)] = (a + Len(s)) + (i - Len(s))
      BY <3>1 DEF Run
    <3> QED
      BY <1>1, <1>2, <2>2, <3>2
  <2> QED
    BY <1>1, <2>1, <2>2
<1> QED
  BY <1>1, <1>2 DEF Run

\* The bytes of one call follow everything handed over before.
LEMMA RunNew ==
  ASSUME produced \in Nat, NEW n \in Nat
  PROVE  Run(NewBytes(n), produced) /\ Len(NewBytes(n)) = n
<1>1. NewBytes(n) \in [1..n -> Nat]
  BY DEF NewBytes
<1>2. NewBytes(n) \in Seq(Nat) /\ Len(NewBytes(n)) = n
  BY <1>1
<1> QED
  BY <1>2 DEF Run, NewBytes

\* The bytes of a run that starts the stream.
LEMMA RunItems ==
  ASSUME NEW f, Run(f, 0)
  PROVE  Items(f) = 1 .. Len(f)
<1>1. f \in Seq(Nat) /\ Len(f) \in Nat /\ DOMAIN f = 1 .. Len(f)
  BY LenProperties DEF Run
<1>2. \A i \in 1 .. Len(f) : f[i] = i
  BY <1>1 DEF Run
<1> QED
  BY <1>1, <1>2 DEF Items
----------------------------------------------------------------------------
(* The pipeline *)

\* The facts about a pipeline that need no places.
LEMMA PipeParts ==
  ASSUME NEW f, NEW h, NEW q \in Seq(Msg), NEW b, NEW p \in Nat, NEW g, Pipe(f, h, q, b, p, g)
  PROVE  /\ Run(f, 0) /\ f \in Seq(Nat) /\ h \in Seq(Nat) /\ b \in Seq(Nat)
         /\ Len(f) <= p /\ Len(f) \notin g
         /\ q = <<>> /\ b = <<>> => p = Len(f) + Len(h)
<1>1. PICK at \in [1 .. Len(q) + 1 -> 0..p] : Placed(f, h, q, b, p, at) /\ Uncut(f, q, p, g, at)
  BY DEF Pipe
<1>2. Len(q) \in Nat /\ 1 \in 1 .. Len(q) + 1 /\ at[1] \in 0..p /\ at[1] = Len(f) + Len(h)
  BY <1>1 DEF Placed
<1>3. f \in Seq(Nat) /\ h \in Seq(Nat) /\ b \in Seq(Nat) /\ Len(f) \in Nat /\ Len(h) \in Nat
  BY <1>1 DEF Placed, Run
<1>4. ASSUME q = <<>>, b = <<>> PROVE p = Len(f) + Len(h)
  BY <1>1, <1>2, <1>3, <1>4 DEF Placed
<1> QED
  BY <1>1, <1>2, <1>3, <1>4 DEF Placed, Uncut

\* Bytes handed over now join the buffer; all but the last may be in a line.
LEMMA PipeStage ==
  ASSUME NEW f, NEW h, NEW q \in Seq(Msg), NEW b, NEW p \in Nat, NEW g, NEW n, NEW line,
         Pipe(f, h, q, b, p, g), Run(n, p), line \subseteq p + 1 .. p + Len(n) - 1
  PROVE  Pipe(f, h, q, b \o n, p + Len(n), g \cup line)
<1>1. PICK at \in [1 .. Len(q) + 1 -> 0..p] : Placed(f, h, q, b, p, at) /\ Uncut(f, q, p, g, at)
  BY DEF Pipe
<1>2. Len(q) \in Nat /\ Len(n) \in Nat /\ \A k \in 1 .. Len(q) + 1 : at[k] \in 0..p
  BY <1>1, SMTT(30) DEF Run
<1>3. Run(b, at[Len(q) + 1]) /\ p = at[Len(q) + 1] + Len(b) /\ at[Len(q) + 1] \in Nat
  BY <1>1, <1>2 DEF Placed
<1>4. Run(b \o n, at[Len(q) + 1]) /\ Len(b \o n) = Len(b) + Len(n)
  BY <1>3, RunConcat
<1>5. Len(b) \in Nat
  BY <1>3 DEF Run
<1>6. Placed(f, h, q, b \o n, p + Len(n), at)
  BY <1>1, <1>2, <1>3, <1>4, <1>5 DEF Placed
<1>7. Uncut(f, q, p + Len(n), g \cup line, at)
  <2>1. f \in Seq(Nat) /\ Len(f) <= p /\ Len(f) \notin g
    BY PipeParts
  <2>2. Len(f) \in Nat
    BY <2>1
  <2>3. \A x \in line : x \in Nat /\ x > p /\ x < p + Len(n)
    BY <1>2
  <2>4. Len(f) \notin g \cup line
    BY <2>1, <2>2, <2>3
  <2>5. ASSUME NEW k \in 1 .. Len(q) + 1
        PROVE  at[k] \notin g \cup line
    BY <1>1, <1>2, <2>3 DEF Uncut
  <2>6. ASSUME NEW x \in g \cup line
        PROVE  x \in Nat /\ x < p + Len(n)
    <3>1. CASE x \in g
      <4>1. x \in Nat /\ x < p
        BY <1>1, <3>1 DEF Uncut
      <4> QED
        BY <1>2, <4>1
    <3> QED
      BY <2>3, <2>6, <3>1
  <2> QED
    BY <2>4, <2>5, <2>6 DEF Uncut
<1>8. at \in [1 .. Len(q) + 1 -> 0 .. p + Len(n)]
  BY <1>1, <1>2
<1> QED
  BY <1>6, <1>7, <1>8 DEF Pipe

\* The whole buffer is sent.
LEMMA PipeSend ==
  ASSUME NEW f, NEW h, NEW q \in Seq(Msg), NEW b, NEW p \in Nat, NEW g, NEW m \in Msg,
         Pipe(f, h, q, b, p, g), m.bytes = b
  PROVE  Pipe(f, h, Append(q, m), <<>>, p, g)
<1> DEFINE r == Append(q, m)
<1>1. PICK at \in [1 .. Len(q) + 1 -> 0..p] : Placed(f, h, q, b, p, at) /\ Uncut(f, q, p, g, at)
  BY DEF Pipe
<1>2. /\ Len(r) = Len(q) + 1 /\ Len(q) \in Nat
      /\ \A k \in 1 .. Len(q) : r[k] = q[k]
      /\ r[Len(q) + 1] = m
  BY AppendProperties
<1> HIDE DEF r
<1> DEFINE to == [k \in 1 .. Len(r) + 1 |-> IF k = Len(r) + 1 THEN p ELSE at[k]]
<1>3. /\ to \in [1 .. Len(r) + 1 -> 0..p]
      /\ \A k \in 1 .. Len(q) + 1 : to[k] = at[k]
      /\ to[Len(r) + 1] = p
  BY <1>2
<1> HIDE DEF to
<1>4. Run(b, at[Len(q) + 1]) /\ p = at[Len(q) + 1] + Len(b)
  BY <1>1 DEF Placed
<1>5. Placed(f, h, r, <<>>, p, to)
  <2>1. ASSUME NEW k \in 1 .. Len(r)
        PROVE  Run(r[k].bytes, to[k]) /\ to[k + 1] = to[k] + Len(r[k].bytes)
    <3>1. CASE k \in 1 .. Len(q)
      <4>1. /\ Run(q[k].bytes, at[k]) /\ at[k + 1] = at[k] + Len(q[k].bytes)
            /\ k \in 1 .. Len(q) + 1 /\ k + 1 \in 1 .. Len(q) + 1
        BY <1>1, <1>2, <3>1 DEF Placed
      <4> QED
        BY <1>2, <1>3, <3>1, <4>1
    <3>2. CASE k = Len(q) + 1
      BY <1>2, <1>3, <1>4, <3>2
    <3> QED
      BY <1>2, <3>1, <3>2
  <2>2. to[1] = Len(f) + Len(h)
    BY <1>1, <1>2, <1>3 DEF Placed
  <2>3. p = to[Len(r) + 1] + Len(<<>>)
    BY <1>3
  <2> QED
    BY <1>1, <2>1, <2>2, <2>3, RunEmpty DEF Placed
<1>6. Uncut(f, r, p, g, to)
  BY <1>1, <1>2, <1>3 DEF Uncut
<1> QED
  BY <1>3, <1>5, <1>6 DEF Pipe, r

\* The writer thread takes the oldest message and the BufWriter its bytes.
LEMMA PipeReceive ==
  ASSUME NEW f, NEW h, NEW q \in Seq(Msg), NEW b, NEW p \in Nat, NEW g,
         q # <<>>, Pipe(f, h, q, b, p, g)
  PROVE  /\ Pipe(f, h \o Head(q).bytes, Tail(q), b, p, g)
         /\ Pipe(f \o h, Head(q).bytes, Tail(q), b, p, g)
         /\ Pipe((f \o h) \o Head(q).bytes, <<>>, Tail(q), b, p, g)
<1> DEFINE r == Tail(q)
           x == Head(q).bytes
<1>1. PICK at \in [1 .. Len(q) + 1 -> 0..p] : Placed(f, h, q, b, p, at) /\ Uncut(f, q, p, g, at)
  BY DEF Pipe
<1>2. /\ Len(r) = Len(q) - 1 /\ Len(q) \in Nat \ {0} /\ r \in Seq(Msg)
      /\ \A k \in 1 .. Len(q) - 1 : r[k] = q[k + 1]
      /\ x = q[1].bytes
  BY HeadTailProperties, EmptySeq
<1> HIDE DEF r, x
<1> DEFINE to == [k \in 1 .. Len(r) + 1 |-> at[k + 1]]
<1>3. /\ to \in [1 .. Len(r) + 1 -> 0..p]
      /\ \A k \in 1 .. Len(r) + 1 : to[k] = at[k + 1]
  BY <1>2
<1> HIDE DEF to
<1>4. /\ Run(f, 0) /\ Run(h, Len(f)) /\ Run(x, Len(f) + Len(h))
      /\ at[2] = (Len(f) + Len(h)) + Len(x)
      /\ at[1] = Len(f) + Len(h)
  <2>1. Run(f, 0) /\ Run(h, Len(f)) /\ at[1] = Len(f) + Len(h)
    BY <1>1 DEF Placed
  <2>2. 1 \in 1 .. Len(q) /\ 1 + 1 = 2
    BY <1>2
  <2>3. Run(q[1].bytes, at[1]) /\ at[2] = at[1] + Len(q[1].bytes)
    BY <1>1, <2>2 DEF Placed
  <2> QED
    BY <1>2, <2>1, <2>3
<1>5. Len(f) \in Nat /\ Len(h) \in Nat /\ Len(x) \in Nat
  BY <1>4 DEF Run
<1>6. /\ Run(h \o x, Len(f)) /\ Len(h \o x) = Len(h) + Len(x)
      /\ Run(f \o h, 0) /\ Len(f \o h) = Len(f) + Len(h)
  BY <1>4, <1>5, RunConcat
<1>7. Run((f \o h) \o x, 0) /\ Len((f \o h) \o x) = Len(f \o h) + Len(x)
  <2>1. 0 + Len(f \o h) = Len(f) + Len(h)
    BY <1>5, <1>6
  <2>2. Run(x, 0 + Len(f \o h))
    BY <1>4, <2>1
  <2> QED
    BY <1>6, <2>2, RunConcat
<1>8. /\ \A k \in 1 .. Len(r) : Run(r[k].bytes, to[k]) /\ to[k + 1] = to[k] + Len(r[k].bytes)
      /\ to[1] = (Len(f) + Len(h)) + Len(x)
      /\ Run(b, to[Len(r) + 1]) /\ p = to[Len(r) + 1] + Len(b)
  <2>1. ASSUME NEW k \in 1 .. Len(r)
        PROVE  Run(r[k].bytes, to[k]) /\ to[k + 1] = to[k] + Len(r[k].bytes)
    <3>1. k + 1 \in 1 .. Len(q) /\ k \in 1 .. Len(r) + 1 /\ k + 1 \in 1 .. Len(r) + 1
      BY <1>2
    <3>2. /\ Run(q[k + 1].bytes, at[k + 1])
          /\ at[(k + 1) + 1] = at[k + 1] + Len(q[k + 1].bytes)
      BY <1>1, <3>1 DEF Placed
    <3>3. r[k] = q[k + 1] /\ to[k] = at[k + 1] /\ to[k + 1] = at[(k + 1) + 1]
      BY <1>2, <1>3, <3>1
    <3> QED
      BY <3>2, <3>3
  <2>2. to[1] = at[2] /\ to[Len(r) + 1] = at[Len(q) + 1]
    BY <1>2, <1>3
  <2> QED
    BY <1>1, <1>4, <2>1, <2>2 DEF Placed
<1>9. /\ Placed(f, h \o x, r, b, p, to)
      /\ Placed(f \o h, x, r, b, p, to)
      /\ Placed((f \o h) \o x, <<>>, r, b, p, to)
  <2>1. Placed(f, h \o x, r, b, p, to)
    BY <1>4, <1>5, <1>6, <1>8 DEF Placed
  <2>2. Placed(f \o h, x, r, b, p, to)
    BY <1>4, <1>5, <1>6, <1>8 DEF Placed
  <2>3. Len(<<>>) = 0 /\ Run(<<>>, Len((f \o h) \o x))
    BY RunEmpty
  <2>4. Placed((f \o h) \o x, <<>>, r, b, p, to)
    BY <1>5, <1>6, <1>7, <1>8, <2>3 DEF Placed
  <2> QED
    BY <2>1, <2>2, <2>4
<1>10. /\ Uncut(f, r, p, g, to)
       /\ Uncut(f \o h, r, p, g, to)
       /\ Uncut((f \o h) \o x, r, p, g, to)
  <2>1. /\ Len(f) \notin g /\ at[1] \notin g /\ at[2] \notin g
        /\ \A k \in 1 .. Len(r) + 1 : to[k] \notin g
        /\ \A y \in g : y \in Nat /\ y < p
    BY <1>1, <1>2, <1>3 DEF Uncut
  <2> QED
    BY <1>4, <1>6, <1>7, <2>1 DEF Uncut
<1> QED
  BY <1>3, <1>9, <1>10 DEF Pipe, r, x

\* The BufWriter is flushed.
LEMMA PipeFlush ==
  ASSUME NEW f, NEW h, NEW q \in Seq(Msg), NEW b, NEW p \in Nat, NEW g, Pipe(f, h, q, b, p, g)
  PROVE  Pipe(f \o h, <<>>, q, b, p, g)
<1>1. PICK at \in [1 .. Len(q) + 1 -> 0..p] : Placed(f, h, q, b, p, at) /\ Uncut(f, q, p, g, at)
  BY DEF Pipe
<1>2. Run(f, 0) /\ Run(h, Len(f)) /\ at[1] = Len(f) + Len(h) /\ Len(f) \in Nat /\ Len(h) \in Nat
  BY <1>1 DEF Placed, Run
<1>3. Run(f \o h, 0) /\ Len(f \o h) = Len(f) + Len(h)
  BY <1>2, RunConcat
<1>4. Len(<<>>) = 0 /\ Run(<<>>, Len(f \o h))
  BY RunEmpty
<1>5. Placed(f \o h, <<>>, q, b, p, at)
  BY <1>1, <1>2, <1>3, <1>4 DEF Placed
<1>6. Uncut(f \o h, q, p, g, at)
  BY <1>1, <1>2, <1>3 DEF Uncut
<1> QED
  BY <1>5, <1>6 DEF Pipe
----------------------------------------------------------------------------
(* The channel *)

\* The fields of a message.
LEMMA MsgFields == \A m \in Msg : m.bytes \in Seq(Nat)
<1>1. \A m \in [type : {"Sync", "Shutdown"}, bytes : {<<>>}] : m.bytes = <<>>
  OBVIOUS
<1>2. \A m \in [type : {"Chunk"}, bytes : Seq(Nat) \ {<<>>}] : m.bytes \in Seq(Nat)
  OBVIOUS
<1>3. <<>> \in Seq(Nat)
  OBVIOUS
<1> QED
  BY <1>1, <1>2, <1>3 DEF Msg

\* The two kinds of message that are sent.
LEMMA Messages ==
  /\ \A s \in Seq(Nat) \ {<<>>} :
       /\ Message("Chunk", s) \in Msg
       /\ Message("Chunk", s).bytes = s /\ Message("Chunk", s).type = "Chunk"
  /\ \A t \in {"Sync", "Shutdown"} :
       /\ Message(t, <<>>) \in Msg
       /\ Message(t, <<>>).bytes = <<>> /\ Message(t, <<>>).type = t
  BY DEF Message, Msg

\* A chunk sent behind chunks.
LEMMA AppendChunk ==
  ASSUME NEW q \in Seq(Msg), NEW m \in Msg, m.type = "Chunk",
         \A k \in 1 .. Len(q) : q[k].type = "Chunk"
  PROVE  \A k \in 1 .. Len(Append(q, m)) : Append(q, m)[k].type = "Chunk"
<1> DEFINE r == Append(q, m)
<1>1. /\ Len(r) = Len(q) + 1 /\ Len(q) \in Nat /\ r[Len(q) + 1] = m
      /\ \A k \in 1 .. Len(q) : r[k] = q[k]
  BY AppendProperties
<1> HIDE DEF r
<1>2. ASSUME NEW k \in 1 .. Len(r) PROVE r[k].type = "Chunk"
  <2>1. CASE k \in 1 .. Len(q)
    BY <1>1, <2>1
  <2>2. CASE k = Len(q) + 1
    BY <1>1, <2>2
  <2> QED
    BY <1>1, <2>1, <2>2
<1> QED
  BY <1>2 DEF r

\* A request sent behind chunks.
LEMMA AppendRequest ==
  ASSUME NEW q \in Seq(Msg), NEW m \in Msg, \A k \in 1 .. Len(q) : q[k].type = "Chunk",
         chan' = Append(q, m)
  PROVE  Asked(m.type)'
<1>1. /\ Len(chan') = Len(q) + 1 /\ Len(q) \in Nat /\ chan'[Len(q) + 1] = m /\ chan' # <<>>
      /\ \A k \in 1 .. Len(q) : chan'[k] = q[k]
  BY AppendProperties
<1>2. chan'[Len(chan')].type = m.type
  BY <1>1
<1>3. \A k \in 1 .. Len(chan') - 1 : chan'[k].type = "Chunk"
  BY <1>1
<1> QED
  BY <1>1, <1>2, <1>3 DEF Asked

\* Behind the chunk that is received the request stays the newest message.
LEMMA AskedTail ==
  ASSUME chan \in Seq(Msg), NEW t, t # "Chunk", Asked(t), Head(chan).type = "Chunk",
         chan' = Tail(chan)
  PROVE  Asked(t)'
<1>1. /\ chan # <<>> /\ Len(chan) \in Nat \ {0} /\ Len(chan') = Len(chan) - 1
      /\ \A k \in 1 .. Len(chan) - 1 : chan'[k] = chan[k + 1]
      /\ Head(chan) = chan[1] /\ chan' \in Seq(Msg)
  BY HeadTailProperties, EmptySeq DEF Asked
<1>2. Len(chan) # 1
  BY <1>1 DEF Asked
<1>3. chan'[Len(chan')] = chan[Len(chan)] /\ chan' # <<>>
  BY <1>1, <1>2
<1>4. ASSUME NEW k \in 1 .. Len(chan') - 1 PROVE chan'[k].type = "Chunk"
  <2>1. k + 1 \in 1 .. Len(chan) - 1 /\ chan'[k] = chan[k + 1]
    BY <1>1
  <2> QED
    BY <2>1 DEF Asked
<1> QED
  BY <1>3, <1>4 DEF Asked

\* A request that is received was the only message.
LEMMA AskedHead ==
  ASSUME chan \in Seq(Msg), NEW t, Asked(t), Head(chan).type # "Chunk"
  PROVE  Head(chan).type = t /\ Tail(chan) = <<>>
<1>1. /\ chan # <<>> /\ Len(chan) \in Nat \ {0} /\ Len(Tail(chan)) = Len(chan) - 1
      /\ Head(chan) = chan[1] /\ Tail(chan) \in Seq(Msg)
  BY HeadTailProperties, EmptySeq DEF Asked
<1>2. Len(chan) = 1
  BY <1>1 DEF Asked
<1>3. Len(Tail(chan)) = 0
  BY <1>1, <1>2
<1> QED
  BY <1>1, <1>2, <1>3, EmptySeq DEF Asked

\* Among chunks no request is received, and chunks are left.
LEMMA ChunksTail ==
  ASSUME chan \in Seq(Msg), chan # <<>>, \A k \in 1 .. Len(chan) : chan[k].type = "Chunk"
  PROVE  /\ Head(chan).type = "Chunk"
         /\ \A k \in 1 .. Len(Tail(chan)) : Tail(chan)[k].type = "Chunk"
<1>1. /\ Len(chan) \in Nat \ {0} /\ Len(Tail(chan)) = Len(chan) - 1
      /\ Head(chan) = chan[1]
      /\ \A k \in 1 .. Len(chan) - 1 : Tail(chan)[k] = chan[k + 1]
  BY HeadTailProperties, EmptySeq
<1> QED
  BY <1>1
----------------------------------------------------------------------------
(* Steps *)

\* A recycled buffer is as empty as a new one.
LEMMA FreshIsEmpty == FreshBuf = <<>>
  BY DEF FreshBuf, Clear

\* What is left of the recycled buffers.
LEMMA RecycledTyped ==
  ASSUME recycle \in Seq(Seq(Nat))
  PROVE  TakeRecycled \in Seq(Seq(Nat))
  BY HeadTailProperties DEF TakeRecycled

\* TypeOK after a step, from the types of what the step changes.
LEMMA TypeNext ==
  ASSUME TypeOK,
         caller' \in {"run", "sync", "join", "dropped"},
         buf' \in Seq(Nat), clock' \in {"fresh", "stale"},
         chan' \in Seq(Msg), recycle' \in Seq(Seq(Nat)), ack' \in {"none", "sent"},
         worker' \in {"recv", "drain", "flush", "flushStop", "ack", "ackStop", "exit", "done"},
         acks' \in Nat, held' \in Seq(Nat), file' \in Seq(Nat),
         produced' \in Nat, synced' \in Nat, glued' \in SUBSET Nat, diags' \in SUBSET Nat,
         UNCHANGED mode
  PROVE  TypeOK'
<1>1. chan' \in Seq(Msg')
  BY DEF Msg
<1> QED
  BY <1>1 DEF TypeOK

\* The file grows and the lines handed over now are not in it yet: what was
\* seen from outside stays as it was.
LEMMA ObservedNext ==
  ASSUME IInv, NEW line, \A x \in line : x \in Nat /\ x > produced,
         file' \in Seq(Nat), Len(file) <= Len(file'), glued' = glued \cup line,
         UNCHANGED <<diags, synced>>
  PROVE  Observed'
<1>1. /\ file \in Seq(Nat) /\ Len(file) <= produced /\ produced \in Nat /\ synced \in Nat
      /\ Observed
  <2>1. chan \in Seq(Msg) /\ produced \in Nat /\ file \in Seq(Nat) /\ synced \in Nat
    BY DEF IInv, TypeOK
  <2> QED
    BY <2>1, PipeParts DEF IInv
<1>2. Len(file) \in Nat /\ Len(file') \in Nat
  BY <1>1
<1>3. ASSUME NEW d \in diags PROVE d \in 0 .. Len(file') /\ d \notin glued \cup line
  <2>1. d \in 0 .. Len(file) /\ d \notin glued
    BY <1>1 DEF Observed
  <2> QED
    BY <1>1, <1>2, <2>1
<1>4. synced <= Len(file')
  BY <1>1, <1>2 DEF Observed
<1> QED
  BY <1>3, <1>4 DEF Observed

\* The buffer becomes a chunk.
LEMMA DispatchPipe ==
  ASSUME TypeOK, NEW s \in Seq(Nat) \ {<<>>}, NEW p \in Nat, NEW g,
         Pipe(file, held, chan, s, p, g)
  PROVE  /\ Append(chan, Message("Chunk", s)) \in Seq(Msg)
         /\ Pipe(file, held, Append(chan, Message("Chunk", s)), <<>>, p, g)
<1>1. chan \in Seq(Msg) /\ Message("Chunk", s) \in Msg /\ Message("Chunk", s).bytes = s
  BY Messages DEF TypeOK
<1>2. Pipe(file, held, Append(chan, Message("Chunk", s)), <<>>, p, g)
  BY <1>1, PipeSend
<1> QED
  BY <1>1, <1>2, AppendProperties

\* write_str, writeln_str, flush and flush_if_stale on a threaded sink: n
\* bytes join the buffer, which may then be handed to the writer thread.
LEMMA HandOver ==
  ASSUME IInv, mode = "Threaded", caller = "run",
         NEW n \in Nat, NEW line, line \subseteq produced + 1 .. produced + n - 1,
         NEW s, s = buf \o NewBytes(n),
         (s # <<>> /\ Dispatch(s)) \/ Keep(s),
         produced' = produced + n, glued' = glued \cup line,
         UNCHANGED <<mode, caller, ack, worker, acks, held, file, synced, diags>>
  PROVE  IInv'
<1>1. /\ TypeOK /\ Handshake /\ Pipe(file, held, chan, buf, produced, glued)
      /\ chan \in Seq(Msg) /\ buf \in Seq(Nat) /\ produced \in Nat /\ file \in Seq(Nat)
      /\ recycle \in Seq(Seq(Nat)) /\ glued \in SUBSET Nat
  BY DEF IInv, TypeOK
<1>2. Run(NewBytes(n), produced) /\ Len(NewBytes(n)) = n
  BY <1>1, RunNew
<1>3. line \subseteq produced + 1 .. produced + Len(NewBytes(n)) - 1
  BY <1>2
<1>4. Pipe(file, held, chan, s, produced + n, glued \cup line)
  <2>1. Pipe(file, held, chan, buf \o NewBytes(n), produced + Len(NewBytes(n)), glued \cup line)
    BY <1>1, <1>2, <1>3, PipeStage
  <2> QED
    BY <1>2, <2>1
<1>5. s \in Seq(Nat)
  BY <1>1, <1>2, ConcatProperties DEF Run
<1>6. /\ chan' \in Seq(Msg) /\ buf' \in Seq(Nat) /\ recycle' \in Seq(Seq(Nat))
      /\ clock' \in {"fresh", "stale"}
      /\ Pipe(file', held', chan', buf', produced', glued')
      /\ \/ chan' = chan
         \/ chan' = Append(chan, Message("Chunk", s)) /\ s # <<>>
  <2>1. CASE s # <<>> /\ Dispatch(s)
    <3>1. /\ chan' = Append(chan, Message("Chunk", s)) /\ buf' = <<>>
          /\ recycle' = TakeRecycled /\ clock' = "fresh"
      BY <2>1, FreshIsEmpty DEF Dispatch
    <3>2. produced + n \in Nat
      BY <1>1
    <3>3. chan' \in Seq(Msg) /\ Pipe(file, held, chan', <<>>, produced + n, glued \cup line)
      BY <1>1, <1>4, <1>5, <2>1, <3>1, <3>2, DispatchPipe
    <3>4. <<>> \in Seq(Nat) /\ recycle' \in Seq(Seq(Nat))
      BY <1>1, <3>1, RecycledTyped
    <3>5. Pipe(file', held', chan', buf', produced', glued')
      BY <3>1, <3>3, Zenon
    <3> QED
      BY <2>1, <3>1, <3>3, <3>4, <3>5
  <2>2. CASE Keep(s)
    <3>1. buf' = s /\ chan' = chan /\ recycle' = recycle /\ clock' = clock
      BY <2>2 DEF Keep
    <3>2. clock \in {"fresh", "stale"}
      BY <1>1 DEF TypeOK
    <3>3. Pipe(file', held', chan', buf', produced', glued')
      BY <1>4, <3>1, Zenon
    <3> QED
      BY <1>1, <1>5, <3>1, <3>2, <3>3
  <2> QED
    BY <2>1, <2>2
<1>7. Handshake'
  <2>1. /\ Looping /\ acks = 0 /\ ack = "none"
        /\ \A k \in 1 .. Len(chan) : chan[k].type = "Chunk"
    BY <1>1 DEF Handshake
  <2>2. \A k \in 1 .. Len(chan') : chan'[k].type = "Chunk"
    <3>1. CASE chan' = chan
      BY <2>1, <3>1
    <3>2. CASE chan' = Append(chan, Message("Chunk", s)) /\ s # <<>>
      <4>1. Message("Chunk", s) \in Msg /\ Message("Chunk", s).type = "Chunk"
        BY <1>5, <3>2, Messages
      <4> QED
        BY <1>1, <2>1, <3>2, <4>1, AppendChunk
    <3> QED
      BY <1>6, <3>1, <3>2
  <2>3. Looping'
    BY <2>1 DEF Looping
  <2> QED
    BY <2>1, <2>2, <2>3 DEF Handshake
<1>8. TypeOK'
  <2>1. produced' \in Nat /\ glued' \in SUBSET Nat
    BY <1>1
  <2> QED
    BY <1>1, <1>6, <2>1, TypeNext DEF TypeOK
<1>9. Observed'
  <2>1. \A x \in line : x \in Nat /\ x > produced
    BY <1>1
  <2>2. file' \in Seq(Nat) /\ Len(file) <= Len(file')
    BY <1>1
  <2> QED
    BY <2>1, <2>2, ObservedNext
<1> QED
  BY <1>6, <1>7, <1>8, <1>9 DEF IInv

\* What the BufWriter makes of the file.
LEMMA Accepted ==
  ASSUME TypeOK, NEW x \in Seq(Nat), WriterAccept(x) \/ WriterFlush
  PROVE  file' \in Seq(Nat) /\ held' \in Seq(Nat) /\ Len(file) <= Len(file')
<1>1. file \in Seq(Nat) /\ held \in Seq(Nat) /\ <<>> \in Seq(Nat)
  BY DEF TypeOK
<1>2. /\ held \o x \in Seq(Nat) /\ file \o held \in Seq(Nat)
      /\ Len(file \o held) = Len(file) + Len(held)
  BY <1>1, ConcatProperties
<1>3. /\ (file \o held) \o x \in Seq(Nat)
      /\ Len((file \o held) \o x) = Len(file \o held) + Len(x)
  BY <1>1, <1>2, ConcatProperties
<1>4. Len(file) \in Nat /\ Len(held) \in Nat /\ Len(x) \in Nat
  BY <1>1
<1>5. CASE WriterAccept(x)
  <2>1. CASE file' = file /\ held' = held \o x
    BY <1>1, <1>2, <1>4, <2>1
  <2>2. CASE file' = file \o held /\ held' = x
    BY <1>2, <1>4, <2>2
  <2>3. CASE file' = (file \o held) \o x /\ held' = <<>>
    BY <1>1, <1>2, <1>3, <1>4, <2>3
  <2> QED
    BY <1>5, <2>1, <2>2, <2>3 DEF WriterAccept
<1>6. CASE WriterFlush
  BY <1>1, <1>2, <1>4, <1>6 DEF WriterFlush
<1> QED
  BY <1>5, <1>6

\* Without a channel and a buffer the BufWriter takes the bytes directly.
LEMMA PipeDirect ==
  ASSUME NEW f, NEW h, NEW p \in Nat, NEW g, NEW x, NEW line,
         Pipe(f, h, <<>>, <<>>, p, g), Run(x, p), x # <<>>,
         line \subseteq p + 1 .. p + Len(x) - 1
  PROVE  /\ Pipe(f, h \o x, <<>>, <<>>, p + Len(x), g \cup line)
         /\ Pipe(f \o h, x, <<>>, <<>>, p + Len(x), g \cup line)
         /\ Pipe((f \o h) \o x, <<>>, <<>>, <<>>, p + Len(x), g \cup line)
<1> DEFINE m == Message("Chunk", x)
           r == g \cup line
<1>1. x \in Seq(Nat) \ {<<>>} /\ p + Len(x) \in Nat
  BY DEF Run
<1>2. m \in Msg /\ m.bytes = x
  BY <1>1, Messages
<1>3. <<>> \in Seq(Msg)
  OBVIOUS
<1>4. Pipe(f, h, <<>>, x, p + Len(x), r)
  <2>1. Pipe(f, h, <<>>, <<>> \o x, p + Len(x), r)
    BY <1>3, PipeStage
  <2>2. <<>> \o x = x
    BY <1>1
  <2> QED
    BY <2>1, <2>2, Zenon
<1> HIDE DEF m, r
<1>5. Pipe(f, h, Append(<<>>, m), <<>>, p + Len(x), r)
  BY <1>1, <1>2, <1>3, <1>4, PipeSend
<1>6. /\ Append(<<>>, m) \in Seq(Msg) /\ Append(<<>>, m) # <<>>
      /\ Head(Append(<<>>, m)) = m /\ Tail(Append(<<>>, m)) = <<>>
  BY <1>2
<1>7. /\ Pipe(f, h \o x, <<>>, <<>>, p + Len(x), r)
      /\ Pipe(f \o h, x, <<>>, <<>>, p + Len(x), r)
      /\ Pipe((f \o h) \o x, <<>>, <<>>, <<>>, p + Len(x), r)
  BY <1>1, <1>2, <1>5, <1>6, PipeReceive
<1> QED
  BY <1>7 DEF r

\* write_str and writeln_str on an inline sink.
LEMMA InlineWrite ==
  ASSUME IInv, mode = "Inline", caller = "run",
         NEW n \in Nat \ {0}, NEW line, line \subseteq produced + 1 .. produced + n - 1,
         WriterAccept(NewBytes(n)), produced' = produced + n, glued' = glued \cup line,
         UNCHANGED <<mode, caller, buf, clock, chan, recycle, ack, worker, acks, synced, diags>>
  PROVE  IInv'
<1> DEFINE x == NewBytes(n)
<1>1. /\ TypeOK /\ Handshake /\ Pipe(file, held, chan, buf, produced, glued)
      /\ produced \in Nat /\ glued \in SUBSET Nat
  BY DEF IInv, TypeOK
<1>0. chan = <<>> /\ buf = <<>>
  BY <1>1 DEF Handshake
<1>2. Run(x, produced) /\ Len(x) = n /\ x \in Seq(Nat) /\ x # <<>>
  BY <1>1, RunNew DEF Run
<1> HIDE DEF x
<1>5. /\ Pipe(file, held \o x, <<>>, <<>>, produced + n, glued \cup line)
      /\ Pipe(file \o held, x, <<>>, <<>>, produced + n, glued \cup line)
      /\ Pipe((file \o held) \o x, <<>>, <<>>, <<>>, produced + n, glued \cup line)
  <2>1. Pipe(file, held, <<>>, <<>>, produced, glued)
    BY <1>0, <1>1, Zenon
  <2>2. line \subseteq produced + 1 .. produced + Len(x) - 1
    BY <1>2
  <2>3. /\ Pipe(file, held \o x, <<>>, <<>>, produced + Len(x), glued \cup line)
        /\ Pipe(file \o held, x, <<>>, <<>>, produced + Len(x), glued \cup line)
        /\ Pipe((file \o held) \o x, <<>>, <<>>, <<>>, produced + Len(x), glued \cup line)
    BY <1>1, <1>2, <2>1, <2>2, PipeDirect
  <2> QED
    BY <1>2, <2>3
<1>6. Pipe(file', held', chan', buf', produced', glued')
  BY <1>0, <1>5 DEF WriterAccept, x
<1>7. file' \in Seq(Nat) /\ held' \in Seq(Nat) /\ Len(file) <= Len(file')
  BY <1>1, <1>2, Accepted DEF x
<1>8. TypeOK'
  <2>1. produced' \in Nat /\ glued' \in SUBSET Nat
    BY <1>1
  <2> QED
    BY <1>1, <1>7, <2>1, TypeNext DEF TypeOK
<1>9. Observed'
  <2>1. \A y \in line : y \in Nat /\ y > produced
    BY <1>1
  <2> QED
    BY <1>7, <2>1, ObservedNext
<1>10. Handshake'
  BY <1>1 DEF Handshake
<1> QED
  BY <1>6, <1>8, <1>9, <1>10 DEF IInv

LEMMA WriteStrStep ==
  ASSUME IInv, NEW n \in 1 .. MaxText, WriteStr(n)
  PROVE  IInv'
<1>1. /\ n \in Nat \ {0} /\ {} \subseteq produced + 1 .. produced + n - 1
      /\ caller = "run" /\ produced' = produced + n /\ glued' = glued \cup {}
      /\ UNCHANGED <<mode, caller, ack, worker, acks, synced, diags>>
  BY StdoutSinkAssumption DEF WriteStr
<1>2. CASE mode = "Inline"
  <2>1. WriterAccept(NewBytes(n)) /\ UNCHANGED <<buf, chan, recycle, clock>>
    BY <1>2 DEF WriteStr
  <2> QED
    BY <1>1, <1>2, <2>1, InlineWrite
<1>3. CASE mode # "Inline"
  <2> DEFINE s == buf \o NewBytes(n)
  <2>1. mode = "Threaded"
    BY <1>3 DEF IInv, TypeOK
  <2>2. UNCHANGED output /\ IF Len(s) >= FlushThreshold THEN Dispatch(s) ELSE Keep(s)
    BY <1>3 DEF WriteStr
  <2>3. Len(s) >= FlushThreshold => s # <<>>
    BY StdoutSinkAssumption
  <2>4. (s # <<>> /\ Dispatch(s)) \/ Keep(s)
    BY <2>2, <2>3
  <2>5. UNCHANGED <<held, file>>
    BY <2>2 DEF output
  <2> QED
    BY <1>1, <2>1, <2>4, <2>5, HandOver
<1> QED
  BY <1>2, <1>3

LEMMA WritelnStrStep ==
  ASSUME IInv, NEW n \in 0 .. MaxText, WritelnStr(n)
  PROVE  IInv'
<1> DEFINE line == produced + 1 .. produced + n
<1>0. produced \in Nat /\ n \in Nat /\ mode \in {"Inline", "Threaded"} /\ buf \in Seq(Nat)
  BY StdoutSinkAssumption DEF IInv, TypeOK
<1>1. /\ n + 1 \in Nat \ {0} /\ line \subseteq produced + 1 .. produced + (n + 1) - 1
      /\ caller = "run" /\ produced' = produced + (n + 1) /\ glued' = glued \cup line
      /\ UNCHANGED <<mode, caller, ack, worker, acks, synced, diags>>
  BY <1>0 DEF WritelnStr
<1> HIDE DEF line
<1>2. CASE mode = "Inline"
  <2>1. WriterAccept(NewBytes(n + 1)) /\ UNCHANGED <<buf, chan, recycle, clock>>
    BY <1>2 DEF WritelnStr, WriterAccept
  <2> QED
    BY <1>1, <1>2, <2>1, InlineWrite
<1>3. CASE mode = "Threaded"
  <2> DEFINE s == buf \o NewBytes(n + 1)
  <2>1. mode # "Inline"
    BY <1>3
  <2>2. /\ UNCHANGED output
        /\ IF Len(s) < FlushThreshold /\ clock = "fresh" THEN Keep(s) ELSE Dispatch(s)
    BY <2>1 DEF WritelnStr
  <2>3. s # <<>>
    <3>1. Len(NewBytes(n + 1)) = n + 1 /\ NewBytes(n + 1) \in Seq(Nat)
      BY <1>0, <1>1, RunNew DEF Run
    <3> DEFINE x == NewBytes(n + 1)
    <3> HIDE DEF x
    <3>2. Len(buf \o x) = Len(buf) + Len(x) /\ Len(buf) \in Nat /\ Len(x) = n + 1
      BY <1>0, <3>1, ConcatProperties DEF x
    <3>3. Len(s) # 0
      BY <1>0, <3>2 DEF x
    <3>4. Len(<<>>) = 0
      OBVIOUS
    <3> HIDE DEF s
    <3> QED
      BY <3>3, <3>4
  <2>4. (s # <<>> /\ Dispatch(s)) \/ Keep(s)
    BY <2>2, <2>3
  <2>5. UNCHANGED <<held, file>>
    BY <2>2 DEF output
  <2> QED
    BY <1>1, <1>3, <2>4, <2>5, HandOver
<1> QED
  BY <1>0, <1>2, <1>3

\* Handing over nothing.
LEMMA NoBytes ==
  ASSUME IInv
  PROVE  /\ buf = buf \o NewBytes(0) /\ {} \subseteq produced + 1 .. produced + 0 - 1
         /\ produced = produced + 0 /\ glued = glued \cup {}
<1>1. produced \in Nat /\ buf \in Seq(Nat)
  BY DEF IInv, TypeOK
<1>2. NewBytes(0) \in Seq(Nat) /\ Len(NewBytes(0)) = 0
  BY <1>1, RunNew DEF Run
<1>3. NewBytes(0) = <<>>
  BY <1>2, EmptySeq
<1> QED
  BY <1>1, <1>3

\* Flushing the BufWriter of an inline sink; the sink may be dropped.
LEMMA InlineFlush ==
  ASSUME IInv, mode = "Inline", caller = "run", caller' \in {"run", "dropped"},
         WriterFlush, synced' \in {synced, produced},
         UNCHANGED <<mode, buf, clock, chan, recycle, ack, worker, acks, hist, diags>>
  PROVE  IInv'
<1>1. /\ TypeOK /\ Handshake /\ Pipe(file, held, chan, buf, produced, glued)
      /\ produced \in Nat /\ synced \in Nat /\ chan = <<>> /\ buf = <<>> /\ chan \in Seq(Msg)
  BY DEF IInv, TypeOK, Handshake
<1>2. UNCHANGED <<produced, glued>> /\ file' = file \o held /\ held' = <<>>
  BY DEF hist, WriterFlush
<1>3. Pipe(file', held', chan', buf', produced', glued')
  <2>1. Pipe(file \o held, <<>>, chan, buf, produced, glued)
    BY <1>1, PipeFlush
  <2> QED
    BY <1>2, <2>1, Zenon
<1>4. file' \in Seq(Nat) /\ held' \in Seq(Nat) /\ Len(file) <= Len(file')
  <2>1. <<>> \in Seq(Nat)
    OBVIOUS
  <2> QED
    BY <1>1, <2>1, Accepted
<1>5. TypeOK'
  <2>1. produced' \in Nat /\ synced' \in Nat
    BY <1>1, <1>2
  <2> QED
    BY <1>1, <1>2, <1>4, <2>1, TypeNext DEF TypeOK
<1>6. Observed'
  <2>1. produced = Len(file') + Len(<<>>) /\ Len(<<>>) = 0
    BY <1>1, <1>2, PipeFlush, PipeParts
  <2>2. Len(file) \in Nat /\ Len(file') \in Nat
    BY <1>1, <1>4 DEF TypeOK
  <2>3. synced' <= Len(file')
    BY <1>1, <1>4, <2>1, <2>2 DEF IInv, Observed
  <2>4. \A d \in diags' : d \in 0 .. Len(file') /\ d \notin glued'
    BY <1>2, <1>4, <2>2 DEF IInv, Observed
  <2> QED
    BY <2>3, <2>4 DEF Observed
<1>7. Handshake'
  BY <1>1, <1>2 DEF Handshake
<1> QED
  BY <1>3, <1>5, <1>6, <1>7 DEF IInv

LEMMA FlushStep ==
  ASSUME IInv, Flush
  PROVE  IInv'
<1>1. /\ caller = "run" /\ mode \in {"Inline", "Threaded"}
      /\ UNCHANGED <<mode, caller, ack, worker, acks, hist, synced, diags>>
      /\ UNCHANGED <<produced, glued>>
  BY DEF IInv, TypeOK, Flush, hist
<1>2. CASE mode = "Inline"
  <2>1. WriterFlush /\ UNCHANGED <<buf, chan, recycle, clock>>
    BY <1>2 DEF Flush
  <2> QED
    BY <1>1, <1>2, <2>1, InlineFlush
<1>3. CASE mode = "Threaded"
  <2>1. ((buf # <<>> /\ Dispatch(buf)) \/ Keep(buf)) /\ UNCHANGED <<held, file>>
    BY <1>3 DEF Flush, output
  <2>2. 0 \in Nat
    OBVIOUS
  <2> QED
    BY <1>1, <1>3, <2>1, <2>2, NoBytes, HandOver
<1> QED
  BY <1>1, <1>2, <1>3

LEMMA FlushIfStaleStep ==
  ASSUME IInv, FlushIfStale
  PROVE  IInv'
<1>1. /\ caller = "run" /\ mode = "Threaded" /\ buf # <<>> /\ Dispatch(buf)
      /\ UNCHANGED <<mode, caller, ack, worker, acks, synced, diags>>
      /\ UNCHANGED <<produced, glued, held, file>>
  BY DEF FlushIfStale, hist, output
<1>2. 0 \in Nat
  OBVIOUS
<1> QED
  BY <1>1, <1>2, NoBytes, HandOver

\* sync and Drop on a threaded sink: what is left of the buffer and the
\* request go into the channel.
LEMMA Request ==
  ASSUME IInv, mode = "Threaded", caller = "run",
         NEW t, <<t, caller'>> \in {<<"Sync", "sync">>, <<"Shutdown", "join">>},
         FlushThen(Message(t, <<>>)),
         UNCHANGED <<mode, ack, worker, acks, output, hist, synced, diags>>
  PROVE  IInv'
<1> DEFINE m == Message(t, <<>>)
           c == Message("Chunk", buf)
<1>1. /\ TypeOK /\ Handshake /\ Pipe(file, held, chan, buf, produced, glued)
      /\ chan \in Seq(Msg) /\ buf \in Seq(Nat) /\ produced \in Nat /\ file \in Seq(Nat)
      /\ recycle \in Seq(Seq(Nat)) /\ glued \in SUBSET Nat /\ clock \in {"fresh", "stale"}
  BY DEF IInv, TypeOK
<1>2. UNCHANGED <<held, file, produced, glued>>
  BY DEF output, hist
<1>3. t \in {"Sync", "Shutdown"}
  OBVIOUS
<1>4. m \in Msg /\ m.bytes = <<>> /\ m.type = t
  BY <1>3, Messages
<1>5. /\ Looping /\ acks = 0 /\ ack = "none"
      /\ \A k \in 1 .. Len(chan) : chan[k].type = "Chunk"
  BY <1>1 DEF Handshake
<1>6. /\ chan' \in Seq(Msg) /\ buf' = <<>> /\ recycle' \in Seq(Seq(Nat))
      /\ clock' \in {"fresh", "stale"}
      /\ Pipe(file, held, chan', <<>>, produced, glued)
      /\ Asked(t)'
  <2>1. CASE buf # <<>>
    <3>1. /\ chan' = Append(Append(chan, c), m) /\ buf' = <<>>
          /\ recycle' = TakeRecycled /\ clock' = "fresh"
      BY <2>1, FreshIsEmpty DEF FlushThen
    <3>2. Append(chan, c) \in Seq(Msg) /\ Pipe(file, held, Append(chan, c), <<>>, produced, glued)
      BY <1>1, <2>1, DispatchPipe
    <3>3. c \in Msg /\ c.type = "Chunk"
      BY <1>1, <2>1, Messages
    <3>4. \A k \in 1 .. Len(Append(chan, c)) : Append(chan, c)[k].type = "Chunk"
      BY <1>1, <1>5, <3>3, AppendChunk
    <3> HIDE DEF m, c
    <3>5. Pipe(file, held, chan', <<>>, produced, glued)
      BY <1>1, <1>4, <3>1, <3>2, PipeSend
    <3>6. chan' \in Seq(Msg) /\ Asked(m.type)'
      BY <1>4, <3>1, <3>2, <3>4, AppendRequest, AppendProperties
    <3> QED
      BY <1>1, <1>4, <3>1, <3>5, <3>6, RecycledTyped
  <2>2. CASE buf = <<>>
    <3>1. chan' = Append(chan, m) /\ UNCHANGED <<buf, recycle, clock>>
      BY <2>2 DEF FlushThen
    <3> HIDE DEF m
    <3>2. m.bytes = buf
      BY <1>4, <2>2
    <3>3. Pipe(file, held, chan', <<>>, produced, glued)
      BY <1>1, <1>4, <3>1, <3>2, PipeSend
    <3>4. chan' \in Seq(Msg) /\ Asked(m.type)'
      BY <1>1, <1>4, <1>5, <3>1, AppendRequest, AppendProperties
    <3> QED
      BY <1>1, <1>4, <2>2, <3>1, <3>3, <3>4
  <2> QED
    BY <2>1, <2>2
<1>7. Pipe(file', held', chan', buf', produced', glued')
  BY <1>2, <1>6, Zenon
<1>8. TypeOK'
  BY <1>1, <1>2, <1>6, TypeNext DEF TypeOK
<1>9. Handshake'
  BY <1>5, <1>6 DEF Handshake, SyncPending, JoinPending, Looping
<1>10. Observed'
  BY <1>1, <1>2 DEF IInv, Observed
<1> QED
  BY <1>7, <1>8, <1>9, <1>10 DEF IInv

LEMMA SyncStep ==
  ASSUME IInv, Sync
  PROVE  IInv'
<1>1. /\ caller = "run" /\ mode \in {"Inline", "Threaded"}
      /\ UNCHANGED <<mode, ack, worker, acks, hist, diags>>
  BY DEF IInv, TypeOK, Sync
<1>2. CASE mode = "Inline"
  <2>1. WriterFlush /\ synced' = produced /\ UNCHANGED <<caller, buf, chan, recycle, clock>>
    BY <1>2 DEF Sync
  <2>2. caller' \in {"run", "dropped"}
    BY <1>1, <2>1
  <2> QED
    BY <1>1, <1>2, <2>1, <2>2, InlineFlush
<1>3. CASE mode = "Threaded"
  <2>1. FlushThen(Message("Sync", <<>>)) /\ caller' = "sync" /\ UNCHANGED <<output, synced>>
    BY <1>3 DEF Sync
  <2>2. <<"Sync", caller'>> \in {<<"Sync", "sync">>, <<"Shutdown", "join">>}
    BY <2>1
  <2> QED
    BY <1>1, <1>3, <2>1, <2>2, Request
<1> QED
  BY <1>1, <1>2, <1>3

LEMMA DropStep ==
  ASSUME IInv, Drop
  PROVE  IInv'
<1>1. /\ caller = "run" /\ mode \in {"Inline", "Threaded"}
      /\ UNCHANGED <<mode, ack, worker, acks, hist, synced, diags>>
  BY DEF IInv, TypeOK, Drop
<1>2. CASE mode = "Inline"
  <2>1. WriterFlush /\ caller' = "dropped" /\ UNCHANGED <<buf, chan, recycle, clock>>
    BY <1>2 DEF Drop
  <2>2. caller' \in {"run", "dropped"} /\ synced' \in {synced, produced}
    BY <1>1, <2>1
  <2> QED
    BY <1>1, <1>2, <2>1, <2>2, InlineFlush
<1>3. CASE mode = "Threaded"
  <2>1. FlushThen(Message("Shutdown", <<>>)) /\ caller' = "join" /\ UNCHANGED output
    BY <1>3 DEF Drop
  <2>2. <<"Shutdown", caller'>> \in {<<"Sync", "sync">>, <<"Shutdown", "join">>}
    BY <2>1
  <2> QED
    BY <1>1, <1>3, <2>1, <2>2, Request
<1> QED
  BY <1>1, <1>2, <1>3

\* A step that moves no byte.
LEMMA NoMove ==
  ASSUME IInv, Handshake',
         caller' \in {"run", "sync", "join", "dropped"}, clock' \in {"fresh", "stale"},
         ack' \in {"none", "sent"}, acks' \in Nat,
         worker' \in {"recv", "drain", "flush", "flushStop", "ack", "ackStop", "exit", "done"},
         synced' \in Nat, diags' \in SUBSET Nat, Observed',
         UNCHANGED <<mode, buf, chan, recycle, held, file, produced, glued>>
  PROVE  IInv'
<1>1. TypeOK'
  BY TypeNext DEF IInv, TypeOK
<1>2. Pipe(file', held', chan', buf', produced', glued')
  <2>1. Pipe(file, held, chan, buf, produced, glued)
    BY DEF IInv
  <2> QED
    BY <2>1, Zenon
<1> QED
  BY <1>1, <1>2 DEF IInv

LEMMA SyncReturnStep ==
  ASSUME IInv, SyncReturn
  PROVE  IInv'
<1>1. /\ caller = "sync" /\ ack = "sent" /\ caller' = "run" /\ ack' = "none"
      /\ synced' = produced
      /\ UNCHANGED <<mode, buf, chan, recycle, held, file, produced, glued>>
      /\ UNCHANGED <<clock, worker, acks, diags>>
  BY DEF SyncReturn, output, hist
<1>2. TypeOK /\ Handshake /\ Observed
  BY DEF IInv
<1>3. mode = "Threaded" /\ SyncPending
  BY <1>1, <1>2 DEF Handshake, TypeOK
<1>4. /\ buf = <<>> /\ Looping /\ chan = <<>> /\ acks = 0 /\ held = <<>> /\ worker = "recv"
  BY <1>1, <1>3 DEF SyncPending
<1>5. \A k \in 1 .. Len(chan) : chan[k].type = "Chunk"
  BY <1>4
<1>6. Handshake'
  BY <1>1, <1>3, <1>4, <1>5 DEF Handshake, Looping
<1>7. synced' <= Len(file')
  <2>1. produced = Len(file) /\ Len(file) \in Nat
    <3>1. chan \in Seq(Msg) /\ produced \in Nat /\ Pipe(file, held, chan, buf, produced, glued)
      BY <1>2 DEF IInv, TypeOK
    <3>2. produced = Len(file) + Len(held) /\ file \in Seq(Nat)
      BY <1>4, <3>1, PipeParts
    <3>3. Len(held) = 0 /\ Len(file) \in Nat
      BY <1>4, <3>2
    <3> QED
      BY <3>2, <3>3
  <2>2. synced' = Len(file) /\ Len(file') = Len(file)
    BY <1>1, <2>1
  <2> QED
    BY <2>1, <2>2
<1>8. Observed'
  BY <1>1, <1>2, <1>7 DEF Observed
<1>9. acks' \in Nat /\ synced' \in Nat /\ diags' \in SUBSET Nat /\ clock' \in {"fresh", "stale"}
      /\ worker' \in {"recv", "drain", "flush", "flushStop", "ack", "ackStop", "exit", "done"}
  BY <1>1, <1>2 DEF TypeOK
<1> QED
  BY <1>1, <1>6, <1>8, <1>9, NoMove

LEMMA JoinStep ==
  ASSUME IInv, Join
  PROVE  IInv'
<1>1. /\ caller = "join" /\ worker = "done" /\ caller' = "dropped"
      /\ UNCHANGED <<mode, buf, chan, recycle, held, file, produced, glued>>
      /\ UNCHANGED <<clock, worker, ack, acks, synced, diags>>
  BY DEF Join, output, hist
<1>2. TypeOK /\ Handshake /\ Observed
  BY DEF IInv
<1>3. mode = "Threaded" /\ JoinPending
  BY <1>1, <1>2 DEF Handshake, TypeOK
<1>4. Handshake'
  BY <1>1, <1>3 DEF Handshake, JoinPending, Looping
<1>5. Observed'
  BY <1>1, <1>2 DEF Observed
<1>6. acks' \in Nat /\ synced' \in Nat /\ diags' \in SUBSET Nat /\ clock' \in {"fresh", "stale"}
      /\ ack' \in {"none", "sent"}
      /\ worker' \in {"recv", "drain", "flush", "flushStop", "ack", "ackStop", "exit", "done"}
  BY <1>1, <1>2 DEF TypeOK
<1> QED
  BY <1>1, <1>4, <1>5, <1>6, NoMove

LEMMA DiagnosticStep ==
  ASSUME IInv, Diagnostic
  PROVE  IInv'
<1>1. /\ diags' = diags \cup {Len(file)}
      /\ UNCHANGED <<mode, buf, chan, recycle, held, file, produced, glued>>
      /\ UNCHANGED <<caller, clock, worker, ack, acks, synced>>
  BY DEF Diagnostic, output, hist
<1>2. TypeOK /\ Handshake /\ Observed
  BY DEF IInv
<1>3. Len(file) \notin glued /\ Len(file) \in Nat
  <2>1. /\ chan \in Seq(Msg) /\ produced \in Nat /\ file \in Seq(Nat)
        /\ Pipe(file, held, chan, buf, produced, glued)
    BY DEF IInv, TypeOK
  <2>2. Len(file) \notin glued
    BY <2>1, PipeParts
  <2> QED
    BY <2>1, <2>2
<1>4. Handshake'
  BY <1>1, <1>2 DEF Handshake, SyncPending, JoinPending, Looping, Asked
<1>5. Observed'
  BY <1>1, <1>2, <1>3 DEF Observed
<1>6. acks' \in Nat /\ synced' \in Nat /\ diags' \in SUBSET Nat /\ clock' \in {"fresh", "stale"}
      /\ ack' \in {"none", "sent"} /\ caller' \in {"run", "sync", "join", "dropped"}
      /\ worker' \in {"recv", "drain", "flush", "flushStop", "ack", "ackStop", "exit", "done"}
  BY <1>1, <1>2, <1>3 DEF TypeOK
<1> QED
  BY <1>1, <1>4, <1>5, <1>6, NoMove

LEMMA TickStep ==
  ASSUME IInv, Tick
  PROVE  IInv'
<1>1. /\ clock' = "stale"
      /\ UNCHANGED <<mode, buf, chan, recycle, held, file, produced, glued>>
      /\ UNCHANGED <<caller, worker, ack, acks, synced, diags>>
  BY DEF Tick, output, hist
<1>2. TypeOK /\ Handshake /\ Observed
  BY DEF IInv
<1>3. Handshake'
  BY <1>1, <1>2 DEF Handshake, SyncPending, JoinPending, Looping, Asked
<1>4. Observed'
  BY <1>1, <1>2 DEF Observed
<1>5. acks' \in Nat /\ synced' \in Nat /\ diags' \in SUBSET Nat
      /\ ack' \in {"none", "sent"} /\ caller' \in {"run", "sync", "join", "dropped"}
      /\ worker' \in {"recv", "drain", "flush", "flushStop", "ack", "ackStop", "exit", "done"}
  BY <1>1, <1>2 DEF TypeOK
<1> QED
  BY <1>1, <1>3, <1>4, <1>5, NoMove
----------------------------------------------------------------------------
(* Steps of the writer thread *)

\* What holds while the writer thread runs.
LEMMA WorkerRuns ==
  ASSUME IInv, worker # "done"
  PROVE  /\ mode = "Threaded" /\ caller \in {"run", "sync", "join"}
         /\ (caller = "run" => /\ Looping /\ acks = 0 /\ ack = "none"
                               /\ \A k \in 1 .. Len(chan) : chan[k].type = "Chunk")
         /\ (caller = "sync" => SyncPending)
         /\ (caller = "join" => JoinPending)
  BY DEF IInv, TypeOK, Handshake

\* The types of what no step of the writer thread changes, and of the rest.
LEMMA WorkerTypes ==
  ASSUME IInv
  PROVE  /\ caller \in {"run", "sync", "join", "dropped"} /\ buf \in Seq(Nat)
         /\ clock \in {"fresh", "stale"} /\ chan \in Seq(Msg) /\ recycle \in Seq(Seq(Nat))
         /\ ack \in {"none", "sent"} /\ acks \in Nat /\ held \in Seq(Nat) /\ file \in Seq(Nat)
         /\ worker \in {"recv", "drain", "flush", "flushStop", "ack", "ackStop", "exit", "done"}
         /\ produced \in Nat /\ synced \in Nat /\ glued \in SUBSET Nat /\ diags \in SUBSET Nat
         /\ Pipe(file, held, chan, buf, produced, glued)
  BY DEF IInv, TypeOK

\* IInv after a step of the writer thread, from what it does to the pipeline
\* and to the caller's wait.
LEMMA WorkerNext ==
  ASSUME IInv, worker # "done",
         chan' \in Seq(Msg), recycle' \in Seq(Seq(Nat)), ack' \in {"none", "sent"},
         worker' \in {"recv", "drain", "flush", "flushStop", "ack", "ackStop", "exit", "done"},
         acks' \in Nat, held' \in Seq(Nat), file' \in Seq(Nat), Len(file) <= Len(file'),
         Pipe(file', held', chan', buf, produced, glued),
         caller = "run" => /\ Looping' /\ acks' = 0 /\ ack' = "none"
                           /\ \A k \in 1 .. Len(chan') : chan'[k].type = "Chunk",
         caller = "sync" => SyncPending', caller = "join" => JoinPending',
         UNCHANGED <<mode, caller, buf, clock, produced, glued, synced, diags>>
  PROVE  IInv'
<1>1. TypeOK'
  BY WorkerTypes, TypeNext DEF IInv
<1>2. Pipe(file', held', chan', buf', produced', glued')
  BY Zenon
<1>3. Handshake'
  BY WorkerRuns DEF Handshake
<1>4. Observed'
  <2> DEFINE none == {}
  <2>1. glued' = glued \cup none /\ \A x \in none : x \in Nat /\ x > produced
    OBVIOUS
  <2>2. UNCHANGED <<diags, synced>>
    OBVIOUS
  <2> HIDE DEF none
  <2> QED
    BY <2>1, <2>2, ObservedNext
<1> QED
  BY <1>1, <1>2, <1>3, <1>4 DEF IInv

LEMMA WorkerChunkStep ==
  ASSUME IInv, WorkerChunk
  PROVE  IInv'
<1> DEFINE x == Head(chan).bytes
<1>1. /\ worker \in {"recv", "drain"} /\ chan # <<>> /\ Head(chan).type = "Chunk"
      /\ chan' = Tail(chan) /\ recycle' = Append(recycle, <<>>) /\ worker' = "drain"
      /\ WriterAccept(x)
      /\ UNCHANGED <<mode, caller, buf, clock, produced, glued, synced, diags>>
      /\ UNCHANGED <<ack, acks>>
  BY DEF WorkerChunk, Clear, hist
<1>2. worker # "done"
  BY <1>1
<1>3. x \in Seq(Nat) /\ chan' \in Seq(Msg) /\ recycle' \in Seq(Seq(Nat))
  <2>1. Head(chan) \in Msg /\ Tail(chan) \in Seq(Msg)
    BY <1>1, WorkerTypes, HeadTailProperties
  <2>2. <<>> \in Seq(Nat) /\ recycle \in Seq(Seq(Nat))
    BY WorkerTypes
  <2>3. Append(recycle, <<>>) \in Seq(Seq(Nat))
    BY <2>2, AppendProperties
  <2> QED
    BY <1>1, <2>1, <2>3, MsgFields
<1>4. Pipe(file', held', chan', buf, produced, glued)
  <2>1. /\ Pipe(file, held \o x, Tail(chan), buf, produced, glued)
        /\ Pipe(file \o held, x, Tail(chan), buf, produced, glued)
        /\ Pipe((file \o held) \o x, <<>>, Tail(chan), buf, produced, glued)
    BY <1>1, WorkerTypes, PipeReceive
  <2> HIDE DEF x
  <2>2. CASE file' = file /\ held' = held \o x
    BY <1>1, <2>1, <2>2, Zenon
  <2>3. CASE file' = file \o held /\ held' = x
    BY <1>1, <2>1, <2>3, Zenon
  <2>4. CASE file' = (file \o held) \o x /\ held' = <<>>
    BY <1>1, <2>1, <2>4, Zenon
  <2> QED
    BY <1>1, <2>2, <2>3, <2>4 DEF WriterAccept
<1>5. file' \in Seq(Nat) /\ held' \in Seq(Nat) /\ Len(file) <= Len(file')
  BY <1>1, <1>3, Accepted DEF IInv
<1>6. CASE caller = "run"
  <2>1. /\ Looping /\ acks = 0 /\ ack = "none"
        /\ \A k \in 1 .. Len(chan) : chan[k].type = "Chunk"
    BY <1>2, <1>6, WorkerRuns
  <2>2. \A k \in 1 .. Len(chan') : chan'[k].type = "Chunk"
    BY <1>1, <2>1, WorkerTypes, ChunksTail
  <2> HIDE DEF x
  <2> QED
    BY <1>1, <1>2, <1>3, <1>4, <1>5, <1>6, <2>1, <2>2, WorkerTypes, WorkerNext DEF Looping
<1>7. CASE caller = "sync"
  <2>1. SyncPending
    BY <1>2, <1>7, WorkerRuns
  <2>2. Asked("Sync") /\ acks = 0 /\ ack = "none" /\ buf = <<>>
    BY <1>1, <2>1 DEF SyncPending
  <2>3. Asked("Sync")'
    BY <1>1, <2>2, WorkerTypes, AskedTail
  <2>4. SyncPending'
    BY <1>1, <2>2, <2>3 DEF SyncPending, Looping
  <2> HIDE DEF x
  <2> QED
    BY <1>1, <1>2, <1>3, <1>4, <1>5, <1>7, <2>4, WorkerTypes, WorkerNext
<1>8. CASE caller = "join"
  <2>1. JoinPending
    BY <1>2, <1>8, WorkerRuns
  <2>2. Asked("Shutdown") /\ acks = 0 /\ ack = "none" /\ buf = <<>>
    BY <1>1, <2>1 DEF JoinPending
  <2>3. Asked("Shutdown")'
    BY <1>1, <2>2, WorkerTypes, AskedTail
  <2>4. JoinPending'
    BY <1>1, <2>2, <2>3 DEF JoinPending, Looping
  <2> HIDE DEF x
  <2> QED
    BY <1>1, <1>2, <1>3, <1>4, <1>5, <1>8, <2>4, WorkerTypes, WorkerNext
<1> QED
  BY <1>2, <1>6, <1>7, <1>8, WorkerRuns

\* A request leaves no bytes behind.
LEMMA RequestPipe ==
  ASSUME IInv, chan # <<>>, Head(chan).type # "Chunk"
  PROVE  Tail(chan) \in Seq(Msg) /\ Pipe(file, held, Tail(chan), buf, produced, glued)
<1>1. Head(chan) \in Msg /\ Tail(chan) \in Seq(Msg)
  BY WorkerTypes, HeadTailProperties
<1>2. Head(chan).bytes = <<>>
  BY <1>1 DEF Msg
<1>3. Pipe(file, held \o Head(chan).bytes, Tail(chan), buf, produced, glued)
  BY WorkerTypes, PipeReceive
<1>4. held \o Head(chan).bytes = held
  BY <1>2, WorkerTypes
<1> QED
  BY <1>1, <1>3, <1>4

LEMMA WorkerSyncStep ==
  ASSUME IInv, WorkerSync
  PROVE  IInv'
<1>1. /\ worker \in {"recv", "drain"} /\ chan # <<>> /\ Head(chan).type = "Sync"
      /\ chan' = Tail(chan) /\ acks' = acks + 1 /\ worker' = "drain"
      /\ UNCHANGED <<mode, caller, buf, clock, produced, glued, synced, diags>>
      /\ UNCHANGED <<recycle, ack, held, file>>
  BY DEF WorkerSync, output, hist
<1>2. worker # "done" /\ Head(chan).type # "Chunk"
  BY <1>1
<1>3. caller # "run"
  BY <1>1, <1>2, WorkerRuns, WorkerTypes, ChunksTail
<1>4. caller # "join"
  <2>1. SUFFICES ASSUME caller = "join" PROVE FALSE
    OBVIOUS
  <2>2. Asked("Shutdown")
    BY <1>1, <1>2, <2>1, WorkerRuns DEF JoinPending
  <2>3. Head(chan).type = "Shutdown"
    BY <1>2, <2>2, WorkerTypes, AskedHead
  <2> QED
    BY <1>1, <2>3
<1>5. caller = "sync" /\ SyncPending
  BY <1>2, <1>3, <1>4, WorkerRuns
<1>6. Asked("Sync") /\ acks = 0 /\ ack = "none" /\ buf = <<>>
  BY <1>1, <1>5 DEF SyncPending
<1>7. chan' = <<>>
  BY <1>1, <1>2, <1>6, WorkerTypes, AskedHead
<1>8. SyncPending'
  BY <1>1, <1>6, <1>7 DEF SyncPending, Looping
<1>9. chan' \in Seq(Msg) /\ Pipe(file', held', chan', buf, produced, glued)
  <2>1. Tail(chan) \in Seq(Msg) /\ Pipe(file, held, Tail(chan), buf, produced, glued)
    BY <1>1, <1>2, RequestPipe
  <2> QED
    BY <1>1, <2>1, Zenon
<1>10. Len(file) <= Len(file') /\ acks' \in Nat
  BY <1>1, WorkerTypes
<1> QED
  BY <1>1, <1>2, <1>5, <1>8, <1>9, <1>10, WorkerTypes, WorkerNext

LEMMA WorkerShutdownStep ==
  ASSUME IInv, WorkerShutdown
  PROVE  IInv'
<1>1. /\ worker \in {"recv", "drain"} /\ chan # <<>> /\ Head(chan).type = "Shutdown"
      /\ chan' = Tail(chan) /\ worker' \in {"exit", "flushStop"}
      /\ UNCHANGED <<mode, caller, buf, clock, produced, glued, synced, diags>>
      /\ UNCHANGED <<recycle, ack, acks, held, file>>
  BY DEF WorkerShutdown, output, hist
<1>2. worker # "done" /\ Head(chan).type # "Chunk"
  BY <1>1
<1>3. caller # "run"
  BY <1>1, <1>2, WorkerRuns, WorkerTypes, ChunksTail
<1>4. caller # "sync"
  <2>1. SUFFICES ASSUME caller = "sync" PROVE FALSE
    OBVIOUS
  <2>2. Asked("Sync")
    BY <1>1, <1>2, <2>1, WorkerRuns DEF SyncPending
  <2>3. Head(chan).type = "Sync"
    BY <1>2, <2>2, WorkerTypes, AskedHead
  <2> QED
    BY <1>1, <2>3
<1>5. caller = "join" /\ JoinPending
  BY <1>2, <1>3, <1>4, WorkerRuns
<1>6. Asked("Shutdown") /\ acks = 0 /\ ack = "none" /\ buf = <<>>
  BY <1>1, <1>5 DEF JoinPending
<1>7. chan' = <<>>
  BY <1>1, <1>2, <1>6, WorkerTypes, AskedHead
<1>8. JoinPending'
  BY <1>1, <1>6, <1>7 DEF JoinPending, Looping
<1>9. chan' \in Seq(Msg) /\ Pipe(file', held', chan', buf, produced, glued)
  <2>1. Tail(chan) \in Seq(Msg) /\ Pipe(file, held, Tail(chan), buf, produced, glued)
    BY <1>1, <1>2, RequestPipe
  <2> QED
    BY <1>1, <2>1, Zenon
<1>10. Len(file) <= Len(file') /\ acks' \in Nat
  BY <1>1, WorkerTypes
<1> QED
  BY <1>1, <1>2, <1>5, <1>8, <1>9, <1>10, WorkerTypes, WorkerNext

LEMMA WorkerCaughtUpStep ==
  ASSUME IInv, WorkerCaughtUp
  PROVE  IInv'
<1>1. /\ worker = "drain" /\ chan = <<>> /\ worker' = "flush"
      /\ UNCHANGED <<mode, caller, buf, clock, produced, glued, synced, diags>>
      /\ UNCHANGED <<chan, recycle, ack, acks, held, file>>
  BY DEF WorkerCaughtUp, output, hist
<1>2. /\ worker # "done"
      /\ (caller = "run" => /\ Looping' /\ acks' = 0 /\ ack' = "none"
                            /\ \A k \in 1 .. Len(chan') : chan'[k].type = "Chunk")
  BY <1>1, WorkerRuns DEF Looping
<1>3. caller = "sync" => SyncPending'
  BY <1>1, WorkerRuns DEF SyncPending, Asked, Looping
<1>4. caller = "join" => JoinPending'
  BY <1>1, WorkerRuns DEF JoinPending, Asked
<1>5. Pipe(file', held', chan', buf, produced, glued)
  BY <1>1, WorkerTypes, Zenon
<1>6. Len(file) <= Len(file')
  BY <1>1, WorkerTypes
<1> QED
  BY <1>1, <1>2, <1>3, <1>4, <1>5, <1>6, WorkerTypes, WorkerNext

\* What a flush of the BufWriter does.
LEMMA FlushFacts ==
  ASSUME IInv, WriterFlush
  PROVE  /\ held' = <<>> /\ file' \in Seq(Nat) /\ held' \in Seq(Nat) /\ Len(file) <= Len(file')
         /\ Pipe(file', held', chan, buf, produced, glued)
<1>1. Pipe(file \o held, <<>>, chan, buf, produced, glued)
  BY WorkerTypes, PipeFlush
<1>2. file' = file \o held /\ held' = <<>>
  BY DEF WriterFlush
<1>3. <<>> \in Seq(Nat)
  OBVIOUS
<1>4. Pipe(file', held', chan, buf, produced, glued)
  BY <1>1, <1>2, Zenon
<1> QED
  BY <1>2, <1>3, <1>4, Accepted DEF IInv

LEMMA WorkerFlushStep ==
  ASSUME IInv, WorkerFlush
  PROVE  IInv'
<1>1. /\ worker \in {"flush", "flushStop"} /\ WriterFlush
      /\ worker' = IF worker = "flush" THEN "ack" ELSE "ackStop"
      /\ UNCHANGED <<mode, caller, buf, clock, produced, glued, synced, diags>>
      /\ UNCHANGED <<chan, recycle, ack, acks>>
  BY DEF WorkerFlush, hist
<1>2. /\ held' = <<>> /\ file' \in Seq(Nat) /\ held' \in Seq(Nat) /\ Len(file) <= Len(file')
      /\ Pipe(file', held', chan, buf, produced, glued)
  BY <1>1, FlushFacts
<1>3. /\ worker # "done"
      /\ (caller = "run" => /\ Looping' /\ acks' = 0 /\ ack' = "none"
                            /\ \A k \in 1 .. Len(chan') : chan'[k].type = "Chunk")
  BY <1>1, WorkerRuns DEF Looping
<1>4. caller = "sync" => SyncPending'
  BY <1>1, <1>2, WorkerRuns DEF SyncPending, Asked, Looping
<1>5. caller = "join" => JoinPending'
  BY <1>1, <1>2, WorkerRuns DEF JoinPending, Asked, Looping
<1>6. Pipe(file', held', chan', buf, produced, glued)
  BY <1>1, <1>2, Zenon
<1> QED
  BY <1>1, <1>2, <1>3, <1>4, <1>5, <1>6, WorkerTypes, WorkerNext

LEMMA WorkerAckStep ==
  ASSUME IInv, WorkerAck
  PROVE  IInv'
<1>1. /\ worker \in {"ack", "ackStop"} /\ acks' = 0
      /\ ack' = IF acks > 0 THEN "sent" ELSE ack
      /\ worker' = IF worker = "ack" THEN "recv" ELSE "exit"
      /\ UNCHANGED <<mode, caller, buf, clock, produced, glued, synced, diags>>
      /\ UNCHANGED <<chan, recycle, held, file>>
  BY DEF WorkerAck, output, hist
<1>2. /\ worker # "done"
      /\ (caller = "run" => /\ Looping' /\ acks' = 0 /\ ack' = "none"
                            /\ \A k \in 1 .. Len(chan') : chan'[k].type = "Chunk")
  BY <1>1, WorkerRuns DEF Looping
<1>3. caller = "sync" => SyncPending'
  BY <1>1, WorkerRuns DEF SyncPending, Asked, Looping
<1>4. caller = "join" => JoinPending'
  BY <1>1, WorkerRuns DEF JoinPending, Asked, Looping
<1>5. Pipe(file', held', chan', buf, produced, glued)
  BY <1>1, WorkerTypes, Zenon
<1>6. Len(file) <= Len(file') /\ ack' \in {"none", "sent"}
  BY <1>1, WorkerTypes
<1> QED
  BY <1>1, <1>2, <1>3, <1>4, <1>5, <1>6, WorkerTypes, WorkerNext

LEMMA WorkerExitStep ==
  ASSUME IInv, WorkerExit
  PROVE  IInv'
<1>1. /\ worker = "exit" /\ WriterFlush /\ acks' = 0 /\ worker' = "done"
      /\ ack' = IF acks > 0 THEN "sent" ELSE ack
      /\ UNCHANGED <<mode, caller, buf, clock, produced, glued, synced, diags>>
      /\ UNCHANGED <<chan, recycle>>
  BY DEF WorkerExit, hist
<1>2. /\ held' = <<>> /\ file' \in Seq(Nat) /\ held' \in Seq(Nat) /\ Len(file) <= Len(file')
      /\ Pipe(file', held', chan, buf, produced, glued)
  BY <1>1, FlushFacts
<1>3. worker # "done" /\ caller # "run" /\ caller # "sync"
  BY <1>1, WorkerRuns DEF Looping, SyncPending
<1>4. caller = "join" => JoinPending'
  BY <1>1, <1>2, WorkerRuns DEF JoinPending, Looping
<1>5. Pipe(file', held', chan', buf, produced, glued)
  BY <1>1, <1>2, Zenon
<1>6. ack' \in {"none", "sent"}
  BY <1>1, WorkerTypes
<1> QED
  BY <1>1, <1>2, <1>3, <1>4, <1>5, <1>6, WorkerTypes, WorkerNext
----------------------------------------------------------------------------
(* Theorems *)

LEMMA InitIInv == Init => IInv
<1>1. SUFFICES ASSUME Init PROVE IInv
  OBVIOUS
<1> USE <1>1 DEF Init
<1>2. TypeOK
  BY DEF TypeOK
<1>3. Pipe(file, held, chan, buf, produced, glued)
  <2> DEFINE at == [k \in 1 .. Len(chan) + 1 |-> 0]
  <2>1. Len(chan) = 0 /\ Len(file) = 0 /\ Len(held) = 0 /\ Len(buf) = 0
    OBVIOUS
  <2>2. at \in [1 .. Len(chan) + 1 -> 0 .. produced] /\ at[1] = 0
    BY <2>1
  <2>3. Run(file, 0) /\ Run(held, Len(file)) /\ Run(buf, at[Len(chan) + 1])
    BY <2>1, RunEmpty
  <2> HIDE DEF at
  <2>4. Placed(file, held, chan, buf, produced, at)
    BY <2>1, <2>2, <2>3 DEF Placed
  <2>5. Uncut(file, chan, produced, glued, at)
    BY DEF Uncut
  <2> QED
    BY <2>2, <2>4, <2>5 DEF Pipe
<1>4. Handshake /\ Observed
  BY DEF Handshake, Looping, Observed
<1> QED
  BY <1>2, <1>3, <1>4 DEF IInv

LEMMA NextIInv == IInv /\ [Next]_vars => IInv'
<1> SUFFICES ASSUME IInv, [Next]_vars PROVE IInv'
  OBVIOUS
<1>1. ASSUME NEW n \in 1 .. MaxText, WriteStr(n) PROVE IInv'
  BY <1>1, WriteStrStep
<1>2. ASSUME NEW n \in 0 .. MaxText, WritelnStr(n) PROVE IInv'
  BY <1>2, WritelnStrStep
<1>3. CASE Flush
  BY <1>3, FlushStep
<1>4. CASE FlushIfStale
  BY <1>4, FlushIfStaleStep
<1>5. CASE Sync
  BY <1>5, SyncStep
<1>6. CASE SyncReturn
  BY <1>6, SyncReturnStep
<1>7. CASE Drop
  BY <1>7, DropStep
<1>8. CASE Join
  BY <1>8, JoinStep
<1>9. CASE Diagnostic
  BY <1>9, DiagnosticStep
<1>10. CASE Tick
  BY <1>10, TickStep
<1>11. CASE Worker
  BY <1>11, WorkerChunkStep, WorkerSyncStep, WorkerShutdownStep, WorkerCaughtUpStep,
     WorkerFlushStep, WorkerAckStep, WorkerExitStep DEF Worker
<1>12. CASE UNCHANGED vars
  <2>1. /\ UNCHANGED <<mode, buf, chan, recycle, held, file, produced, glued>>
        /\ UNCHANGED <<caller, clock, worker, ack, acks, synced, diags>>
    BY <1>12 DEF vars
  <2>2. Handshake' /\ Observed'
    BY <2>1 DEF IInv, Handshake, SyncPending, JoinPending, Looping, Asked, Observed
  <2> QED
    BY <2>1, <2>2, WorkerTypes, NoMove
<1> QED
  BY <1>1, <1>2, <1>3, <1>4, <1>5, <1>6, <1>7, <1>8, <1>9, <1>10, <1>11, <1>12 DEF Next

(***************************************************************************)
(* Invariance: every place where the byte stream is cut stays outside the  *)
(* lines of writeln_str, and a barrier is answered only when nothing is    *)
(* left above the file.                                                    *)
(***************************************************************************)
THEOREM Invariance == Spec => []IInv
<1>1. Init => IInv
  BY InitIInv
<1>2. IInv /\ [Next]_vars => IInv'
  BY NextIInv
<1> QED
  BY <1>1, <1>2, PTL DEF Spec

\* Every variable of the sink has its type.
THEOREM TypeCorrect == Spec => []TypeOK
<1>1. IInv => TypeOK
  BY DEF IInv
<1> QED
  BY <1>1, Invariance, PTL

(***************************************************************************)
(* LinesWhole: no diagnostic is ever written into the middle of a line of  *)
(* writeln_str, whatever the thresholds and the bounds.                    *)
(***************************************************************************)
THEOREM LinesWhole == Spec => []LineAtomic
<1>1. IInv => LineAtomic
  <2>1. SUFFICES ASSUME IInv, NEW p \in diags, p > 0 PROVE file[p] \notin glued
    BY DEF LineAtomic
  <2>2. Run(file, 0) /\ file \in Seq(Nat)
    BY <2>1, WorkerTypes, PipeParts
  <2>3. p \in 0 .. Len(file) /\ p \notin glued /\ Len(file) \in Nat
    BY <2>1, <2>2 DEF IInv, Observed
  <2>4. file[p] = 0 + p
    BY <2>1, <2>2, <2>3 DEF Run
  <2> QED
    BY <2>3, <2>4
<1> QED
  BY <1>1, Invariance, PTL

(***************************************************************************)
(* BarrierReaches: sync() returns only when everything printed before it   *)
(* is in the file.                                                         *)
(***************************************************************************)
THEOREM BarrierReaches == Spec => []SyncReaches
<1>1. IInv => SyncReaches
  <2>1. SUFFICES ASSUME IInv PROVE SyncReaches
    OBVIOUS
  <2>2. Items(file) = 1 .. Len(file) /\ file \in Seq(Nat)
    BY <2>1, WorkerTypes, PipeParts, RunItems
  <2>3. synced <= Len(file) /\ synced \in Nat /\ Len(file) \in Nat
    BY <2>1, <2>2, WorkerTypes DEF IInv, Observed
  <2> QED
    BY <2>2, <2>3 DEF SyncReaches
<1> QED
  BY <1>1, Invariance, PTL
----------------------------------------------------------------------------
(* Refinement *)

\* What a step does, seen from outside the sink.
Grows ==
  /\ produced' \in Nat /\ produced <= produced'
  /\ Len(file) <= Len(file')
  /\ caller = "dropped" => UNCHANGED <<caller, file, produced>>
  /\ caller' = "dropped" => produced' = produced

\* Every step of the caller and of the writer thread grows the stream.
LEMMA NextGrows ==
  ASSUME IInv, Next
  PROVE  Grows
<1>1. /\ produced \in Nat /\ file \in Seq(Nat) /\ Len(file) \in Nat /\ TypeOK
      /\ caller = "dropped" => worker = "done"
  BY WorkerTypes DEF IInv, Handshake
<1>2. ASSUME NEW x \in Seq(Nat), WriterAccept(x) \/ WriterFlush PROVE Len(file) <= Len(file')
  BY <1>1, <1>2, Accepted
<1>3. ASSUME NEW n \in Nat PROVE NewBytes(n) \in Seq(Nat)
  BY <1>1, RunNew DEF Run
<1>4. ASSUME NEW n \in 1 .. MaxText, WriteStr(n) PROVE Grows
  <2>1. /\ caller = "run" /\ caller' = caller /\ produced' = produced + n /\ n \in Nat
        /\ WriterAccept(NewBytes(n)) \/ file' = file
    BY <1>4, StdoutSinkAssumption DEF WriteStr, output
  <2>2. Len(file) <= Len(file')
    BY <1>1, <1>2, <1>3, <2>1
  <2> QED
    BY <1>1, <2>1, <2>2 DEF Grows
<1>5. ASSUME NEW n \in 0 .. MaxText, WritelnStr(n) PROVE Grows
  <2>1. /\ caller = "run" /\ caller' = caller /\ produced' = produced + (n + 1) /\ n + 1 \in Nat
        /\ WriterAccept(NewBytes(n + 1)) \/ file' = file
    BY <1>1, <1>5, StdoutSinkAssumption DEF WritelnStr, output, WriterAccept
  <2>2. Len(file) <= Len(file')
    <3>1. NewBytes(n + 1) \in Seq(Nat)
      BY <1>3, <2>1
    <3>2. CASE WriterAccept(NewBytes(n + 1))
      BY <1>2, <3>1, <3>2
    <3> QED
      BY <1>1, <2>1, <3>2
  <2> QED
    BY <1>1, <2>1, <2>2 DEF Grows
<1>6. CASE Flush \/ FlushIfStale \/ Sync \/ Drop \/ SyncReturn
  <2>1. /\ caller # "dropped" /\ produced' = produced
        /\ WriterFlush \/ file' = file
    BY <1>6 DEF Flush, FlushIfStale, Sync, Drop, SyncReturn, hist, output
  <2>2. <<>> \in Seq(Nat)
    OBVIOUS
  <2>3. Len(file) <= Len(file')
    BY <1>1, <1>2, <2>1, <2>2
  <2> QED
    BY <1>1, <2>1, <2>3 DEF Grows
<1>7. CASE Join \/ Diagnostic \/ Tick
  <2>1. /\ UNCHANGED <<file, produced>>
        /\ caller = "dropped" => caller' = caller
    BY <1>7 DEF Join, Diagnostic, Tick, hist, output
  <2> QED
    BY <1>1, <2>1 DEF Grows
<1>8. CASE Worker
  <2>1. /\ UNCHANGED <<caller, produced>> /\ worker # "done"
        /\ file' = file \/ WriterFlush \/ (WriterAccept(Head(chan).bytes) /\ chan # <<>>)
    BY <1>8 DEF Worker, WorkerChunk, WorkerSync, WorkerShutdown, WorkerCaughtUp,
       WorkerFlush, WorkerAck, WorkerExit, hist, output
  <2>2. chan # <<>> => Head(chan).bytes \in Seq(Nat)
    BY WorkerTypes, HeadTailProperties, MsgFields
  <2>3. <<>> \in Seq(Nat)
    OBVIOUS
  <2>4. Len(file) <= Len(file')
    BY <1>1, <1>2, <2>1, <2>2, <2>3
  <2> QED
    BY <1>1, <2>1, <2>4 DEF Grows
<1> QED
  BY <1>4, <1>5, <1>6, <1>7, <1>8 DEF Next

\* A run that starts the stream is what the abstract stream calls faithful,
\* and a shorter one is its prefix.
LEMMA RunFaithful ==
  ASSUME NEW f, Run(f, 0)
  PROVE  /\ Stream!Newest(f) = Len(f)
         /\ Stream!Faithful(f, {}, Len(f))
<1>1. f \in Seq(Nat) /\ Len(f) \in Nat /\ DOMAIN f = 1 .. Len(f)
  BY LenProperties DEF Run
<1>2. \A i \in 1 .. Len(f) : f[i] = i
  BY <1>1 DEF Run
<1>3. Stream!Newest(f) = Len(f)
  <2>1. CASE f = <<>>
    BY <2>1 DEF Stream!Newest
  <2>2. CASE f # <<>>
    <3>1. Len(f) \in 1 .. Len(f)
      BY <1>1, <2>2, EmptySeq
    <3> QED
      BY <1>2, <2>2, <3>1 DEF Stream!Newest
  <2> QED
    BY <2>1, <2>2
<1>4. Stream!ToSet(f) = 1 .. Len(f)
  BY <1>1, <1>2 DEF Stream!ToSet
<1>5. \A i, j \in DOMAIN f : i < j => f[i] < f[j]
  BY <1>1, <1>2
<1> QED
  BY <1>3, <1>4, <1>5 DEF Stream!Faithful

LEMMA RunPrefix ==
  ASSUME NEW f, NEW g, Run(f, 0), Run(g, 0), Len(f) <= Len(g)
  PROVE  Stream!IsPrefix(f, g)
<1>1. f \in Seq(Nat) /\ Len(f) \in Nat /\ g \in Seq(Nat) /\ Len(g) \in Nat
  BY DEF Run
<1>2. \A i \in 1 .. Len(f) : f[i] = g[i]
  BY <1>1 DEF Run
<1>3. SubSeq(f, 1, Len(f)) = [i \in 1 .. Len(f) |-> f[i]]
  BY <1>1
<1>4. SubSeq(g, 1, Len(f)) = [i \in 1 .. Len(f) |-> g[i]]
  BY <1>1
<1> QED
  BY <1>2, <1>3, <1>4 DEF Stream!IsPrefix

LEMMA StreamStep ==
  ASSUME IInv, IInv', [Next]_vars
  PROVE  [Stream!Next]_(Stream!streamVars)
<1>1. CASE UNCHANGED vars
  BY <1>1 DEF vars, Stream!streamVars
<1>2. CASE Next
  <2>1. Grows
    BY <1>2, NextGrows
  <2>2. Run(file, 0) /\ file \in Seq(Nat) /\ produced \in Nat
    BY WorkerTypes, PipeParts
  <2>3. /\ chan' \in Seq(Msg') /\ produced' \in Nat
        /\ Pipe(file', held', chan', buf', produced', glued')
        /\ held' \in Seq(Nat)
    BY DEF IInv, TypeOK
  <2>4. Msg' = Msg
    BY DEF Msg
  <2>5. Run(file', 0) /\ file' \in Seq(Nat) /\ Len(file') <= produced'
    BY <2>3, <2>4, PipeParts
  <2>6. /\ Stream!IsPrefix(file, file')
        /\ Stream!Newest(file') = Len(file')
        /\ Stream!Faithful(file', {}, Len(file'))
    BY <2>1, <2>2, <2>5, RunFaithful, RunPrefix DEF Grows
  <2>7. CASE caller = "dropped"
    BY <2>1, <2>7 DEF Grows, Stream!streamVars
  <2>8. CASE caller # "dropped" /\ caller' # "dropped"
    <3>1. Stream!Transfer
      BY <2>1, <2>2, <2>3, <2>5, <2>6, <2>8 DEF Grows, Stream!Transfer
    <3> QED
      BY <3>1 DEF Stream!Next
  <2>9. CASE caller # "dropped" /\ caller' = "dropped"
    <3>1. held' = <<>> /\ chan' = <<>> /\ buf' = <<>>
      BY <2>9 DEF IInv, Handshake
    <3>2. produced' = Len(file') + Len(held')
      BY <2>3, <2>4, <3>1, PipeParts
    <3>3. Len(held') = 0 /\ Len(file') \in Nat
      BY <2>5, <3>1
    <3>4. produced = Len(file') /\ produced' = produced
      BY <2>1, <2>9, <3>2, <3>3 DEF Grows
    <3>5. Stream!Close
      BY <2>6, <2>9, <3>4 DEF Stream!Close
    <3> QED
      BY <3>5 DEF Stream!Next
  <2> QED
    BY <2>7, <2>8, <2>9
<1> QED
  BY <1>1, <1>2

(***************************************************************************)
(* Refines: the sink with its buffer, channel, writer thread and BufWriter *)
(* is a stream that loses nothing: what the file has is what was printed,  *)
(* in order, and all of it once the sink is dropped.                       *)
(***************************************************************************)
THEOREM Refines == Spec => Implements
<1>1. Init => Stream!Init
  BY DEF Init, Stream!Init
<1>2. IInv /\ IInv' /\ [Next]_vars => [Stream!Next]_(Stream!streamVars)
  BY StreamStep
<1> QED
  BY <1>1, <1>2, Invariance, PTL DEF Spec, Implements, Stream!Spec
=============================================================================
