--------------------------- MODULE VcdSinkProofs ---------------------------
(***************************************************************************)
(* Proofs about VcdSink, for every batch size, commit threshold and bound, *)
(* for both modes and both kinds of dump, with and without failing writes. *)
(*                                                                         *)
(* The proof of the inductive invariant IInv goes through the pipeline     *)
(* file, held, hand, chan, Staged: each action is a composition of a few   *)
(* moves along it (stage, send, receive, pass to the file), and the Sound  *)
(* lemmas show once for each move what it keeps.                           *)
(***************************************************************************)
EXTENDS VcdSink, SequenceTheorems, TLAPS

----------------------------------------------------------------------------
(* Sequences of items *)

\* The items of a concatenation are those of its parts.
LEMMA ItemsConcat ==
  ASSUME NEW s \in Seq(Nat), NEW t \in Seq(Nat)
  PROVE  Items(s \o t) = Items(s) \cup Items(t)
<1>1. /\ DOMAIN (s \o t) = 1 .. Len(s) + Len(t)
      /\ \A i \in 1 .. Len(s) + Len(t) :
           (s \o t)[i] = IF i <= Len(s) THEN s[i] ELSE t[i - Len(s)]
      /\ DOMAIN s = 1 .. Len(s) /\ DOMAIN t = 1 .. Len(t)
      /\ Len(s) \in Nat /\ Len(t) \in Nat
  BY ConcatProperties, LenProperties
<1>2. ASSUME NEW x \in Items(s \o t)
      PROVE  x \in Items(s) \cup Items(t)
  BY <1>1, <1>2 DEF Items
<1>3. ASSUME NEW x \in Items(s)
      PROVE  x \in Items(s \o t)
  BY <1>1, <1>3 DEF Items
<1>4. ASSUME NEW x \in Items(t)
      PROVE  x \in Items(s \o t)
  <2>1. PICK j \in 1 .. Len(t) : x = t[j]
    BY <1>1, <1>4 DEF Items
  <2>2. Len(s) + j \in 1 .. Len(s) + Len(t) /\ (s \o t)[Len(s) + j] = x
    BY <1>1, <2>1
  <2> QED
    BY <1>1, <2>2 DEF Items
<1> QED
  BY <1>2, <1>3, <1>4

\* The items of the shortest sequences.
LEMMA ItemsSmall ==
  /\ Items(<<>>) = {}
  /\ \A x : Items(<<x>>) = {x}
  /\ \A s \in Seq(Nat) : Items(s) \subseteq Nat
  BY DEF Items

\* A concatenation increases exactly when its parts do, one before the other.
LEMMA IncreasingConcat ==
  ASSUME NEW s \in Seq(Nat), NEW t \in Seq(Nat)
  PROVE  Increasing(s \o t) <=>
           Increasing(s) /\ Increasing(t) /\ Precedes(Items(s), Items(t))
<1>1. /\ DOMAIN (s \o t) = 1 .. Len(s) + Len(t)
      /\ \A i \in 1 .. Len(s) + Len(t) :
           (s \o t)[i] = IF i <= Len(s) THEN s[i] ELSE t[i - Len(s)]
      /\ DOMAIN s = 1 .. Len(s) /\ DOMAIN t = 1 .. Len(t)
      /\ Len(s) \in Nat /\ Len(t) \in Nat
  BY ConcatProperties, LenProperties
<1>2. ASSUME Increasing(s \o t)
      PROVE  Increasing(s) /\ Increasing(t) /\ Precedes(Items(s), Items(t))
  <2>1. ASSUME NEW i \in 1 .. Len(s), NEW j \in 1 .. Len(s), i < j
        PROVE  s[i] < s[j]
    <3>1. /\ i \in 1 .. Len(s) + Len(t) /\ (s \o t)[i] = s[i]
          /\ j \in 1 .. Len(s) + Len(t) /\ (s \o t)[j] = s[j]
      BY <1>1, <2>1
    <3> QED
      BY <1>1, <1>2, <2>1, <3>1 DEF Increasing
  <2>2. ASSUME NEW i \in 1 .. Len(t), NEW j \in 1 .. Len(t), i < j
        PROVE  t[i] < t[j]
    <3>1. /\ Len(s) + i \in 1 .. Len(s) + Len(t) /\ (s \o t)[Len(s) + i] = t[i]
          /\ Len(s) + j \in 1 .. Len(s) + Len(t) /\ (s \o t)[Len(s) + j] = t[j]
          /\ Len(s) + i < Len(s) + j
      BY <1>1, <2>2
    <3> QED
      BY <1>1, <1>2, <3>1 DEF Increasing
  <2>3. ASSUME NEW i \in 1 .. Len(s), NEW j \in 1 .. Len(t)
        PROVE  s[i] < t[j]
    <3>1. /\ Len(s) + j \in 1 .. Len(s) + Len(t) /\ (s \o t)[Len(s) + j] = t[j]
          /\ i \in 1 .. Len(s) + Len(t) /\ (s \o t)[i] = s[i]
          /\ i < Len(s) + j
      BY <1>1, <2>3
    <3> QED
      BY <1>1, <1>2, <3>1 DEF Increasing
  <2>4. Increasing(s) /\ Increasing(t)
    BY <1>1, <2>1, <2>2 DEF Increasing
  <2>5. Precedes(Items(s), Items(t))
    BY <1>1, <2>3 DEF Precedes, Items
  <2> QED
    BY <2>4, <2>5
<1>3. ASSUME Increasing(s), Increasing(t), Precedes(Items(s), Items(t)),
             NEW i \in 1 .. Len(s) + Len(t), NEW j \in 1 .. Len(s) + Len(t), i < j
      PROVE  (s \o t)[i] < (s \o t)[j]
  <2>1. CASE j <= Len(s)
    <3>1. i \in 1 .. Len(s) /\ j \in 1 .. Len(s)
      BY <1>1, <1>3, <2>1
    <3>2. s[i] < s[j]
      BY <1>1, <1>3, <3>1 DEF Increasing
    <3> QED
      BY <1>1, <1>3, <3>1, <3>2
  <2>2. CASE i > Len(s)
    <3>1. i - Len(s) \in 1 .. Len(t) /\ j - Len(s) \in 1 .. Len(t) /\ i - Len(s) < j - Len(s)
      BY <1>1, <1>3, <2>2
    <3>2. t[i - Len(s)] < t[j - Len(s)]
      BY <1>1, <1>3, <3>1 DEF Increasing
    <3>3. ~(i <= Len(s)) /\ ~(j <= Len(s))
      BY <1>1, <1>3, <2>2
    <3> QED
      BY <1>1, <1>3, <3>2, <3>3
  <2>3. CASE i <= Len(s) /\ j > Len(s)
    <3>1. i \in 1 .. Len(s) /\ j - Len(s) \in 1 .. Len(t) /\ ~(j <= Len(s))
      BY <1>1, <1>3, <2>3
    <3>2. s[i] \in Items(s) /\ t[j - Len(s)] \in Items(t)
      BY <1>1, <3>1 DEF Items
    <3>3. s[i] < t[j - Len(s)]
      BY <1>3, <3>2 DEF Precedes
    <3> QED
      BY <1>1, <1>3, <3>1, <3>3
  <2> QED
    BY <1>1, <1>3, <2>1, <2>2, <2>3
<1>4. ASSUME Increasing(s), Increasing(t), Precedes(Items(s), Items(t))
      PROVE  Increasing(s \o t)
  BY <1>1, <1>3, <1>4 DEF Increasing
<1> QED
  BY <1>2, <1>4

\* The items of a subsequence.
LEMMA SubSeqItems ==
  ASSUME NEW s \in Seq(Nat), NEW k \in Nat, k <= Len(s)
  PROVE  Items(SubSeq(s, k + 1, Len(s))) = {s[i] : i \in k + 1 .. Len(s)}
<1> DEFINE u == SubSeq(s, k + 1, Len(s))
<1>1. /\ u \in Seq(Nat) /\ Len(s) \in Nat
      /\ Len(u) = Len(s) - k
      /\ \A i \in 1 .. Len(s) - k : u[i] = s[k + i]
  BY SubSeqProperties
<1>2. DOMAIN u = 1 .. Len(s) - k
  BY <1>1, LenProperties
<1> HIDE DEF u
<1>3. ASSUME NEW x \in Items(u) PROVE x \in {s[i] : i \in k + 1 .. Len(s)}
  <2>1. PICK i \in 1 .. Len(s) - k : x = u[i]
    BY <1>2, <1>3 DEF Items
  <2>2. k + i \in k + 1 .. Len(s) /\ x = s[k + i]
    BY <1>1, <2>1
  <2> QED
    BY <2>2
<1>4. ASSUME NEW i \in k + 1 .. Len(s) PROVE s[i] \in Items(u)
  <2>1. i - k \in 1 .. Len(s) - k /\ u[i - k] = s[i]
    BY <1>1, <1>4
  <2> QED
    BY <1>2, <2>1 DEF Items
<1> QED
  BY <1>3, <1>4 DEF u

\* A sequence is the concatenation of its two parts at any place.
LEMMA Split ==
  ASSUME NEW s \in Seq(Nat), NEW k \in 0 .. Len(s)
  PROVE  SubSeq(s, 1, k) \o SubSeq(s, k + 1, Len(s)) = s
<1>1. 1 \in 1 .. Len(s) + 1 /\ k \in 1 - 1 .. Len(s) /\ Len(s) \in k .. Len(s)
  OBVIOUS
<1>2. SubSeq(s, 1, k) \o SubSeq(s, k + 1, Len(s)) = SubSeq(s, 1, Len(s))
  BY <1>1, ConcatAdjacentSubSeq
<1> QED
  BY <1>2, SubSeqFull

\* A sequence is its head followed by its tail.
LEMMA HeadOnTail ==
  ASSUME NEW s \in Seq(Nat), s # <<>>
  PROVE  /\ <<Head(s)>> \in Seq(Nat) /\ Tail(s) \in Seq(Nat)
         /\ <<Head(s)>> \o Tail(s) = s
<1>1. /\ Head(s) \in Nat /\ Tail(s) \in Seq(Nat) /\ Head(s) = s[1]
      /\ Len(s) \in Nat \ {0} /\ Tail(s) = SubSeq(s, 2, Len(s))
  BY HeadTailProperties, EmptySeq, TailIsSubSeq
<1>2. 1 \in 1 .. Len(s) /\ Len(s) \in 1 .. Len(s)
  BY <1>1
<1>3. SubSeq(s, 1, Len(s)) = <<s[1]>> \o SubSeq(s, 1 + 1, Len(s))
  BY <1>2, SubSeqRecursiveFirst
<1>4. SubSeq(s, 1, Len(s)) = s
  BY SubSeqFull
<1> QED
  BY <1>1, <1>3, <1>4

\* The shortest sequences increase.
LEMMA IncreasingSmall == Increasing(<<>>) /\ \A x : Increasing(<<x>>)
  BY DEF Increasing

\* The items of one call follow everything handed over before.
LEMMA NewItemsFacts ==
  ASSUME produced \in Nat, NEW n \in Nat
  PROVE  /\ NewItems(n) \in Seq(Nat)
         /\ Items(NewItems(n)) = produced + 1 .. produced + n
         /\ Increasing(NewItems(n))
<1>1. NewItems(n) \in Seq(Nat) /\ DOMAIN NewItems(n) = 1..n
  BY DEF NewItems
<1>2. \A i \in 1..n : NewItems(n)[i] = produced + i
  BY DEF NewItems
<1>3. ASSUME NEW x \in produced + 1 .. produced + n
      PROVE  x \in Items(NewItems(n))
  <2>1. x - produced \in 1..n /\ NewItems(n)[x - produced] = x
    BY <1>2, <1>3
  <2> QED
    BY <1>1, <2>1 DEF Items
<1>4. ASSUME NEW x \in Items(NewItems(n))
      PROVE  x \in produced + 1 .. produced + n
  BY <1>1, <1>2, <1>4 DEF Items
<1>5. ASSUME NEW i \in 1..n, NEW j \in 1..n, i < j
      PROVE  NewItems(n)[i] < NewItems(n)[j]
  BY <1>2, <1>5
<1>6. Increasing(NewItems(n))
  BY <1>1, <1>5 DEF Increasing
<1>7. Items(NewItems(n)) = produced + 1 .. produced + n
  BY <1>3, <1>4
<1> QED
  BY <1>1, <1>6, <1>7
----------------------------------------------------------------------------
(* The channel *)

\* The fields of a message.
LEMMA MsgFields == \A m \in Msg : m.items \in Seq(Nat) /\ m.mark \in Nat
<1>1. \A m \in [type : {"Flush", "Shutdown"}, items : {<<>>}, mark : Nat] :
        m.items = <<>> /\ m.mark \in Nat
  OBVIOUS
<1>2. \A m \in [type : {"Chunk", "VcdBatch", "XtraceBatch"},
                 items : Seq(Nat) \ {<<>>}, mark : Nat] :
        m.items \in Seq(Nat) /\ m.mark \in Nat
  OBVIOUS
<1>3. <<>> \in Seq(Nat)
  OBVIOUS
<1> QED
  BY <1>1, <1>2, <1>3 DEF Msg

\* Flush and Shutdown carry nothing.
LEMMA RequestEmpty ==
  ASSUME NEW q \in Seq(Msg), q # <<>>, Head(q).type \in {"Flush", "Shutdown"}
  PROVE  Head(q).items = <<>>
<1>1. Head(q) \in Msg
  BY HeadTailProperties
<1>2. \A m \in Msg : m.type \in {"Flush", "Shutdown"} => m.items = <<>>
  BY DEF Msg
<1> QED
  BY <1>1, <1>2

\* A message that carries something is well typed.
LEMMA SendTyped ==
  ASSUME produced \in Nat, NEW q \in Seq(Msg), NEW items \in Seq(Nat),
         NEW t \in {"Chunk", "VcdBatch", "XtraceBatch"}
  PROVE  SendIf(q, t, items) \in Seq(Msg)
<1>1. items # <<>> => Message(t, items) \in Msg
  BY DEF Message, Msg
<1> QED
  BY <1>1 DEF SendIf

\* A message sent is the newest of the queue.
LEMMA QueueAppend ==
  ASSUME NEW q \in Seq(Msg), NEW m \in Msg
  PROVE  /\ QueueItems(Append(q, m)) = QueueItems(q) \cup Items(m.items)
         /\ QueueOrder(q) /\ Increasing(m.items)
              /\ Precedes(QueueItems(q), Items(m.items)) => QueueOrder(Append(q, m))
<1> DEFINE r == Append(q, m)
<1>1. /\ DOMAIN r = 1 .. Len(q) + 1 /\ DOMAIN q = 1 .. Len(q) /\ Len(q) \in Nat
      /\ \A k \in 1 .. Len(q) : r[k] = q[k]
      /\ r[Len(q) + 1] = m
  BY AppendProperties, LenProperties
<1> HIDE DEF r
<1>2. QueueItems(r) = QueueItems(q) \cup Items(m.items)
  <2>1. ASSUME NEW x \in QueueItems(r)
        PROVE  x \in QueueItems(q) \cup Items(m.items)
    <3>1. PICK k \in 1 .. Len(q) + 1 : x \in Items(r[k].items)
      BY <1>1, <2>1 DEF QueueItems
    <3> QED
      BY <1>1, <3>1 DEF QueueItems
  <2>2. ASSUME NEW x \in QueueItems(q) \cup Items(m.items)
        PROVE  x \in QueueItems(r)
    <3>1. \E k \in 1 .. Len(q) + 1 : x \in Items(r[k].items)
      BY <1>1, <2>2 DEF QueueItems
    <3> QED
      BY <1>1, <3>1 DEF QueueItems
  <2> QED
    BY <2>1, <2>2
<1>3. ASSUME QueueOrder(q), Increasing(m.items), Precedes(QueueItems(q), Items(m.items))
      PROVE  QueueOrder(r)
  <2>1. ASSUME NEW k \in 1 .. Len(q) + 1
        PROVE  Increasing(r[k].items)
    BY <1>1, <1>3, <2>1 DEF QueueOrder
  <2>2. ASSUME NEW k \in 1 .. Len(q) + 1, NEW l \in 1 .. Len(q) + 1, k < l
        PROVE  Precedes(Items(r[k].items), Items(r[l].items))
    <3>1. CASE l <= Len(q)
      BY <1>1, <1>3, <2>2, <3>1 DEF QueueOrder
    <3>2. CASE l = Len(q) + 1
      <4>1. k \in DOMAIN q /\ Items(q[k].items) \subseteq QueueItems(q)
        BY <1>1, <2>2, <3>2 DEF QueueItems
      <4> QED
        BY <1>1, <1>3, <2>2, <3>2, <4>1 DEF Precedes
    <3> QED
      BY <1>1, <2>2, <3>1, <3>2
  <2> QED
    BY <1>1, <2>1, <2>2 DEF QueueOrder
<1> QED
  BY <1>2, <1>3 DEF r

\* The message received is the oldest of the queue.
LEMMA QueueReceive ==
  ASSUME NEW q \in Seq(Msg), q # <<>>, QueueOrder(q)
  PROVE  /\ QueueItems(q) = Items(Head(q).items) \cup QueueItems(Tail(q))
         /\ QueueOrder(Tail(q))
         /\ Increasing(Head(q).items)
         /\ Precedes(Items(Head(q).items), QueueItems(Tail(q)))
<1> DEFINE r == Tail(q)
<1>1. /\ DOMAIN r = 1 .. Len(q) - 1 /\ DOMAIN q = 1 .. Len(q) /\ Len(q) \in Nat \ {0}
      /\ \A k \in 1 .. Len(q) - 1 : r[k] = q[k + 1]
      /\ Head(q) = q[1]
  BY HeadTailProperties, LenProperties, EmptySeq
<1> HIDE DEF r
<1>2. ASSUME NEW x \in QueueItems(q)
      PROVE  x \in Items(q[1].items) \cup QueueItems(r)
  <2>1. PICK k \in 1 .. Len(q) : x \in Items(q[k].items)
    BY <1>1, <1>2 DEF QueueItems
  <2>2. CASE k # 1
    <3>1. k - 1 \in 1 .. Len(q) - 1 /\ r[k - 1] = q[k]
      BY <1>1, <2>1, <2>2
    <3> QED
      BY <1>1, <2>1, <3>1 DEF QueueItems
  <2> QED
    BY <2>1, <2>2
<1>3. ASSUME NEW x \in QueueItems(r)
      PROVE  \E k \in 2 .. Len(q) : x \in Items(q[k].items)
  <2>1. PICK k \in 1 .. Len(q) - 1 : x \in Items(r[k].items)
    BY <1>1, <1>3 DEF QueueItems
  <2>2. k + 1 \in 2 .. Len(q) /\ r[k] = q[k + 1]
    BY <1>1, <2>1
  <2> QED
    BY <2>1, <2>2
<1>4. QueueItems(q) = Items(q[1].items) \cup QueueItems(r)
  <2>1. ASSUME NEW x \in QueueItems(r) PROVE x \in QueueItems(q)
    BY <1>1, <1>3, <2>1 DEF QueueItems
  <2>2. ASSUME NEW x \in Items(q[1].items) PROVE x \in QueueItems(q)
    BY <1>1, <2>2 DEF QueueItems
  <2> QED
    BY <1>2, <2>1, <2>2
<1>5. QueueOrder(r)
  <2>1. ASSUME NEW k \in 1 .. Len(q) - 1
        PROVE  /\ Increasing(r[k].items)
               /\ \A l \in 1 .. Len(q) - 1 :
                    k < l => Precedes(Items(r[k].items), Items(r[l].items))
    <3>1. /\ k + 1 \in 1 .. Len(q)
          /\ \A l \in 1 .. Len(q) - 1 : l + 1 \in 1 .. Len(q) /\ (k < l => k + 1 < l + 1)
      BY <1>1, <2>1
    <3> QED
      BY <1>1, <3>1 DEF QueueOrder
  <2> QED
    BY <1>1, <2>1 DEF QueueOrder
<1>6. Increasing(q[1].items)
  BY <1>1 DEF QueueOrder
<1>7. Precedes(Items(q[1].items), QueueItems(r))
  <2>1. ASSUME NEW x \in Items(q[1].items), NEW y \in QueueItems(r)
        PROVE  x < y
    <3>1. PICK k \in 2 .. Len(q) : y \in Items(q[k].items)
      BY <1>3, <2>1
    <3>2. Precedes(Items(q[1].items), Items(q[k].items))
      BY <1>1, <3>1 DEF QueueOrder
    <3> QED
      BY <2>1, <3>1, <3>2 DEF Precedes
  <2> QED
    BY <2>1 DEF Precedes
<1> QED
  BY <1>1, <1>4, <1>5, <1>6, <1>7 DEF r
----------------------------------------------------------------------------
(***************************************************************************)
(* The pipeline as a whole.  Content is everything in it; the Move lemmas  *)
(* are the only ways in which a step moves items along, and each of them   *)
(* keeps Ordered and accounts for the content.                             *)
(***************************************************************************)
Content(f, h, d, q, t) ==
  Items(f) \cup Items(h) \cup Items(d) \cup QueueItems(q) \cup Items(t)

\* An empty queue holds nothing.
LEMMA QueueEmpty == QueueItems(<<>>) = {} /\ QueueOrder(<<>>)
  BY DEF QueueItems, QueueOrder

\* The head of the staged data is sent.
LEMMA MoveSend ==
  ASSUME NEW f \in Seq(Nat), NEW h \in Seq(Nat), NEW d \in Seq(Nat), NEW q \in Seq(Msg),
         NEW m \in Msg, NEW t \in Seq(Nat),
         m.items \in Seq(Nat),
         Ordered(f, h, d, q, m.items \o t)
  PROVE  /\ Ordered(f, h, d, Append(q, m), t)
         /\ Content(f, h, d, Append(q, m), t) = Content(f, h, d, q, m.items \o t)
<1>1. Items(m.items \o t) = Items(m.items) \cup Items(t)
  BY ItemsConcat
<1>2. Increasing(m.items) /\ Increasing(t) /\ Precedes(Items(m.items), Items(t))
  BY IncreasingConcat DEF Ordered
<1>3. QueueItems(Append(q, m)) = QueueItems(q) \cup Items(m.items)
  BY QueueAppend
<1>4. Precedes(QueueItems(q), Items(m.items))
  BY <1>1 DEF Ordered, Precedes
<1>5. QueueOrder(Append(q, m))
  BY <1>2, <1>4, QueueAppend DEF Ordered
<1>6. Precedes(QueueItems(Append(q, m)), Items(t))
  BY <1>1, <1>2, <1>3 DEF Ordered, Precedes
<1>7. Items(m.items) \cup Items(t) \cup QueueItems(q) = QueueItems(Append(q, m)) \cup Items(t)
  BY <1>3
<1> QED
  BY <1>1, <1>2, <1>3, <1>5, <1>6 DEF Ordered, Content, Precedes

\* The same, when there may be nothing to send.
LEMMA MoveSendIf ==
  ASSUME produced \in Nat,
         NEW f \in Seq(Nat), NEW h \in Seq(Nat), NEW d \in Seq(Nat), NEW q \in Seq(Msg),
         NEW type \in {"Chunk", "VcdBatch", "XtraceBatch"},
         NEW s \in Seq(Nat), NEW t \in Seq(Nat),
         Ordered(f, h, d, q, s \o t)
  PROVE  /\ Ordered(f, h, d, SendIf(q, type, s), t)
         /\ Content(f, h, d, SendIf(q, type, s), t) = Content(f, h, d, q, s \o t)
<1>1. CASE s = <<>>
  <2>1. s \o t = t /\ SendIf(q, type, s) = q
    BY <1>1, ConcatEmptySeq DEF SendIf
  <2> QED
    BY <2>1
<1>2. CASE s # <<>>
  <2>1. Message(type, s) \in Msg /\ Message(type, s).items = s
    BY <1>2 DEF Message, Msg
  <2>2. SendIf(q, type, s) = Append(q, Message(type, s))
    BY <1>2 DEF SendIf
  <2> QED
    BY <2>1, <2>2, MoveSend
<1> QED
  BY <1>1, <1>2

\* Newer items join the staged data.
LEMMA MoveStage ==
  ASSUME NEW f \in Seq(Nat), NEW h \in Seq(Nat), NEW d \in Seq(Nat), NEW q \in Seq(Msg),
         NEW t \in Seq(Nat), NEW n \in Seq(Nat),
         Ordered(f, h, d, q, t), Increasing(n),
         Precedes(Content(f, h, d, q, t), Items(n))
  PROVE  /\ Ordered(f, h, d, q, t \o n)
         /\ Content(f, h, d, q, t \o n) = Content(f, h, d, q, t) \cup Items(n)
<1>1. Items(t \o n) = Items(t) \cup Items(n)
  BY ItemsConcat
<1>2. /\ Precedes(Items(f), Items(n)) /\ Precedes(Items(h), Items(n))
      /\ Precedes(Items(d), Items(n)) /\ Precedes(QueueItems(q), Items(n))
      /\ Precedes(Items(t), Items(n))
  BY DEF Content, Precedes
<1>3. Increasing(t \o n)
  BY <1>2, IncreasingConcat DEF Ordered
<1> QED
  BY <1>1, <1>2, <1>3 DEF Ordered, Content, Precedes

\* The writer thread receives a message.
LEMMA MoveReceive ==
  ASSUME NEW f \in Seq(Nat), NEW h \in Seq(Nat), NEW q \in Seq(Msg), NEW t \in Seq(Nat),
         q # <<>>, Ordered(f, h, <<>>, q, t)
  PROVE  /\ Ordered(f, h, Head(q).items, Tail(q), t)
         /\ Content(f, h, Head(q).items, Tail(q), t) = Content(f, h, <<>>, q, t)
<1>1. /\ QueueItems(q) = Items(Head(q).items) \cup QueueItems(Tail(q))
      /\ QueueOrder(Tail(q))
      /\ Increasing(Head(q).items)
      /\ Precedes(Items(Head(q).items), QueueItems(Tail(q)))
  BY QueueReceive DEF Ordered
<1>2. Items(<<>>) = {}
  BY ItemsSmall
<1> QED
  BY <1>1, <1>2 DEF Ordered, Content, Precedes

----------------------------------------------------------------------------
(* The writer stack *)

\* x goes into the writer: of what it then holds, a prefix a is passed on, b is
\* kept, and the end c is lost.
Passes(x) ==
  \E a, b, c \in Seq(Nat) :
    /\ held \o x = (a \o b) \o c
    /\ file' = file \o a /\ held' = b
    /\ lost' = lost \cup Items(c)
    /\ c = <<>> \/ MayFail

\* A write passes a prefix of its data on, keeps the middle, loses the end.
LEMMA AcceptSplit ==
  ASSUME held \in Seq(Nat), NEW items \in Seq(Nat), WriterAccept(items)
  PROVE  Passes(items)
<1> DEFINE all == held \o items
<1>1. all \in Seq(Nat)
  OBVIOUS
<1>2. PICK kept \in Len(held)..Len(all) : \E out \in 0..kept :
        /\ kept = Len(all) \/ MayFail
        /\ file' = file \o SubSeq(all, 1, out)
        /\ held' = SubSeq(all, out + 1, kept)
        /\ lost' = lost \cup {all[i] : i \in kept + 1 .. Len(all)}
  BY DEF WriterAccept
<1>3. PICK out \in 0..kept :
        /\ kept = Len(all) \/ MayFail
        /\ file' = file \o SubSeq(all, 1, out)
        /\ held' = SubSeq(all, out + 1, kept)
        /\ lost' = lost \cup {all[i] : i \in kept + 1 .. Len(all)}
  BY <1>2
<1>4. /\ kept \in 0 .. Len(all) /\ out \in Nat /\ out <= kept
      /\ kept \in Nat /\ Len(all) \in Nat /\ kept <= Len(all)
  BY <1>1, <1>2, <1>3
<1> HIDE DEF all
<1> DEFINE a == SubSeq(all, 1, out)
           b == SubSeq(all, out + 1, kept)
           c == SubSeq(all, kept + 1, Len(all))
<1>5. a \in Seq(Nat) /\ b \in Seq(Nat) /\ c \in Seq(Nat)
  BY <1>1, <1>4
<1>6. a \o b = SubSeq(all, 1, kept)
  BY <1>1, <1>4, ConcatAdjacentSubSeq
<1>7. (a \o b) \o c = all
  <2>1. SubSeq(all, 1, kept) \o c = all
    BY <1>1, <1>4, Split
  <2> QED
    BY <1>6, <2>1
<1>8. Items(c) = {all[i] : i \in kept + 1 .. Len(all)}
  BY <1>1, <1>4, SubSeqItems
<1>9. kept = Len(all) => c = <<>>
  BY <1>4, SubSeqEmpty
<1> HIDE DEF a, b, c
<1>10. /\ held \o items = (a \o b) \o c
       /\ file' = file \o a /\ held' = b
       /\ lost' = lost \cup Items(c)
       /\ c = <<>> \/ MayFail
  BY <1>3, <1>7, <1>8, <1>9 DEF all, a, b
<1> QED
  BY <1>5, <1>10 DEF Passes

\* flush() is a write of nothing, as far as it succeeds.
LEMMA FlushSplit ==
  ASSUME held \in Seq(Nat), NEW mark, WriterFlush(mark)
  PROVE  Passes(<<>>) /\ flushed' \in {mark, flushed}
<1>1. PICK out \in 0..Len(held) :
        /\ file' = file \o SubSeq(held, 1, out)
        /\ held' = SubSeq(held, out + 1, Len(held))
        /\ flushed' = IF out = Len(held) /\ mark > flushed THEN mark ELSE flushed
        /\ UNCHANGED lost
  BY DEF WriterFlush
<1> DEFINE a == SubSeq(held, 1, out)
           b == SubSeq(held, out + 1, Len(held))
<1>2. a \in Seq(Nat) /\ b \in Seq(Nat)
  BY <1>1
<1>3. a \o b = held
  BY <1>1, Split
<1>4. file' = file \o a /\ held' = b
  BY <1>1
<1> HIDE DEF a, b
<1>5. held \o <<>> = (a \o b) \o <<>>
  BY <1>3
<1>6. lost' = lost \cup Items(<<>>) /\ <<>> \in Seq(Nat)
  BY <1>1, ItemsSmall
<1>7. Passes(<<>>)
  BY <1>2, <1>4, <1>5, <1>6 DEF Passes
<1> QED
  BY <1>1, <1>7

\* Dropping the writer is a write of nothing that keeps nothing.
LEMMA DropSplit ==
  ASSUME held \in Seq(Nat), WriterDrop
  PROVE  Passes(<<>>) /\ held' = <<>> /\ writer' = "closed"
<1>1. PICK out \in 0..Len(held) :
        /\ out = Len(held) \/ MayFail
        /\ file' = file \o SubSeq(held, 1, out)
        /\ held' = <<>>
        /\ lost' = lost \cup {held[i] : i \in out + 1 .. Len(held)}
        /\ writer' = "closed"
  BY DEF WriterDrop
<1> DEFINE a == SubSeq(held, 1, out)
           c == SubSeq(held, out + 1, Len(held))
<1>2. a \in Seq(Nat) /\ c \in Seq(Nat) /\ Len(held) \in Nat /\ out \in Nat /\ out <= Len(held)
  BY <1>1, SMTT(30)
<1>3. a \o c = held
  BY <1>1, Split
<1>4. Items(c) = {held[i] : i \in out + 1 .. Len(held)}
  BY <1>2, SubSeqItems
<1>5. out = Len(held) => c = <<>>
  BY <1>2, SubSeqEmpty
<1> HIDE DEF c
<1>6. file' = file \o a /\ lost' = lost \cup Items(c) /\ (c = <<>> \/ MayFail)
  BY <1>1, <1>4, <1>5
<1> HIDE DEF a
<1>7. held \o <<>> = held /\ a \o <<>> = a /\ <<>> \in Seq(Nat)
  BY <1>2, ConcatEmptySeq
<1>8. held \o <<>> = (a \o <<>>) \o c
  BY <1>3, <1>7
<1>9. Passes(<<>>)
  BY <1>1, <1>2, <1>6, <1>7, <1>8 DEF Passes
<1> QED
  BY <1>1, <1>9
----------------------------------------------------------------------------
(***************************************************************************)
(* A flush in the queue q stands behind every item up to its mark: what is *)
(* queued after it or staged in t is newer.                                *)
(***************************************************************************)
Marked(q, t, p) ==
  \A k \in DOMAIN q : q[k].type = "Flush" =>
    /\ q[k].mark <= p
    /\ \A x \in Items(t) : x > q[k].mark
    /\ \A l \in DOMAIN q : k < l => \A x \in Items(q[l].items) : x > q[k].mark

(***************************************************************************)
(* Sound is StreamOrder and StreamIntact of a pipeline f, h, d, q, t with  *)
(* l lost of p items, the flushes in q in their places.                    *)
(***************************************************************************)
Sound(f, h, d, q, t, l, p) ==
  /\ Ordered(f, h, d, q, t)
  /\ Content(f, h, d, q, t) \cup l = 1..p
  /\ Content(f, h, d, q, t) \cap l = {}
  /\ ~MayFail => l = {}
  /\ Marked(q, t, p)

\* An empty queue holds no flush.
LEMMA MarkedEmpty == \A t, p : Marked(<<>>, t, p)
  BY DEF Marked

\* Staged items that are newer than all others are newer than every mark.
LEMMA MarkedStage ==
  ASSUME NEW q \in Seq(Msg), NEW t \in Seq(Nat), NEW n \in Seq(Nat), NEW p \in Nat, NEW k \in Nat,
         Marked(q, t, p), \A x \in Items(n) : x > p
  PROVE  Marked(q, t \o n, p + k)
<1>1. \A i \in DOMAIN q : q[i].mark \in Nat
  BY MsgFields, ElementOfSeq, LenProperties
<1>2. Items(t \o n) = Items(t) \cup Items(n) /\ Items(n) \subseteq Nat
  BY ItemsConcat, ItemsSmall
<1>3. ASSUME NEW i \in DOMAIN q, q[i].type = "Flush"
      PROVE  /\ q[i].mark <= p + k
             /\ \A x \in Items(t \o n) : x > q[i].mark
  <2>1. q[i].mark \in Nat /\ q[i].mark <= p /\ \A x \in Items(t) : x > q[i].mark
    BY <1>1, <1>3 DEF Marked
  <2>2. \A x \in Items(n) : x > q[i].mark
    BY <1>2, <2>1
  <2> QED
    BY <1>2, <2>1, <2>2
<1> QED
  BY <1>3 DEF Marked

\* A message is sent: its items were staged, and a flush is sent with nothing
\* left behind it.
LEMMA MarkedSend ==
  ASSUME NEW q \in Seq(Msg), NEW m \in Msg, NEW t \in Seq(Nat), NEW p \in Nat,
         m.items \in Seq(Nat), Marked(q, m.items \o t, p),
         m.type = "Flush" => m.mark <= p /\ t = <<>>
  PROVE  Marked(Append(q, m), t, p)
<1> DEFINE r == Append(q, m)
<1>1. /\ DOMAIN r = 1 .. Len(q) + 1 /\ DOMAIN q = 1 .. Len(q) /\ Len(q) \in Nat
      /\ \A k \in 1 .. Len(q) : r[k] = q[k]
      /\ r[Len(q) + 1] = m
  BY AppendProperties, LenProperties
<1> HIDE DEF r
<1>2. Items(m.items \o t) = Items(m.items) \cup Items(t)
  BY ItemsConcat
<1>3. ASSUME NEW k \in 1 .. Len(q) + 1, r[k].type = "Flush"
      PROVE  /\ r[k].mark <= p
             /\ \A x \in Items(t) : x > r[k].mark
             /\ \A l \in 1 .. Len(q) + 1 : k < l => \A x \in Items(r[l].items) : x > r[k].mark
  <2>1. CASE k = Len(q) + 1
    <3>1. m.mark <= p /\ t = <<>> /\ r[k] = m
      BY <1>1, <1>3, <2>1
    <3>2. Items(t) = {} /\ ~ \E l \in 1 .. Len(q) + 1 : k < l
      BY <1>1, <2>1, <3>1, ItemsSmall
    <3> QED
      BY <3>1, <3>2
  <2>2. CASE k \in 1 .. Len(q)
    <3>1. /\ r[k] = q[k] /\ q[k].mark <= p
          /\ \A x \in Items(m.items) \cup Items(t) : x > q[k].mark
          /\ \A l \in 1 .. Len(q) : k < l => \A x \in Items(q[l].items) : x > q[k].mark
      BY <1>1, <1>2, <1>3, <2>2 DEF Marked
    <3>2. \A l \in 1 .. Len(q) + 1 : l \in 1 .. Len(q) \/ l = Len(q) + 1
      BY <1>1
    <3>3. \A l \in 1 .. Len(q) + 1 : k < l => \A x \in Items(r[l].items) : x > q[k].mark
      BY <1>1, <3>1, <3>2
    <3> QED
      BY <3>1, <3>3
  <2> QED
    BY <1>1, <1>3, <2>1, <2>2
<1> QED
  BY <1>1, <1>3 DEF Marked, r

\* The oldest message is received; if it is a flush, all that is left is newer
\* than its mark.
LEMMA MarkedReceive ==
  ASSUME NEW q \in Seq(Msg), NEW t, NEW p, q # <<>>, Marked(q, t, p)
  PROVE  /\ Marked(Tail(q), t, p)
         /\ Head(q).type = "Flush" =>
              /\ Head(q).mark <= p
              /\ \A x \in QueueItems(Tail(q)) \cup Items(t) : x > Head(q).mark
<1> DEFINE r == Tail(q)
<1>1. /\ DOMAIN r = 1 .. Len(q) - 1 /\ DOMAIN q = 1 .. Len(q) /\ Len(q) \in Nat \ {0}
      /\ \A k \in 1 .. Len(q) - 1 : r[k] = q[k + 1] /\ k + 1 \in 1 .. Len(q)
      /\ Head(q) = q[1] /\ 1 \in 1 .. Len(q)
  BY HeadTailProperties, LenProperties, EmptySeq
<1> HIDE DEF r
<1>2. ASSUME NEW k \in 1 .. Len(q) - 1, r[k].type = "Flush"
      PROVE  /\ r[k].mark <= p
             /\ \A x \in Items(t) : x > r[k].mark
             /\ \A l \in 1 .. Len(q) - 1 : k < l => \A x \in Items(r[l].items) : x > r[k].mark
  <2>1. r[k] = q[k + 1] /\ k + 1 \in 1 .. Len(q)
    BY <1>1
  <2>2. /\ q[k + 1].mark <= p /\ \A x \in Items(t) : x > q[k + 1].mark
        /\ \A l \in 1 .. Len(q) : k + 1 < l => \A x \in Items(q[l].items) : x > q[k + 1].mark
    BY <1>1, <1>2, <2>1 DEF Marked
  <2>3. ASSUME NEW l \in 1 .. Len(q) - 1, k < l
        PROVE  \A x \in Items(r[l].items) : x > r[k].mark
    <3>1. r[l] = q[l + 1] /\ l + 1 \in 1 .. Len(q) /\ k + 1 < l + 1
      BY <1>1, <2>3
    <3> QED
      BY <2>1, <2>2, <3>1
  <2> QED
    BY <2>1, <2>2, <2>3
<1>3. ASSUME q[1].type = "Flush"
      PROVE  q[1].mark <= p /\ \A x \in QueueItems(r) \cup Items(t) : x > q[1].mark
  <2>1. /\ q[1].mark <= p /\ \A x \in Items(t) : x > q[1].mark
        /\ \A l \in 1 .. Len(q) : 1 < l => \A x \in Items(q[l].items) : x > q[1].mark
    BY <1>1, <1>3 DEF Marked
  <2>2. ASSUME NEW x \in QueueItems(r) PROVE x > q[1].mark
    <3>1. PICK k \in 1 .. Len(q) - 1 : x \in Items(r[k].items)
      BY <1>1, <2>2 DEF QueueItems
    <3>2. r[k] = q[k + 1] /\ k + 1 \in 1 .. Len(q) /\ 1 < k + 1
      BY <1>1
    <3> QED
      BY <2>1, <3>1, <3>2
  <2> QED
    BY <2>1, <2>2
<1> QED
  BY <1>1, <1>2, <1>3 DEF Marked, r

\* Items handed over now are newer than everything in a sound pipeline.
LEMMA SoundStage ==
  ASSUME NEW f \in Seq(Nat), NEW h \in Seq(Nat), NEW d \in Seq(Nat), NEW q \in Seq(Msg),
         NEW t \in Seq(Nat), NEW l, NEW p \in Nat, NEW n \in Seq(Nat), NEW k \in Nat,
         Sound(f, h, d, q, t, l, p), Increasing(n), Items(n) = p + 1 .. p + k
  PROVE  Sound(f, h, d, q, t \o n, l, p + k)
<1>1. Precedes(Content(f, h, d, q, t), Items(n))
  <2>1. Content(f, h, d, q, t) \subseteq 1..p
    BY DEF Sound
  <2>2. Precedes(1..p, p + 1 .. p + k)
    BY DEF Precedes
  <2> QED
    BY <2>1, <2>2 DEF Precedes
<1>2. /\ Ordered(f, h, d, q, t \o n)
      /\ Content(f, h, d, q, t \o n) = Content(f, h, d, q, t) \cup Items(n)
  BY <1>1, MoveStage DEF Sound
<1>3. (1..p) \cup (p + 1 .. p + k) = 1 .. p + k
  OBVIOUS
<1>4. Content(f, h, d, q, t \o n) \cup l = 1 .. p + k
  BY <1>2, <1>3 DEF Sound
<1>5. Content(f, h, d, q, t \o n) \cap l = {}
  <2>1. l \subseteq 1..p /\ Content(f, h, d, q, t) \cap l = {}
    BY DEF Sound
  <2>2. (1..p) \cap (p + 1 .. p + k) = {}
    OBVIOUS
  <2> QED
    BY <1>2, <2>1, <2>2
<1>6. Marked(q, t \o n, p + k)
  <2>1. \A x \in Items(n) : x > p
    OBVIOUS
  <2> QED
    BY <2>1, MarkedStage DEF Sound
<1> QED
  BY <1>2, <1>4, <1>5, <1>6 DEF Sound

\* The head of the staged data is sent, if there is any.
LEMMA SoundSendIf ==
  ASSUME produced \in Nat,
         NEW f \in Seq(Nat), NEW h \in Seq(Nat), NEW d \in Seq(Nat), NEW q \in Seq(Msg),
         NEW type \in {"Chunk", "VcdBatch", "XtraceBatch"},
         NEW s \in Seq(Nat), NEW t \in Seq(Nat), NEW l, NEW p \in Nat,
         Sound(f, h, d, q, s \o t, l, p)
  PROVE  /\ SendIf(q, type, s) \in Seq(Msg)
         /\ Sound(f, h, d, SendIf(q, type, s), t, l, p)
<1>1. Ordered(f, h, d, q, s \o t)
  BY DEF Sound
<1>2. /\ Ordered(f, h, d, SendIf(q, type, s), t)
      /\ Content(f, h, d, SendIf(q, type, s), t) = Content(f, h, d, q, s \o t)
  BY <1>1, MoveSendIf
<1>3. SendIf(q, type, s) \in Seq(Msg)
  BY SendTyped
<1>4. Marked(SendIf(q, type, s), t, p)
  <2>1. CASE s = <<>>
    <3>1. s \o t = t /\ SendIf(q, type, s) = q
      BY <2>1, ConcatEmptySeq DEF SendIf
    <3> QED
      BY <3>1 DEF Sound
  <2>2. CASE s # <<>>
    <3> DEFINE m == Message(type, s)
    <3>1. m \in Msg /\ m.items = s /\ m.type = type
      BY <2>2 DEF Message, Msg
    <3>2. SendIf(q, type, s) = Append(q, m) /\ type # "Flush"
      BY <2>2 DEF SendIf
    <3> HIDE DEF m
    <3>3. Marked(q, m.items \o t, p)
      BY <3>1 DEF Sound
    <3> QED
      BY <3>1, <3>2, <3>3, MarkedSend
  <2> QED
    BY <2>1, <2>2
<1> QED
  BY <1>2, <1>3, <1>4 DEF Sound

\* A request, sent when nothing is staged, moves nothing.
LEMMA SoundRequest ==
  ASSUME produced \in Nat,
         NEW f \in Seq(Nat), NEW h \in Seq(Nat), NEW d \in Seq(Nat), NEW q \in Seq(Msg),
         NEW type \in {"Flush", "Shutdown"},
         NEW l, Sound(f, h, d, q, <<>>, l, produced)
  PROVE  /\ Append(q, Message(type, <<>>)) \in Seq(Msg)
         /\ Sound(f, h, d, Append(q, Message(type, <<>>)), <<>>, l, produced)
<1> DEFINE m == Message(type, <<>>)
           t == <<>>
<1>1. m \in Msg /\ m.items = <<>> /\ m.mark = produced
  BY DEF Message, Msg
<1>2. <<>> \o t = t /\ t \in Seq(Nat)
  BY ConcatEmptySeq
<1>3. m.items \o t = t /\ m.items \in Seq(Nat) /\ m \in Msg
  BY <1>1, <1>2, Zenon
<1>4. Ordered(f, h, d, q, t) /\ Marked(q, t, produced)
  BY DEF Sound
<1>5. Ordered(f, h, d, q, m.items \o t) /\ Marked(q, m.items \o t, produced)
  BY <1>3, <1>4, Zenon
<1>6. m.type = "Flush" => m.mark <= produced /\ t = <<>>
  BY <1>1
<1> HIDE DEF m, t
<1>7. /\ Ordered(f, h, d, Append(q, m), t)
      /\ Content(f, h, d, Append(q, m), t) = Content(f, h, d, q, t)
  <2>1. m \in Msg /\ m.items \in Seq(Nat) /\ t \in Seq(Nat)
    BY <1>2, <1>3
  <2>2. Ordered(f, h, d, q, m.items \o t)
    BY <1>5
  <2>3. Content(f, h, d, Append(q, m), t) = Content(f, h, d, q, m.items \o t)
        /\ Ordered(f, h, d, Append(q, m), t)
    BY <2>1, <2>2, MoveSend
  <2> QED
    BY <1>3, <2>3
<1>8. Marked(Append(q, m), t, produced)
  BY <1>2, <1>3, <1>5, <1>6, MarkedSend
<1>9. Sound(f, h, d, Append(q, m), t, l, produced)
  BY <1>7, <1>8 DEF Sound, t
<1>10. Append(q, m) \in Seq(Msg)
  BY <1>3, AppendProperties
<1> QED
  BY <1>9, <1>10 DEF m, t

\* The writer thread, with nothing in hand, receives a message.
LEMMA SoundReceive ==
  ASSUME NEW f \in Seq(Nat), NEW h \in Seq(Nat), NEW q \in Seq(Msg), NEW t \in Seq(Nat),
         NEW l, NEW p, q # <<>>, Sound(f, h, <<>>, q, t, l, p)
  PROVE  /\ Head(q) \in Msg /\ Tail(q) \in Seq(Msg)
         /\ Head(q).items \in Seq(Nat) /\ Head(q).mark \in Nat
         /\ Sound(f, h, Head(q).items, Tail(q), t, l, p)
<1>1. Head(q) \in Msg /\ Tail(q) \in Seq(Msg)
  BY HeadTailProperties
<1>3. Ordered(f, h, <<>>, q, t)
  BY DEF Sound
<1>4. /\ Ordered(f, h, Head(q).items, Tail(q), t)
      /\ Content(f, h, Head(q).items, Tail(q), t) = Content(f, h, <<>>, q, t)
  BY <1>3, MoveReceive
<1>5. Marked(Tail(q), t, p)
  BY MarkedReceive DEF Sound
<1> QED
  BY <1>1, <1>4, <1>5, MsgFields DEF Sound

\* The writer takes x; d stays in hand.
LEMMA SoundPass ==
  ASSUME held \in Seq(Nat), file \in Seq(Nat), lost \in SUBSET Nat,
         NEW x \in Seq(Nat), NEW d \in Seq(Nat), NEW q \in Seq(Msg), NEW t \in Seq(Nat),
         NEW p, Sound(file, held, x \o d, q, t, lost, p), Passes(x)
  PROVE  /\ held' \in Seq(Nat) /\ file' \in Seq(Nat) /\ lost' \in SUBSET Nat
         /\ Sound(file', held', d, q, t, lost', p)
<1>1. PICK a \in Seq(Nat), b \in Seq(Nat), c \in Seq(Nat) :
        /\ held \o x = (a \o b) \o c
        /\ file' = file \o a /\ held' = b
        /\ lost' = lost \cup Items(c)
        /\ c = <<>> \/ MayFail
  BY DEF Passes
<1>2. /\ Ordered(file \o a, b, d, q, t)
      /\ Content(file \o a, b, d, q, t) \cup Items(c) = Content(file, held, x \o d, q, t)
      /\ Content(file \o a, b, d, q, t) \cap Items(c) = {}
  <2>1. /\ Items(held) \cup Items(x) = Items(a) \cup Items(b) \cup Items(c)
        /\ Items(x \o d) = Items(x) \cup Items(d)
        /\ Items(file \o a) = Items(file) \cup Items(a)
    <3>1. Items(held \o x) = Items(held) \cup Items(x)
      BY ItemsConcat
    <3>2. Items((a \o b) \o c) = Items(a \o b) \cup Items(c)
      BY ItemsConcat, ConcatProperties
    <3>3. Items(a \o b) = Items(a) \cup Items(b)
      BY ItemsConcat
    <3> QED
      BY <1>1, <3>1, <3>2, <3>3, ItemsConcat
  <2>2. Increasing(x) /\ Increasing(d) /\ Precedes(Items(x), Items(d))
    BY IncreasingConcat DEF Sound, Ordered
  <2>3. Increasing(held \o x)
    BY <2>1, <2>2, IncreasingConcat DEF Sound, Ordered, Precedes
  <2>4. /\ Increasing(a) /\ Increasing(b) /\ Precedes(Items(a), Items(b))
        /\ Precedes(Items(a) \cup Items(b), Items(c))
    <3>1. a \o b \in Seq(Nat) /\ Items(a \o b) = Items(a) \cup Items(b)
      BY ConcatProperties, ItemsConcat
    <3>2. Increasing(a \o b) /\ Precedes(Items(a \o b), Items(c))
      BY <1>1, <2>3, <3>1, IncreasingConcat
    <3> QED
      BY <3>1, <3>2, IncreasingConcat
  <2>5. Items(a) \cup Items(b) \subseteq Items(held) \cup Items(x)
    BY <2>1
  <2>6. Precedes(Items(held) \cup Items(x), Items(d) \cup QueueItems(q) \cup Items(t))
    BY <2>1, <2>2 DEF Sound, Ordered, Precedes
  <2>7. Precedes(Items(file), Items(held) \cup Items(x) \cup Items(d) \cup QueueItems(q) \cup Items(t))
    BY <2>1 DEF Sound, Ordered, Precedes
  <2>8. Increasing(file \o a)
    BY <2>4, <2>5, <2>7, IncreasingConcat DEF Sound, Ordered, Precedes
  <2>9. Precedes(Items(file \o a), Items(b) \cup Items(d) \cup QueueItems(q) \cup Items(t))
    BY <2>1, <2>4, <2>5, <2>6, <2>7 DEF Precedes
  <2>10. Precedes(Items(b), Items(d) \cup QueueItems(q) \cup Items(t))
    BY <2>5, <2>6 DEF Precedes
  <2>11. /\ Precedes(Items(d), QueueItems(q) \cup Items(t))
         /\ Precedes(QueueItems(q), Items(t)) /\ QueueOrder(q) /\ Increasing(t)
    BY <2>1 DEF Sound, Ordered, Precedes
  <2>12. Ordered(file \o a, b, d, q, t)
    BY <2>2, <2>4, <2>8, <2>9, <2>10, <2>11 DEF Ordered
  <2>13. Content(file \o a, b, d, q, t) \cup Items(c) = Content(file, held, x \o d, q, t)
    BY <2>1 DEF Content
  <2>14. Content(file \o a, b, d, q, t) \cap Items(c) = {}
    <3>1. Items(c) \subseteq Items(held) \cup Items(x) /\ Items(c) \subseteq Nat
      BY <2>1, ItemsSmall
    <3>2. ASSUME NEW y \in Items(c)
          PROVE  /\ y \notin Items(a) \cup Items(b)
                 /\ y \notin Items(file)
                 /\ y \notin Items(d) \cup QueueItems(q) \cup Items(t)
      <4>1. y \in Nat /\ ~(y < y) /\ y \in Items(held) \cup Items(x)
        BY <3>1
      <4>2. y \notin Items(a) \cup Items(b)
        BY <2>4, <4>1 DEF Precedes
      <4>3. y \notin Items(file)
        BY <2>7, <4>1 DEF Precedes
      <4>4. y \notin Items(d) \cup QueueItems(q) \cup Items(t)
        BY <2>6, <4>1 DEF Precedes
      <4> QED
        BY <4>2, <4>3, <4>4
    <3> QED
      BY <2>1, <3>2 DEF Content
  <2> QED
    BY <2>12, <2>13, <2>14
<1>3. held' \in Seq(Nat) /\ file' \in Seq(Nat)
  BY <1>1, ConcatProperties
<1>4. lost' \in SUBSET Nat
  BY <1>1, ItemsSmall
<1>5. ~MayFail => lost' = {}
  BY <1>1, ItemsSmall DEF Sound
<1>6. Content(file', held', d, q, t) \cup lost' = 1..p
  BY <1>1, <1>2 DEF Sound
<1>7. Ordered(file', held', d, q, t)
  BY <1>1, <1>2
<1>8. Content(file', held', d, q, t) \cap lost' = {}
  BY <1>1, <1>2 DEF Sound
<1> QED
  BY <1>3, <1>4, <1>5, <1>6, <1>7, <1>8 DEF Sound
----------------------------------------------------------------------------
(***************************************************************************)
(* The inductive invariant.  Modes says which buffers the mode, the kind   *)
(* of dump and the state of the writer thread leave empty: without it,     *)
(* Flush could send `pending' ahead of older records in `pending_xt', and  *)
(* a message could be received while a batch is still in hand.             *)
(***************************************************************************)
Modes ==
  /\ mode = "Inline" => /\ buf = <<>> /\ pending = <<>> /\ pendingXt = <<>>
                        /\ chan = <<>> /\ hand = <<>>
  /\ dump = "vcd" => pendingXt = <<>>
  /\ dump = "xtrace" => pending = <<>>
  /\ worker # "batch" => hand = <<>>

\* What was lost is nowhere else.
LostGone == Content(file, held, hand, chan, Staged) \cap lost = {}

\* Every flush in the channel is behind what its caller had handed over.
FlushBehind == Marked(chan, Staged, produced)

IInv ==
  TypeOK /\ Modes /\ OneStage /\ StreamOrder /\ StreamIntact /\ LostGone /\ FlushBehind

\* The invariant in terms of Sound.
LEMMA SoundIInv ==
  IInv <=> /\ TypeOK /\ Modes /\ OneStage
           /\ Sound(file, held, hand, chan, Staged, lost, produced)
  BY DEF IInv, Sound, StreamOrder, StreamIntact, Content, LostGone, FlushBehind

\* The invariant after a step, in terms of Sound.
LEMMA SoundNext ==
  ASSUME TypeOK', Modes', OneStage', UNCHANGED medium,
         Sound(file', held', hand', chan', Staged', lost', produced')
  PROVE  IInv'
<1>1. StreamOrder'
  BY DEF Sound, StreamOrder, Ordered, QueueItems, QueueOrder, Items, Increasing, Precedes
<1>2. StreamIntact'
  BY DEF Sound, StreamIntact, MayFail, Content, QueueItems, Items
<1>3. LostGone' /\ FlushBehind'
  BY DEF Sound, LostGone, FlushBehind, Content, QueueItems, Items, Marked
<1> QED
  BY <1>1, <1>2, <1>3 DEF IInv

\* What is staged, by the buffers that may be in use.
LEMMA StagedParts ==
  ASSUME TypeOK
  PROVE  /\ Staged \in Seq(Nat)
         /\ Staged = buf \o (pending \o pendingXt)
         /\ pendingXt \o <<>> = pendingXt
         /\ buf = <<>> => Staged = pending \o pendingXt
         /\ pending = <<>> /\ pendingXt = <<>> => Staged = buf
         /\ pendingXt = <<>> => Staged = buf \o pending
         /\ pending = <<>> => Staged = buf \o pendingXt
<1>1. buf \in Seq(Nat) /\ pending \in Seq(Nat) /\ pendingXt \in Seq(Nat)
  BY DEF TypeOK
<1>2. (buf \o pending) \o pendingXt = buf \o (pending \o pendingXt)
  BY <1>1, ConcatAssociative, SMTT(30)
<1>3. /\ buf \o pending \in Seq(Nat) /\ pending \o pendingXt \in Seq(Nat)
      /\ (buf \o pending) \o pendingXt \in Seq(Nat)
  BY <1>1, ConcatProperties
<1>4. /\ pendingXt \o <<>> = pendingXt /\ buf \o <<>> = buf /\ pending \o <<>> = pending
      /\ <<>> \o pendingXt = pendingXt /\ (buf \o pending) \o <<>> = buf \o pending
      /\ <<>> \o pending = pending
      /\ <<>> \o (pending \o pendingXt) = pending \o pendingXt
  BY <1>1, <1>3, ConcatEmptySeq
<1> QED
  BY <1>2, <1>3, <1>4 DEF Staged

\* TypeOK after a step, from the types of what the step changes.
LEMMA TypeNext ==
  ASSUME TypeOK,
         sink' \in {"open", "dropping", "dropped"},
         buf' \in Seq(Nat), pending' \in Seq(Nat), pendingXt' \in Seq(Nat),
         chan' \in Seq(Msg),
         worker' \in {"recv", "batch", "exit", "done"},
         hand' \in Seq(Nat), held' \in Seq(Nat), file' \in Seq(Nat),
         writer' \in {"open", "closed"}, lost' \in SUBSET Nat,
         produced' \in Nat, flushed' \in Nat,
         UNCHANGED <<mode, dump, medium>>
  PROVE  TypeOK'
<1>1. chan' \in Seq(Msg')
  BY DEF Msg
<1> QED
  BY <1>1 DEF TypeOK

\* flush() and Drop: everything staged is sent, in order.
LEMMA DispatchAll ==
  ASSUME IInv
  PROVE  /\ DispatchBatches(SendChunk(chan)) \in Seq(Msg)
         /\ Sound(file, held, hand, DispatchBatches(SendChunk(chan)), <<>>, lost, produced)
<1>1. /\ TypeOK /\ Sound(file, held, hand, chan, buf \o (pending \o pendingXt), lost, produced)
  BY SoundIInv, StagedParts
<1>2. /\ file \in Seq(Nat) /\ held \in Seq(Nat) /\ hand \in Seq(Nat) /\ chan \in Seq(Msg)
      /\ buf \in Seq(Nat) /\ pending \in Seq(Nat) /\ pendingXt \in Seq(Nat)
      /\ produced \in Nat
      /\ pending \o pendingXt \in Seq(Nat)
  BY <1>1, ConcatProperties DEF TypeOK
<1> DEFINE q1 == SendIf(chan, "Chunk", buf)
           q2 == SendIf(q1, "VcdBatch", pending)
           q3 == SendIf(q2, "XtraceBatch", pendingXt)
<1>3. q1 \in Seq(Msg) /\ Sound(file, held, hand, q1, pending \o pendingXt, lost, produced)
  BY <1>1, <1>2, SoundSendIf
<1> HIDE DEF q1
<1>4. q2 \in Seq(Msg) /\ Sound(file, held, hand, q2, pendingXt, lost, produced)
  BY <1>2, <1>3, SoundSendIf
<1> HIDE DEF q2
<1>5. Sound(file, held, hand, q2, pendingXt \o <<>>, lost, produced) /\ <<>> \in Seq(Nat)
  BY <1>1, <1>4, StagedParts
<1>6. q3 \in Seq(Msg) /\ Sound(file, held, hand, q3, <<>>, lost, produced)
  BY <1>2, <1>4, <1>5, SoundSendIf
<1> QED
  BY <1>6 DEF DispatchBatches, SendChunk, q1, q2

\* fn write in threaded mode
LEMMA WriteThreaded ==
  ASSUME IInv, NEW n \in 1..MaxWrite, mode = "Threaded", Write(n)
  PROVE  IInv'
<1> DEFINE new == NewItems(n)
<1>1. /\ TypeOK /\ Modes /\ OneStage
      /\ Sound(file, held, hand, chan, Staged, lost, produced)
  BY SoundIInv
<1>2. /\ file \in Seq(Nat) /\ held \in Seq(Nat) /\ hand \in Seq(Nat) /\ chan \in Seq(Msg)
      /\ buf \in Seq(Nat) /\ pending \in Seq(Nat) /\ pendingXt \in Seq(Nat)
      /\ produced \in Nat /\ n \in Nat
  BY <1>1, VcdSinkAssumption DEF TypeOK
<1>3. /\ chan' = DispatchBatches(chan)
      /\ pending' = <<>> /\ pendingXt' = <<>>
      /\ buf' = buf \o new
      /\ produced' = produced + n
      /\ UNCHANGED disk
      /\ UNCHANGED <<caller, sink, worker, hand, writer, flushed>>
  BY DEF Write
<1>4. UNCHANGED <<mode, dump, medium, sink, worker, hand, held, file, lost, writer, flushed>>
  BY <1>3 DEF caller, disk
<1>5. new \in Seq(Nat) /\ Increasing(new) /\ Items(new) = produced + 1 .. produced + n
  BY <1>2, NewItemsFacts
<1> HIDE DEF new
<1>6. DispatchBatches(chan) \in Seq(Msg)
      /\ Sound(file, held, hand, DispatchBatches(chan), buf, lost, produced)
  <2>1. CASE buf = <<>>
    <3>1. SendChunk(chan) = chan
      BY <2>1 DEF SendChunk, SendIf
    <3> QED
      BY <2>1, <3>1, DispatchAll
  <2>2. CASE buf # <<>>
    <3>1. pending = <<>> /\ pendingXt = <<>>
      BY <1>1, <2>2 DEF OneStage
    <3>2. DispatchBatches(chan) = chan /\ Staged = buf
      BY <1>1, <3>1, StagedParts DEF DispatchBatches, SendIf
    <3> QED
      BY <1>1, <1>2, <3>2
  <2> QED
    BY <2>1, <2>2
<1>7. Sound(file, held, hand, DispatchBatches(chan), buf \o new, lost, produced + n)
  BY <1>2, <1>5, <1>6, SoundStage
<1>8. buf' \in Seq(Nat) /\ produced' \in Nat
  BY <1>2, <1>3, <1>5, ConcatProperties
<1>9. TypeOK'
  <2>1. chan' \in Seq(Msg')
    BY <1>3, <1>6 DEF Msg
  <2> QED
    BY <1>1, <1>3, <1>4, <1>8, <2>1 DEF TypeOK
<1>10. Modes' /\ OneStage'
  BY <1>1, <1>3, <1>4 DEF Modes, OneStage
<1>11. Staged' = buf'
  BY <1>3, <1>8, ConcatEmptySeq DEF Staged
<1>12. Sound(file', held', hand', chan', Staged', lost', produced')
  BY <1>3, <1>4, <1>7, <1>11
<1> QED
  BY <1>4, <1>9, <1>10, <1>12, SoundNext

\* A call in inline mode that hands n items to the writer.
LEMMA InlineWrite ==
  ASSUME IInv, mode = "Inline", NEW n \in Nat, NEW new \in Seq(Nat),
         Increasing(new), Items(new) = produced + 1 .. produced + n,
         WriterAccept(new), produced' = produced + n,
         UNCHANGED <<stage, chan, caller, sink, worker, hand, writer, flushed>>
  PROVE  IInv'
<1>1. /\ TypeOK /\ Modes /\ OneStage
      /\ Sound(file, held, hand, chan, Staged, lost, produced)
  BY SoundIInv
<1>2. /\ file \in Seq(Nat) /\ held \in Seq(Nat) /\ chan \in Seq(Msg)
      /\ produced \in Nat /\ lost \in SUBSET Nat
  BY <1>1 DEF TypeOK
<1>3. buf = <<>> /\ pending = <<>> /\ pendingXt = <<>> /\ chan = <<>> /\ hand = <<>>
  BY <1>1 DEF Modes
<1>4. Staged = <<>> /\ <<>> \in Seq(Nat) /\ <<>> \o new = new /\ new \o <<>> = new
  BY <1>1, <1>3, StagedParts, ConcatEmptySeq
<1>5. Sound(file, held, <<>>, <<>>, new, lost, produced + n)
  <2>1. Sound(file, held, <<>>, <<>>, <<>>, lost, produced) /\ <<>> \in Seq(Msg)
    BY <1>1, <1>2, <1>3, <1>4
  <2>2. Sound(file, held, <<>>, <<>>, <<>> \o new, lost, produced + n)
    BY <1>2, <1>4, <2>1, SoundStage
  <2> QED
    BY <1>4, <2>2
<1>6. Sound(file, held, new \o <<>>, <<>>, <<>>, lost, produced + n)
  BY <1>4, <1>5, ItemsSmall, IncreasingSmall, QueueEmpty, MarkedEmpty
     DEF Sound, Ordered, Content, Precedes
<1>7. Passes(new)
  BY <1>2, AcceptSplit
<1>8. /\ held' \in Seq(Nat) /\ file' \in Seq(Nat) /\ lost' \in SUBSET Nat
      /\ Sound(file', held', <<>>, <<>>, <<>>, lost', produced + n)
  <2>1. <<>> \in Seq(Msg)
    OBVIOUS
  <2> QED
    BY <1>2, <1>4, <1>6, <1>7, <2>1, SoundPass
<1>9. UNCHANGED <<mode, dump, medium, sink, buf, pending, pendingXt, chan, worker, hand, writer,
                  flushed>>
  BY DEF stage, caller
<1>10. TypeOK'
  <2>1. produced' \in Nat
    BY <1>2
  <2> QED
    BY <1>1, <1>8, <1>9, <2>1, TypeNext DEF TypeOK
<1>11. Modes' /\ OneStage'
  BY <1>1, <1>9 DEF Modes, OneStage
<1>12. Staged' = <<>> /\ chan' = <<>> /\ hand' = <<>>
  BY <1>3, <1>4, <1>9 DEF Staged
<1>13. Sound(file', held', hand', chan', Staged', lost', produced')
  BY <1>8, <1>12
<1> QED
  BY <1>9, <1>10, <1>11, <1>13, SoundNext

\* fn post_vcd_changes in threaded mode
LEMMA PostVcdThreaded ==
  ASSUME IInv, mode = "Threaded", PostVcdChanges
  PROVE  IInv'
<1> DEFINE batch == Append(pending, produced + 1)
           full == IF Full(batch) THEN batch ELSE <<>>
           q1 == SendIf(chan, "Chunk", buf)
           q2 == SendIf(q1, "VcdBatch", full)
<1>1. /\ TypeOK /\ Modes /\ OneStage
      /\ Sound(file, held, hand, chan, Staged, lost, produced)
  BY SoundIInv
<1>2. /\ file \in Seq(Nat) /\ held \in Seq(Nat) /\ hand \in Seq(Nat) /\ chan \in Seq(Msg)
      /\ buf \in Seq(Nat) /\ pending \in Seq(Nat) /\ produced \in Nat
  BY <1>1 DEF TypeOK
<1>3. /\ chan' = q2
      /\ buf' = <<>>
      /\ pending' = (IF Full(batch) THEN <<>> ELSE batch)
      /\ produced' = produced + 1
      /\ UNCHANGED <<pendingXt, disk>>
      /\ UNCHANGED <<caller, sink, worker, hand, writer, flushed>>
      /\ dump = "vcd"
  BY DEF PostVcdChanges, SendChunk
<1>4. UNCHANGED <<mode, dump, medium, sink, pendingXt, worker, hand, held, file, lost, writer, flushed>>
  BY <1>3 DEF caller, disk
<1>5. pendingXt = <<>> /\ Staged = buf \o pending
  BY <1>1, <1>3, StagedParts DEF Modes
<1>6. batch \in Seq(Nat) /\ batch = pending \o <<produced + 1>> /\ batch # <<>>
  <2>1. produced + 1 \in Nat
    BY <1>2
  <2> QED
    BY <1>2, <2>1, AppendIsConcat, AppendProperties
<1>7. q1 \in Seq(Msg) /\ Sound(file, held, hand, q1, pending, lost, produced)
  BY <1>1, <1>2, <1>5, SoundSendIf
<1> HIDE DEF batch, q1
<1>8. Sound(file, held, hand, q1, batch, lost, produced + 1)
  <2>1. /\ <<produced + 1>> \in Seq(Nat) /\ Increasing(<<produced + 1>>)
        /\ Items(<<produced + 1>>) = produced + 1 .. produced + 1
    BY <1>2, IncreasingSmall, ItemsSmall
  <2>2. Sound(file, held, hand, q1, pending \o <<produced + 1>>, lost, produced + 1)
    BY <1>2, <1>7, <2>1, SoundStage
  <2> QED
    BY <1>6, <2>2
<1>9. /\ chan' \in Seq(Msg) /\ pending' \in Seq(Nat)
      /\ Sound(file, held, hand, chan', pending', lost, produced + 1)
  <2>1. CASE Full(batch)
    <3>1. batch \o <<>> = batch /\ <<>> \in Seq(Nat) /\ produced + 1 \in Nat
      BY <1>2, <1>6, ConcatEmptySeq
    <3>2. Sound(file, held, hand, q1, batch \o <<>>, lost, produced + 1)
      BY <1>8, <3>1
    <3>3. /\ SendIf(q1, "VcdBatch", batch) \in Seq(Msg)
          /\ Sound(file, held, hand, SendIf(q1, "VcdBatch", batch), <<>>, lost, produced + 1)
      BY <1>2, <1>6, <1>7, <3>1, <3>2, SoundSendIf
    <3>4. full = batch /\ pending' = <<>>
      BY <1>3, <2>1, Zenon
    <3> QED
      BY <1>3, <3>1, <3>3, <3>4
  <2>2. CASE ~Full(batch)
    <3>1. full = <<>> /\ pending' = batch
      BY <1>3, <2>2, Zenon
    <3>2. q2 = q1
      BY <3>1 DEF SendIf
    <3> QED
      BY <1>3, <1>6, <1>7, <1>8, <3>1, <3>2
  <2> QED
    BY <2>1, <2>2, Zenon
<1> HIDE DEF full, q2
<1>10. TypeOK'
  <2>1. produced' \in Nat /\ buf' \in Seq(Nat)
    BY <1>2, <1>3
  <2> QED
    BY <1>1, <1>3, <1>4, <1>9, <2>1, TypeNext DEF TypeOK
<1>11. Modes' /\ OneStage'
  BY <1>1, <1>3, <1>4, <1>5 DEF Modes, OneStage
<1>12. Staged' = pending'
  BY <1>3, <1>4, <1>5, <1>9, ConcatEmptySeq DEF Staged
<1>13. Sound(file', held', hand', chan', Staged', lost', produced')
  BY <1>3, <1>4, <1>9, <1>12
<1> QED
  BY <1>4, <1>10, <1>11, <1>13, SoundNext

\* fn post_xtrace_changes in threaded mode
LEMMA PostXtraceThreaded ==
  ASSUME IInv, mode = "Threaded", PostXtraceChanges
  PROVE  IInv'
<1> DEFINE batch == Append(pendingXt, produced + 1)
           full == IF Full(batch) THEN batch ELSE <<>>
           q1 == SendIf(chan, "Chunk", buf)
           q2 == SendIf(q1, "XtraceBatch", full)
<1>1. /\ TypeOK /\ Modes /\ OneStage
      /\ Sound(file, held, hand, chan, Staged, lost, produced)
  BY SoundIInv
<1>2. /\ file \in Seq(Nat) /\ held \in Seq(Nat) /\ hand \in Seq(Nat) /\ chan \in Seq(Msg)
      /\ buf \in Seq(Nat) /\ pendingXt \in Seq(Nat) /\ produced \in Nat
  BY <1>1 DEF TypeOK
<1>3. /\ chan' = q2
      /\ buf' = <<>>
      /\ pendingXt' = (IF Full(batch) THEN <<>> ELSE batch)
      /\ produced' = produced + 1
      /\ UNCHANGED <<pending, disk>>
      /\ UNCHANGED <<caller, sink, worker, hand, writer, flushed>>
      /\ dump = "xtrace"
  BY DEF PostXtraceChanges, SendChunk
<1>4. UNCHANGED <<mode, dump, medium, sink, pending, worker, hand, held, file, lost, writer, flushed>>
  BY <1>3 DEF caller, disk
<1>5. pending = <<>> /\ Staged = buf \o pendingXt
  BY <1>1, <1>3, StagedParts DEF Modes
<1>6. batch \in Seq(Nat) /\ batch = pendingXt \o <<produced + 1>> /\ batch # <<>>
  <2>1. produced + 1 \in Nat
    BY <1>2
  <2> QED
    BY <1>2, <2>1, AppendIsConcat, AppendProperties
<1>7. q1 \in Seq(Msg) /\ Sound(file, held, hand, q1, pendingXt, lost, produced)
  BY <1>1, <1>2, <1>5, SoundSendIf
<1> HIDE DEF batch, q1
<1>8. Sound(file, held, hand, q1, batch, lost, produced + 1)
  <2>1. /\ <<produced + 1>> \in Seq(Nat) /\ Increasing(<<produced + 1>>)
        /\ Items(<<produced + 1>>) = produced + 1 .. produced + 1
    BY <1>2, IncreasingSmall, ItemsSmall
  <2>2. Sound(file, held, hand, q1, pendingXt \o <<produced + 1>>, lost, produced + 1)
    BY <1>2, <1>7, <2>1, SoundStage
  <2> QED
    BY <1>6, <2>2
<1>9. /\ chan' \in Seq(Msg) /\ pendingXt' \in Seq(Nat)
      /\ Sound(file, held, hand, chan', pendingXt', lost, produced + 1)
  <2>1. CASE Full(batch)
    <3>1. batch \o <<>> = batch /\ <<>> \in Seq(Nat) /\ produced + 1 \in Nat
      BY <1>2, <1>6, ConcatEmptySeq
    <3>2. Sound(file, held, hand, q1, batch \o <<>>, lost, produced + 1)
      BY <1>8, <3>1
    <3>3. /\ SendIf(q1, "XtraceBatch", batch) \in Seq(Msg)
          /\ Sound(file, held, hand, SendIf(q1, "XtraceBatch", batch), <<>>, lost, produced + 1)
      BY <1>2, <1>6, <1>7, <3>1, <3>2, SoundSendIf
    <3>4. full = batch /\ pendingXt' = <<>>
      BY <1>3, <2>1, Zenon
    <3> QED
      BY <1>3, <3>1, <3>3, <3>4
  <2>2. CASE ~Full(batch)
    <3>1. full = <<>> /\ pendingXt' = batch
      BY <1>3, <2>2, Zenon
    <3>2. q2 = q1
      BY <3>1 DEF SendIf
    <3> QED
      BY <1>3, <1>6, <1>7, <1>8, <3>1, <3>2
  <2> QED
    BY <2>1, <2>2, Zenon
<1> HIDE DEF full, q2
<1>10. TypeOK'
  <2>1. produced' \in Nat /\ buf' \in Seq(Nat)
    BY <1>2, <1>3
  <2> QED
    BY <1>1, <1>3, <1>4, <1>9, <2>1, TypeNext DEF TypeOK
<1>11. Modes' /\ OneStage'
  BY <1>1, <1>3, <1>4, <1>5 DEF Modes, OneStage
<1>12. Staged' = pendingXt'
  BY <1>3, <1>4, <1>5, <1>9, ConcatEmptySeq DEF Staged
<1>13. Sound(file', held', hand', chan', Staged', lost', produced')
  BY <1>3, <1>4, <1>9, <1>12
<1> QED
  BY <1>4, <1>10, <1>11, <1>13, SoundNext

\* fn flush and Drop in threaded mode: send everything, then a request.
LEMMA SendAllThen ==
  ASSUME IInv, mode = "Threaded", NEW type \in {"Flush", "Shutdown"},
         chan' = Append(DispatchBatches(SendChunk(chan)), Message(type, <<>>)),
         buf' = <<>>, pending' = <<>>, pendingXt' = <<>>,
         sink' \in {"open", "dropping"},
         UNCHANGED <<mode, dump, medium, worker, hand, held, file, lost, writer, produced,
                     flushed>>
  PROVE  IInv'
<1>1. TypeOK /\ Modes
  BY SoundIInv
<1>2. /\ file \in Seq(Nat) /\ held \in Seq(Nat) /\ hand \in Seq(Nat) /\ produced \in Nat
  BY <1>1 DEF TypeOK
<1>3. /\ DispatchBatches(SendChunk(chan)) \in Seq(Msg)
      /\ Sound(file, held, hand, DispatchBatches(SendChunk(chan)), <<>>, lost, produced)
  BY DispatchAll
<1>4. chan' \in Seq(Msg) /\ Sound(file, held, hand, chan', <<>>, lost, produced)
  <2>1. <<>> \in Seq(Nat)
    OBVIOUS
  <2> QED
    BY <1>2, <1>3, <2>1, SoundRequest
<1>5. TypeOK'
  <2>1. buf' \in Seq(Nat) /\ pending' \in Seq(Nat) /\ pendingXt' \in Seq(Nat)
    OBVIOUS
  <2> QED
    BY <1>1, <1>4, <2>1, TypeNext DEF TypeOK
<1>6. Modes' /\ OneStage'
  BY <1>1 DEF Modes, OneStage
<1>7. Staged' = <<>>
  BY DEF Staged
<1>8. Sound(file', held', hand', chan', Staged', lost', produced')
  BY <1>4, <1>7
<1> QED
  BY <1>5, <1>6, <1>8, SoundNext

\* A step in which the writer passes on what it holds, the rest being as it was
\* but for the sink, the writer thread and `flushed'.
LEMMA PassNothing ==
  ASSUME IInv, Passes(<<>>),
         sink' \in {"open", "dropping", "dropped"},
         worker' \in {"recv", "batch", "exit", "done"},
         worker' # "batch" => hand = <<>>,
         writer' \in {"open", "closed"}, flushed' \in Nat,
         UNCHANGED <<mode, dump, medium, buf, pending, pendingXt, chan, hand, produced>>
  PROVE  IInv'
<1>1. /\ TypeOK /\ Modes /\ OneStage
      /\ Sound(file, held, hand, chan, Staged, lost, produced)
  BY SoundIInv
<1>2. /\ file \in Seq(Nat) /\ held \in Seq(Nat) /\ hand \in Seq(Nat) /\ chan \in Seq(Msg)
      /\ lost \in SUBSET Nat /\ Staged \in Seq(Nat)
  BY <1>1, StagedParts DEF TypeOK
<1>3. <<>> \o hand = hand /\ <<>> \in Seq(Nat)
  BY <1>2, ConcatEmptySeq
<1>4. Sound(file, held, <<>> \o hand, chan, Staged, lost, produced)
  BY <1>1, <1>3
<1>5. /\ held' \in Seq(Nat) /\ file' \in Seq(Nat) /\ lost' \in SUBSET Nat
      /\ Sound(file', held', hand, chan, Staged, lost', produced)
  BY <1>2, <1>3, <1>4, SoundPass
<1>6. TypeOK'
  BY <1>1, <1>5, TypeNext DEF TypeOK
<1>7. Modes' /\ OneStage'
  BY <1>1 DEF Modes, OneStage
<1>8. Staged' = Staged
  BY DEF Staged
<1>9. Sound(file', held', hand', chan', Staged', lost', produced')
  BY <1>5, <1>8
<1> QED
  BY <1>6, <1>7, <1>9, SoundNext

\* A step that moves no item: the sink, the writer thread and the history change.
LEMMA StepOfHistory ==
  ASSUME IInv,
         sink' \in {"open", "dropping", "dropped"},
         worker' \in {"recv", "batch", "exit", "done"},
         worker' # "batch" => hand = <<>>,
         UNCHANGED <<mode, dump, medium, buf, pending, pendingXt, chan, hand, held, file, lost,
                     writer, produced, flushed>>
  PROVE  IInv'
<1>1. /\ TypeOK /\ Modes /\ OneStage
      /\ Sound(file, held, hand, chan, Staged, lost, produced)
  BY SoundIInv
<1>2. TypeOK'
  BY <1>1, TypeNext DEF TypeOK
<1>3. Modes' /\ OneStage'
  BY <1>1 DEF Modes, OneStage
<1>4. Staged' = Staged
  BY DEF Staged
<1>5. Sound(file', held', hand', chan', Staged', lost', produced')
  BY <1>1, <1>4
<1> QED
  BY <1>2, <1>3, <1>5, SoundNext

\* fn commit: at most one of the three buffers is in use, so that what a
\* threshold holds back is never overtaken.
LEMMA CommitThreaded ==
  ASSUME IInv, mode = "Threaded", Commit
  PROVE  IInv'
<1> DEFINE q1 == SendIf(chan, "Chunk", Over(buf, CommitThreshold))
           q2 == SendIf(q1, "VcdBatch", Over(pending, BatchFlush))
           q3 == SendIf(q2, "XtraceBatch", Over(pendingXt, BatchFlush))
<1>1. /\ TypeOK /\ Modes /\ OneStage
      /\ Sound(file, held, hand, chan, Staged, lost, produced)
  BY SoundIInv
<1>2. /\ file \in Seq(Nat) /\ held \in Seq(Nat) /\ hand \in Seq(Nat) /\ chan \in Seq(Msg)
      /\ buf \in Seq(Nat) /\ pending \in Seq(Nat) /\ pendingXt \in Seq(Nat)
      /\ produced \in Nat /\ <<>> \in Seq(Nat)
  BY <1>1 DEF TypeOK
<1>3. /\ chan' = q3
      /\ buf' = Under(buf, CommitThreshold)
      /\ pending' = Under(pending, BatchFlush)
      /\ pendingXt' = Under(pendingXt, BatchFlush)
      /\ UNCHANGED <<caller, sink, worker, hand, disk, writer, produced, flushed>>
  BY DEF Commit
<1>4. UNCHANGED <<mode, dump, medium, sink, worker, hand, held, file, lost, writer, produced, flushed>>
  BY <1>3 DEF caller, disk
<1>5. ASSUME NEW s \in Seq(Nat), NEW k
      PROVE  /\ Over(s, k) \in Seq(Nat) /\ Under(s, k) \in Seq(Nat)
             /\ Over(s, k) \o Under(s, k) = s
             /\ s = <<>> => Over(s, k) = <<>> /\ Under(s, k) = <<>>
  BY <1>5, ConcatEmptySeq DEF Over, Under
<1>6. ASSUME NEW q \in Seq(Msg), NEW type
      PROVE  SendIf(q, type, <<>>) = q
  BY DEF SendIf
\* One buffer s, of kind type with threshold k, is all that is staged.
<1>7. ASSUME NEW s \in Seq(Nat), NEW k, NEW type \in {"Chunk", "VcdBatch", "XtraceBatch"},
             Staged = s
      PROVE  /\ SendIf(chan, type, Over(s, k)) \in Seq(Msg)
             /\ Sound(file, held, hand, SendIf(chan, type, Over(s, k)), Under(s, k), lost,
                      produced)
  <2>1. /\ Over(s, k) \in Seq(Nat) /\ Under(s, k) \in Seq(Nat)
        /\ Over(s, k) \o Under(s, k) = s
    BY <1>5
  <2>2. Sound(file, held, hand, chan, Over(s, k) \o Under(s, k), lost, produced)
    BY <1>1, <1>7, <2>1
  <2> QED
    BY <1>2, <2>1, <2>2, SoundSendIf
<1>8. /\ chan' \in Seq(Msg)
      /\ Sound(file, held, hand, chan', (buf' \o pending') \o pendingXt', lost, produced)
  <2>1. CASE pending = <<>> /\ pendingXt = <<>>
    <3>1. Staged = buf /\ pending' = <<>> /\ pendingXt' = <<>>
      BY <1>1, <1>2, <1>3, <1>5, <2>1, StagedParts
    <3>2. q1 \in Seq(Msg) /\ Sound(file, held, hand, q1, buf', lost, produced)
      BY <1>2, <1>3, <1>7, <3>1
    <3> HIDE DEF q1
    <3>3. q3 = q1
      BY <1>2, <1>5, <1>6, <2>1, <3>2
    <3>4. buf' \in Seq(Nat)
      BY <1>2, <1>3, <1>5
    <3>5. (buf' \o pending') \o pendingXt' = buf'
      BY <3>1, <3>4, ConcatEmptySeq
    <3> QED
      BY <1>3, <3>2, <3>3, <3>5
  <2>2. CASE buf = <<>> /\ pendingXt = <<>>
    <3>1. Staged = pending /\ buf' = <<>> /\ pendingXt' = <<>>
      BY <1>1, <1>2, <1>3, <1>5, <2>2, StagedParts, ConcatEmptySeq
    <3>2. q1 = chan
      BY <1>2, <1>5, <1>6, <2>2
    <3>3. q2 \in Seq(Msg) /\ Sound(file, held, hand, q2, pending', lost, produced)
      BY <1>2, <1>3, <1>7, <3>1, <3>2
    <3> HIDE DEF q2
    <3>4. q3 = q2
      BY <1>2, <1>5, <1>6, <2>2, <3>3
    <3>5. pending' \in Seq(Nat)
      BY <1>2, <1>3, <1>5
    <3>6. (buf' \o pending') \o pendingXt' = pending'
      BY <3>1, <3>5, ConcatEmptySeq
    <3> QED
      BY <1>3, <3>3, <3>4, <3>6
  <2>3. CASE buf = <<>> /\ pending = <<>>
    <3>1. Staged = pendingXt /\ buf' = <<>> /\ pending' = <<>>
      BY <1>1, <1>2, <1>3, <1>5, <2>3, StagedParts, ConcatEmptySeq
    <3>2. q1 = chan
      BY <1>2, <1>5, <1>6, <2>3
    <3>3. q2 = chan
      BY <1>2, <1>5, <1>6, <2>3, <3>2
    <3>4. q3 \in Seq(Msg) /\ Sound(file, held, hand, q3, pendingXt', lost, produced)
      BY <1>2, <1>3, <1>7, <3>1, <3>3
    <3> HIDE DEF q3
    <3>5. pendingXt' \in Seq(Nat)
      BY <1>2, <1>3, <1>5
    <3>6. (buf' \o pending') \o pendingXt' = pendingXt'
      BY <3>1, <3>5, ConcatEmptySeq
    <3> QED
      BY <1>3, <3>4, <3>6
  <2> QED
    BY <1>1, <2>1, <2>2, <2>3 DEF OneStage
<1> HIDE DEF q3
<1>9. TypeOK'
  <2>1. buf' \in Seq(Nat) /\ pending' \in Seq(Nat) /\ pendingXt' \in Seq(Nat)
    BY <1>2, <1>3, <1>5
  <2> QED
    BY <1>1, <1>2, <1>3, <1>4, <1>8, <2>1, TypeNext DEF TypeOK
<1>10. Modes' /\ OneStage'
  <2>1. /\ buf = <<>> => buf' = <<>>
        /\ pending = <<>> => pending' = <<>>
        /\ pendingXt = <<>> => pendingXt' = <<>>
    BY <1>2, <1>3, <1>5
  <2> QED
    BY <1>1, <1>4, <2>1 DEF Modes, OneStage
<1>11. Sound(file', held', hand', chan', Staged', lost', produced')
  BY <1>4, <1>8 DEF Staged
<1> QED
  BY <1>4, <1>9, <1>10, <1>11, SoundNext

\* Every step of the simulation thread keeps the invariant.
LEMMA CallerStep ==
  ASSUME IInv,
         \/ \E n \in 1..MaxWrite : Write(n)
         \/ PostVcdChanges \/ PostXtraceChanges \/ Commit \/ Flush \/ Drop \/ Join
  PROVE  IInv'
<1>1. TypeOK /\ Modes /\ OneStage
  BY SoundIInv
<1>2. produced \in Nat /\ held \in Seq(Nat) /\ mode \in {"Inline", "Threaded"} /\ flushed \in Nat
  BY <1>1 DEF TypeOK
<1>3. /\ <<produced + 1>> \in Seq(Nat) /\ Increasing(<<produced + 1>>)
      /\ Items(<<produced + 1>>) = produced + 1 .. produced + 1
  BY <1>2, IncreasingSmall, ItemsSmall
<1>4. ASSUME NEW n \in 1..MaxWrite, Write(n)
      PROVE  IInv'
  <2>1. CASE mode = "Inline"
    <3>1. /\ WriterAccept(NewItems(n)) /\ produced' = produced + n
          /\ UNCHANGED <<stage, chan, caller, sink, worker, hand, writer, flushed>>
      BY <1>4, <2>1 DEF Write
    <3>2. /\ n \in Nat /\ NewItems(n) \in Seq(Nat) /\ Increasing(NewItems(n))
          /\ Items(NewItems(n)) = produced + 1 .. produced + n
      <4>1. n \in Nat
        BY VcdSinkAssumption
      <4> QED
        BY <1>2, <4>1, NewItemsFacts
    <3> QED
      BY <2>1, <3>1, <3>2, InlineWrite
  <2> QED
    BY <1>2, <1>4, <2>1, WriteThreaded
<1>5. CASE PostVcdChanges
  <2>1. CASE mode = "Inline"
    <3>1. /\ WriterAccept(<<produced + 1>>) /\ produced' = produced + 1
          /\ UNCHANGED <<stage, chan, caller, sink, worker, hand, writer, flushed>>
      BY <1>5, <2>1 DEF PostVcdChanges
    <3> QED
      BY <1>3, <2>1, <3>1, InlineWrite
  <2> QED
    BY <1>2, <1>5, <2>1, PostVcdThreaded
<1>6. CASE PostXtraceChanges
  <2>1. CASE mode = "Inline"
    <3>1. /\ WriterAccept(<<produced + 1>>) /\ produced' = produced + 1
          /\ UNCHANGED <<stage, chan, caller, sink, worker, hand, writer, flushed>>
      BY <1>6, <2>1 DEF PostXtraceChanges
    <3> QED
      BY <1>3, <2>1, <3>1, InlineWrite
  <2> QED
    BY <1>2, <1>6, <2>1, PostXtraceThreaded
<1>7. CASE Commit
  <2>1. CASE mode = "Inline"
    <3>1. UNCHANGED <<mode, dump, medium, sink, buf, pending, pendingXt, chan, worker, hand, held,
                      file, lost, writer, produced, flushed>>
      BY <1>7, <2>1 DEF Commit, stage, caller, disk
    <3> QED
      BY <1>1, <1>2, <3>1, StepOfHistory DEF TypeOK, Modes
  <2> QED
    BY <1>2, <1>7, <2>1, CommitThreaded
<1>8. CASE Flush
  <2>1. CASE mode = "Inline"
    <3>1. /\ WriterFlush(produced)
          /\ UNCHANGED <<mode, dump, medium, buf, pending, pendingXt, chan, sink, worker, hand, writer,
                         produced>>
      BY <1>8, <2>1 DEF Flush, stage, caller
    <3>2. Passes(<<>>) /\ flushed' \in Nat
      BY <1>2, <3>1, FlushSplit
    <3> QED
      BY <1>1, <3>1, <3>2, PassNothing DEF TypeOK, Modes
  <2>2. CASE mode = "Threaded"
    <3>1. /\ chan' = Append(DispatchBatches(SendChunk(chan)), Message("Flush", <<>>))
          /\ buf' = <<>> /\ pending' = <<>> /\ pendingXt' = <<>>
          /\ UNCHANGED <<mode, dump, medium, sink, worker, hand, held, file, lost, writer, produced,
                         flushed>>
          /\ sink = "open"
      BY <1>8, <2>2 DEF Flush, caller, disk
    <3> QED
      BY <2>2, <3>1, SendAllThen
  <2> QED
    BY <1>2, <2>1, <2>2
<1>9. CASE Drop
  <2>1. CASE mode = "Inline"
    <3>1. /\ WriterDrop /\ sink' = "dropped"
          /\ UNCHANGED <<mode, dump, medium, buf, pending, pendingXt, chan, worker, hand, produced,
                         flushed>>
      BY <1>9, <2>1 DEF Drop, stage, caller
    <3>2. Passes(<<>>) /\ writer' = "closed"
      BY <1>2, <3>1, DropSplit
    <3> QED
      BY <1>1, <1>2, <3>1, <3>2, PassNothing DEF TypeOK, Modes
  <2>2. CASE mode = "Threaded"
    <3>1. /\ chan' = Append(DispatchBatches(SendChunk(chan)), Message("Shutdown", <<>>))
          /\ buf' = <<>> /\ pending' = <<>> /\ pendingXt' = <<>> /\ sink' = "dropping"
          /\ UNCHANGED <<mode, dump, medium, worker, hand, held, file, lost, writer, produced,
                         flushed>>
      BY <1>9, <2>2 DEF Drop, caller, disk
    <3> QED
      BY <2>2, <3>1, SendAllThen
  <2> QED
    BY <1>2, <2>1, <2>2
<1>10. CASE Join
  <2>1. /\ sink' = "dropped"
        /\ UNCHANGED <<mode, dump, medium, buf, pending, pendingXt, chan, worker, hand, held, file,
                       lost, writer, produced, flushed>>
    BY <1>10 DEF Join, caller, stage, disk
  <2> QED
    BY <1>1, <1>2, <2>1, StepOfHistory DEF TypeOK, Modes
<1> QED
  BY <1>4, <1>5, <1>6, <1>7, <1>8, <1>9, <1>10

\* Every step of the writer thread keeps the invariant.
LEMMA WorkerStep ==
  ASSUME IInv, Worker
  PROVE  IInv'
<1>1. /\ TypeOK /\ Modes /\ OneStage
      /\ Sound(file, held, hand, chan, Staged, lost, produced)
  BY SoundIInv
<1>2. /\ file \in Seq(Nat) /\ held \in Seq(Nat) /\ hand \in Seq(Nat) /\ chan \in Seq(Msg)
      /\ lost \in SUBSET Nat /\ flushed \in Nat /\ produced \in Nat /\ <<>> \in Seq(Nat)
      /\ Staged \in Seq(Nat)
  BY <1>1, StagedParts DEF TypeOK
<1>3. ASSUME worker # "batch", chan # <<>>
      PROVE  /\ hand = <<>>
             /\ Tail(chan) \in Seq(Msg) /\ Head(chan).items \in Seq(Nat)
             /\ Head(chan).mark \in Nat
             /\ Sound(file, held, Head(chan).items, Tail(chan), Staged, lost, produced)
  <2>1. hand = <<>>
    BY <1>1, <1>3 DEF Modes
  <2>2. Sound(file, held, <<>>, chan, Staged, lost, produced)
    BY <1>1, <2>1
  <2> QED
    BY <1>2, <1>3, <2>1, <2>2, SoundReceive
<1>4. ASSUME chan # <<>> PROVE mode = "Threaded"
  BY <1>1, <1>4 DEF Modes, TypeOK
<1>5. CASE WorkerChunk
  <2>1. /\ chan # <<>> /\ worker # "batch" /\ chan' = Tail(chan)
        /\ WriterAccept(Head(chan).items)
        /\ UNCHANGED <<mode, dump, medium, sink, buf, pending, pendingXt, worker, hand, writer,
                       produced, flushed>>
    BY <1>5 DEF WorkerChunk, caller, stage
  <2>2. Head(chan).items \o <<>> = Head(chan).items /\ Passes(Head(chan).items)
    BY <1>2, <1>3, <2>1, ConcatEmptySeq, AcceptSplit
  <2>3. Sound(file, held, Head(chan).items \o <<>>, Tail(chan), Staged, lost, produced)
    BY <1>3, <2>1, <2>2
  <2>4. /\ held' \in Seq(Nat) /\ file' \in Seq(Nat) /\ lost' \in SUBSET Nat
        /\ Sound(file', held', <<>>, Tail(chan), Staged, lost', produced)
    BY <1>2, <1>3, <2>1, <2>2, <2>3, SoundPass
  <2>5. Staged' = Staged /\ hand' = <<>>
    BY <1>3, <2>1 DEF Staged
  <2>6. TypeOK'
    BY <1>1, <1>3, <2>1, <2>4, TypeNext DEF TypeOK
  <2>7. Modes' /\ OneStage'
    BY <1>1, <1>4, <2>1 DEF Modes, OneStage
  <2>8. Sound(file', held', hand', chan', Staged', lost', produced')
    BY <2>1, <2>4, <2>5
  <2> QED
    BY <2>1, <2>6, <2>7, <2>8, SoundNext
<1>6. CASE WorkerBatch
  <2>1. /\ chan # <<>> /\ worker # "batch" /\ chan' = Tail(chan)
        /\ hand' = Head(chan).items /\ worker' = "batch"
        /\ UNCHANGED <<mode, dump, medium, sink, buf, pending, pendingXt, held, file, lost, writer,
                       produced, flushed>>
    BY <1>6 DEF WorkerBatch, caller, stage, disk
  <2>2. TypeOK'
    BY <1>1, <1>3, <2>1, TypeNext DEF TypeOK
  <2>3. Modes' /\ OneStage'
    BY <1>1, <1>4, <2>1 DEF Modes, OneStage
  <2>4. Staged' = Staged
    BY <2>1 DEF Staged
  <2>5. Sound(file', held', hand', chan', Staged', lost', produced')
    BY <1>3, <2>1, <2>4
  <2> QED
    BY <2>1, <2>2, <2>3, <2>5, SoundNext
<1>7. CASE WorkerRecord
  <2>1. /\ hand # <<>> /\ worker = "batch" /\ hand' = Tail(hand)
        /\ WriterAccept(<<Head(hand)>>)
        /\ UNCHANGED <<mode, dump, medium, sink, buf, pending, pendingXt, chan, worker, writer,
                       produced, flushed>>
    BY <1>7 DEF WorkerRecord, caller, stage
  <2>2. /\ <<Head(hand)>> \in Seq(Nat) /\ Tail(hand) \in Seq(Nat)
        /\ <<Head(hand)>> \o Tail(hand) = hand
    BY <1>2, <2>1, HeadOnTail
  <2>3. Passes(<<Head(hand)>>)
    BY <1>2, <2>1, <2>2, AcceptSplit
  <2>4. Sound(file, held, <<Head(hand)>> \o Tail(hand), chan, Staged, lost, produced)
    BY <1>1, <2>2
  <2>5. /\ held' \in Seq(Nat) /\ file' \in Seq(Nat) /\ lost' \in SUBSET Nat
        /\ Sound(file', held', Tail(hand), chan, Staged, lost', produced)
    BY <1>2, <2>2, <2>3, <2>4, SoundPass
  <2>6. TypeOK'
    BY <1>1, <2>1, <2>2, <2>5, TypeNext DEF TypeOK
  <2>7. Modes' /\ OneStage'
    BY <1>1, <2>1 DEF Modes, OneStage
  <2>8. Staged' = Staged
    BY <2>1 DEF Staged
  <2>9. Sound(file', held', hand', chan', Staged', lost', produced')
    BY <2>1, <2>5, <2>8
  <2> QED
    BY <2>1, <2>6, <2>7, <2>9, SoundNext
<1>8. CASE WorkerBatchEnd
  <2>1. /\ hand = <<>> /\ worker' = "recv"
        /\ UNCHANGED <<mode, dump, medium, sink, buf, pending, pendingXt, chan, hand, held, file,
                       lost, writer, produced, flushed>>
    BY <1>8 DEF WorkerBatchEnd, caller, stage, disk
  <2> QED
    BY <1>1, <1>2, <2>1, StepOfHistory DEF TypeOK
<1>9. CASE WorkerFlush
  <2>1. /\ chan # <<>> /\ worker # "batch" /\ chan' = Tail(chan)
        /\ Head(chan).type = "Flush" /\ WriterFlush(Head(chan).mark)
        /\ UNCHANGED <<mode, dump, medium, sink, buf, pending, pendingXt, worker, hand, writer,
                       produced>>
    BY <1>9 DEF WorkerFlush, caller, stage
  <2>2. Head(chan).items = <<>>
    BY <1>2, <2>1, RequestEmpty
  <2>3. Passes(<<>>) /\ flushed' \in Nat
    BY <1>2, <1>3, <2>1, FlushSplit
  <2>4. <<>> \o <<>> = <<>>
    BY <1>2, ConcatEmptySeq
  <2>5. Sound(file, held, <<>> \o <<>>, Tail(chan), Staged, lost, produced)
    BY <1>3, <2>1, <2>2, <2>4
  <2>6. /\ held' \in Seq(Nat) /\ file' \in Seq(Nat) /\ lost' \in SUBSET Nat
        /\ Sound(file', held', <<>>, Tail(chan), Staged, lost', produced)
    BY <1>2, <1>3, <2>1, <2>3, <2>5, SoundPass
  <2>7. Staged' = Staged /\ hand' = <<>>
    BY <1>3, <2>1 DEF Staged
  <2>8. TypeOK'
    BY <1>1, <1>3, <2>1, <2>3, <2>6, TypeNext DEF TypeOK
  <2>9. Modes' /\ OneStage'
    BY <1>1, <1>4, <2>1 DEF Modes, OneStage
  <2>10. Sound(file', held', hand', chan', Staged', lost', produced')
    BY <2>1, <2>6, <2>7
  <2> QED
    BY <2>1, <2>8, <2>9, <2>10, SoundNext
<1>10. CASE WorkerShutdown
  <2>1. /\ chan # <<>> /\ worker # "batch" /\ chan' = Tail(chan)
        /\ Head(chan).type = "Shutdown" /\ worker' = "exit"
        /\ UNCHANGED <<mode, dump, medium, sink, buf, pending, pendingXt, hand, held, file, lost,
                       writer, produced, flushed>>
    BY <1>10 DEF WorkerShutdown, caller, stage, disk
  <2>2. Head(chan).items = <<>>
    BY <1>2, <2>1, RequestEmpty
  <2>3. Staged' = Staged /\ hand' = <<>>
    BY <1>3, <2>1 DEF Staged
  <2>4. TypeOK'
    BY <1>1, <1>3, <2>1, TypeNext DEF TypeOK
  <2>5. Modes' /\ OneStage'
    BY <1>1, <1>4, <2>1, <2>3 DEF Modes, OneStage
  <2>6. Sound(file', held', hand', chan', Staged', lost', produced')
    BY <1>3, <2>1, <2>2, <2>3
  <2> QED
    BY <2>1, <2>4, <2>5, <2>6, SoundNext
<1>11. CASE WorkerExit
  <2>1. /\ WriterDrop /\ worker' = "done" /\ worker = "exit"
        /\ UNCHANGED <<mode, dump, medium, sink, buf, pending, pendingXt, chan, hand, produced,
                       flushed>>
    BY <1>11 DEF WorkerExit, caller, stage
  <2>2. Passes(<<>>) /\ writer' = "closed"
    BY <1>2, <2>1, DropSplit
  <2>3. hand = <<>>
    BY <1>1, <2>1 DEF Modes
  <2> QED
    BY <1>1, <1>2, <2>1, <2>2, <2>3, PassNothing DEF TypeOK
<1> QED
  BY <1>5, <1>6, <1>7, <1>8, <1>9, <1>10, <1>11 DEF Worker

(***************************************************************************)
(* Every behaviour of the sink, its caller and its writer thread keeps the *)
(* inductive invariant.                                                    *)
(***************************************************************************)
THEOREM Invariance == Spec => []IInv
<1>1. Init => IInv
  <2> SUFFICES ASSUME Init PROVE IInv
    OBVIOUS
  <2>1. TypeOK
    BY DEF Init, TypeOK
  <2>2. Modes /\ OneStage
    BY DEF Init, Modes, OneStage
  <2>3. Staged = <<>>
    BY DEF Init, Staged
  <2>4. Ordered(<<>>, <<>>, <<>>, <<>>, <<>>)
    BY ItemsSmall, IncreasingSmall, QueueEmpty DEF Ordered, Precedes
  <2>5. StreamOrder
    BY <2>3, <2>4 DEF StreamOrder, Init
  <2>6. StreamIntact
    BY <2>3, ItemsSmall, QueueEmpty DEF StreamIntact, Init
  <2>7. LostGone /\ FlushBehind
    BY MarkedEmpty DEF LostGone, FlushBehind, Init
  <2> QED
    BY <2>1, <2>2, <2>5, <2>6, <2>7 DEF IInv
<1>2. IInv /\ [Next]_vars => IInv'
  <2> SUFFICES ASSUME IInv, [Next]_vars PROVE IInv'
    OBVIOUS
  <2>1. ASSUME UNCHANGED vars PROVE IInv'
    <3>1. /\ TypeOK /\ Modes /\ OneStage
      BY SoundIInv
    <3> QED
      BY <2>1, <3>1, StepOfHistory DEF vars, TypeOK, Modes
  <2>2. CASE Terminated
    BY <2>1, <2>2 DEF Terminated
  <2> QED
    BY <2>1, <2>2, CallerStep, WorkerStep DEF Next
<1> QED
  BY <1>1, <1>2, PTL DEF Spec

(***************************************************************************)
(* TypeOK always holds; in particular no call ever queues an empty chunk   *)
(* or an empty batch.                                                      *)
(***************************************************************************)
THEOREM TypeCorrect == Spec => []TypeOK
<1>1. IInv => TypeOK
  BY DEF IInv
<1> QED
  BY <1>1, Invariance, PTL

(***************************************************************************)
(* Whatever the two threads and the disk do, the items on their way from   *)
(* the caller of VcdSink to the file stay in the order of the calls.       *)
(***************************************************************************)
THEOREM OrderCorrect == Spec => []StreamOrder
<1>1. IInv => StreamOrder
  BY DEF IInv
<1> QED
  BY <1>1, Invariance, PTL

(***************************************************************************)
(* Everything handed to the sink is in the file or on its way there unless *)
(* a write to the file failed, and nothing else is.                        *)
(***************************************************************************)
THEOREM NothingForgotten == Spec => []StreamIntact
<1>1. IInv => StreamIntact
  BY DEF IInv
<1> QED
  BY <1>1, Invariance, PTL
----------------------------------------------------------------------------
(***************************************************************************)
(* What a step does to the file, seen from outside the sink.               *)
(***************************************************************************)
Grows ==
  /\ \E a \in Seq(Nat) : file' = file \o a
  /\ lost \subseteq lost'
  /\ produced \in Nat /\ produced' \in Nat /\ produced <= produced'

\* Whatever is written, the file and the history of losses only grow.
LEMMA PassesGrows ==
  ASSUME NEW x, Passes(x)
  PROVE  (\E a \in Seq(Nat) : file' = file \o a) /\ lost \subseteq lost'
  BY DEF Passes

LEMMA StillGrows ==
  ASSUME file \in Seq(Nat), UNCHANGED <<file, lost>>
  PROVE  (\E a \in Seq(Nat) : file' = file \o a) /\ lost \subseteq lost'
<1>1. file' = file \o <<>> /\ <<>> \in Seq(Nat)
  BY ConcatEmptySeq
<1> QED
  BY <1>1

LEMMA NextGrows ==
  ASSUME IInv, Next
  PROVE  Grows
<1>1. /\ produced \in Nat /\ file \in Seq(Nat) /\ held \in Seq(Nat) /\ chan \in Seq(Msg)
      /\ hand \in Seq(Nat) /\ lost \in SUBSET Nat
  BY DEF IInv, TypeOK
<1>2. ASSUME NEW x \in Seq(Nat), WriterAccept(x)
      PROVE  (\E a \in Seq(Nat) : file' = file \o a) /\ lost \subseteq lost'
  BY <1>1, <1>2, AcceptSplit, PassesGrows
<1>3. ASSUME NEW m, WriterFlush(m)
      PROVE  (\E a \in Seq(Nat) : file' = file \o a) /\ lost \subseteq lost'
  BY <1>1, <1>3, FlushSplit, PassesGrows
<1>4. ASSUME WriterDrop
      PROVE  (\E a \in Seq(Nat) : file' = file \o a) /\ lost \subseteq lost'
  BY <1>1, <1>4, DropSplit, PassesGrows
<1>5. ASSUME UNCHANGED <<file, lost>>
      PROVE  (\E a \in Seq(Nat) : file' = file \o a) /\ lost \subseteq lost'
  BY <1>1, <1>5, StillGrows
<1>6. ASSUME NEW n \in 1..MaxWrite, Write(n) PROVE Grows
  <2>1. /\ n \in Nat /\ produced' = produced + n
        /\ WriterAccept(NewItems(n)) \/ UNCHANGED <<file, lost>>
    BY <1>6, VcdSinkAssumption DEF Write, disk
  <2>2. NewItems(n) \in Seq(Nat)
    BY <1>1, <2>1, NewItemsFacts
  <2>3. produced' \in Nat /\ produced <= produced'
    BY <1>1, <2>1
  <2> QED
    BY <1>1, <1>2, <1>5, <2>1, <2>2, <2>3 DEF Grows
<1>7. CASE PostVcdChanges \/ PostXtraceChanges
  <2>1. /\ produced' = produced + 1
        /\ WriterAccept(<<produced + 1>>) \/ UNCHANGED <<file, lost>>
    BY <1>7 DEF PostVcdChanges, PostXtraceChanges, disk
  <2>2. <<produced + 1>> \in Seq(Nat) /\ produced' \in Nat /\ produced <= produced'
    BY <1>1, <2>1
  <2> QED
    BY <1>1, <1>2, <1>5, <2>1, <2>2 DEF Grows
<1>8. CASE Commit \/ Flush \/ Drop \/ Join \/ Terminated
  <2>1. /\ produced' = produced
        /\ WriterFlush(produced) \/ WriterDrop \/ UNCHANGED <<file, lost>>
    BY <1>8 DEF Commit, Flush, Drop, Join, Terminated, vars, disk
  <2>2. produced' \in Nat /\ produced <= produced'
    BY <1>1, <2>1
  <2> QED
    BY <1>1, <1>3, <1>4, <1>5, <2>1, <2>2 DEF Grows
<1>9. CASE Worker
  <2>1. /\ produced' = produced
        /\ \/ UNCHANGED <<file, lost>>
           \/ WriterDrop
           \/ WriterFlush(Head(chan).mark)
           \/ chan # <<>> /\ WriterAccept(Head(chan).items)
           \/ hand # <<>> /\ WriterAccept(<<Head(hand)>>)
    BY <1>9 DEF Worker, WorkerChunk, WorkerBatch, WorkerRecord, WorkerBatchEnd,
                WorkerFlush, WorkerShutdown, WorkerExit, disk
  <2>2. produced' \in Nat /\ produced <= produced'
    BY <1>1, <2>1
  <2>3. chan # <<>> => Head(chan).items \in Seq(Nat)
    <3>1. chan # <<>> => Head(chan) \in Msg
      BY <1>1, HeadTailProperties
    <3> QED
      BY <3>1, MsgFields
  <2>4. hand # <<>> => <<Head(hand)>> \in Seq(Nat)
    BY <1>1, HeadOnTail
  <2> QED
    BY <1>1, <1>2, <1>3, <1>4, <1>5, <2>1, <2>2, <2>3, <2>4 DEF Grows
<1> QED
  BY <1>6, <1>7, <1>8, <1>9 DEF Next
----------------------------------------------------------------------------
(* Flushes *)

\* A flush carried out when everything up to its mark is in the writer or past
\* it leaves all of that in the file.
LEMMA FlushedAll ==
  ASSUME IInv, FlushReaches, NEW m \in Nat, m <= produced, hand = <<>>,
         \A x \in QueueItems(chan) \cup Items(Staged) : x > m,
         WriterFlush(m)
  PROVE  FlushReaches'
<1>1. file \in Seq(Nat) /\ held \in Seq(Nat) /\ flushed \in Nat /\ produced \in Nat
  BY DEF IInv, TypeOK
<1>2. (\E a \in Seq(Nat) : file' = file \o a) /\ lost \subseteq lost'
  BY <1>1, FlushSplit, PassesGrows
<1>3. Items(file) \subseteq Items(file')
  BY <1>1, <1>2, ItemsConcat
<1>4. CASE flushed' = flushed
  BY <1>2, <1>3, <1>4 DEF FlushReaches, Items
<1>5. CASE flushed' # flushed
  <2>1. PICK out \in 0..Len(held) :
          /\ file' = file \o SubSeq(held, 1, out)
          /\ flushed' = IF out = Len(held) /\ m > flushed THEN m ELSE flushed
    BY DEF WriterFlush
  <2>2. flushed' = m /\ out = Len(held)
    BY <1>5, <2>1
  <2>3. file' = file \o held
    BY <1>1, <2>1, <2>2, SubSeqFull
  <2>4. Items(file') = Items(file) \cup Items(held)
    BY <1>1, <2>3, ItemsConcat
  <2>5. 1..m \subseteq Items(file) \cup Items(held) \cup lost
    <3>1. 1..produced = Items(file) \cup Items(held) \cup Items(<<>>) \cup QueueItems(chan)
            \cup Items(Staged) \cup lost
      BY DEF IInv, StreamIntact
    <3>2. ASSUME NEW x \in 1..m PROVE x \in Items(file) \cup Items(held) \cup lost
      <4>1. x \in 1..produced /\ ~(x > m)
        BY <1>1
      <4>2. x \notin QueueItems(chan) \cup Items(Staged)
        BY <4>1
      <4> QED
        BY <3>1, <4>1, <4>2, ItemsSmall
    <3> QED
      BY <3>2
  <2>6. 1..flushed' \subseteq Items(file') \cup lost'
    BY <1>2, <2>2, <2>4, <2>5
  <2> QED
    BY <2>6 DEF FlushReaches, Items
<1> QED
  BY <1>4, <1>5

\* No step takes anything back from the file.
LEMMA FlushedStep ==
  ASSUME IInv, FlushReaches, Next
  PROVE  FlushReaches'
<1>1. /\ file \in Seq(Nat) /\ held \in Seq(Nat) /\ chan \in Seq(Msg) /\ hand \in Seq(Nat)
      /\ produced \in Nat /\ Staged \in Seq(Nat) /\ TypeOK /\ Modes
  BY StagedParts DEF IInv, TypeOK
<1>2. Grows
  BY NextGrows
<1>3. Items(file) \subseteq Items(file') /\ lost \subseteq lost'
  BY <1>1, <1>2, ItemsConcat DEF Grows
<1>4. CASE flushed' = flushed
  BY <1>3, <1>4 DEF FlushReaches, Items
<1>5. CASE Flush /\ mode = "Inline"
  <2>1. WriterFlush(produced)
    BY <1>5 DEF Flush
  <2>2. chan = <<>> /\ hand = <<>> /\ buf = <<>> /\ pending = <<>> /\ pendingXt = <<>>
    BY <1>1, <1>5 DEF Modes
  <2>3. Staged = <<>>
    BY <1>1, <2>2, StagedParts
  <2>4. QueueItems(chan) \cup Items(Staged) = {}
    BY <2>2, <2>3, QueueEmpty, ItemsSmall
  <2> QED
    BY <1>1, <2>1, <2>2, <2>4, FlushedAll, SMTT(30)
<1>6. CASE WorkerFlush
  <2>1. /\ chan # <<>> /\ worker = "recv" /\ Head(chan).type = "Flush"
        /\ WriterFlush(Head(chan).mark)
    BY <1>6 DEF WorkerFlush
  <2>2. hand = <<>>
    BY <1>1, <2>1 DEF Modes
  <2>3. /\ Head(chan).mark <= produced
        /\ \A x \in QueueItems(Tail(chan)) \cup Items(Staged) : x > Head(chan).mark
    BY <1>1, <2>1, MarkedReceive DEF IInv, FlushBehind
  <2>4. Head(chan).items = <<>> /\ Head(chan).mark \in Nat
    <3>1. Head(chan) \in Msg
      BY <1>1, <2>1, HeadTailProperties
    <3> QED
      BY <1>1, <2>1, <3>1, MsgFields, RequestEmpty
  <2>5. QueueItems(chan) = Items(<<>>) \cup QueueItems(Tail(chan))
    <3>1. QueueOrder(chan)
      BY DEF IInv, StreamOrder, Ordered
    <3> QED
      BY <1>1, <2>1, <2>4, <3>1, QueueReceive
  <2>6. \A x \in QueueItems(chan) \cup Items(Staged) : x > Head(chan).mark
    BY <2>3, <2>5, ItemsSmall
  <2> QED
    BY <2>1, <2>2, <2>3, <2>4, <2>6, FlushedAll
<1>7. flushed' = flushed \/ (Flush /\ mode = "Inline") \/ WorkerFlush
  <2>1. ASSUME NEW n \in 1..MaxWrite, Write(n) PROVE flushed' = flushed
    BY <2>1 DEF Write
  <2>2. CASE Flush
    BY <1>1, <2>2 DEF Flush
  <2>3. CASE PostVcdChanges \/ PostXtraceChanges \/ Commit \/ Drop \/ Join \/ Terminated
    BY <2>3 DEF PostVcdChanges, PostXtraceChanges, Commit, Drop, Join, Terminated, vars
  <2>4. CASE Worker
    BY <2>4 DEF Worker, WorkerChunk, WorkerBatch, WorkerRecord, WorkerBatchEnd,
                WorkerShutdown, WorkerExit
  <2> QED
    BY <2>1, <2>2, <2>3, <2>4 DEF Next
<1> QED
  BY <1>4, <1>5, <1>6, <1>7

(***************************************************************************)
(* FlushKeeps: after a flush() was carried out, in either mode, whatever   *)
(* was handed over before that call is in the file unless a write failed.  *)
(***************************************************************************)
THEOREM FlushKeeps == Spec => []FlushReaches
<1>1. Init => FlushReaches
  BY DEF Init, FlushReaches
<1>2. IInv /\ FlushReaches /\ [Next]_vars => FlushReaches'
  <2> SUFFICES ASSUME IInv, FlushReaches, [Next]_vars PROVE FlushReaches'
    OBVIOUS
  <2>1. CASE UNCHANGED vars
    BY <2>1 DEF vars, FlushReaches, Items
  <2> QED
    BY <2>1, FlushedStep
<1> QED
  BY <1>1, <1>2, Invariance, PTL DEF Spec
----------------------------------------------------------------------------
(***************************************************************************)
(* How the sink ends.  Drop sends the only Shutdown there ever is, behind  *)
(* everything else, and the writer thread ends at it with nothing left to  *)
(* do but to drop the writer.                                              *)
(***************************************************************************)
NoShutdown(q) == \A k \in DOMAIN q : q[k].type # "Shutdown"

Ending(q) ==
  /\ q # <<>> /\ q[Len(q)].type = "Shutdown"
  /\ \A k \in DOMAIN q : q[k].type = "Shutdown" => k = Len(q)

Closing ==
  /\ mode = "Inline" =>
       /\ sink # "dropping" /\ worker = "done"
       /\ sink = "dropped" => held = <<>>
  /\ mode = "Threaded" /\ sink = "open" => worker \in {"recv", "batch"} /\ NoShutdown(chan)
  /\ mode = "Threaded" /\ sink # "open" =>
       /\ Staged = <<>>
       /\ \/ worker \in {"recv", "batch"} /\ Ending(chan) /\ sink = "dropping"
          \/ /\ worker \in {"exit", "done"} /\ chan = <<>> /\ hand = <<>>
             /\ worker = "done" => held = <<>>
             /\ sink = "dropped" => worker = "done"

\* The places of a message sent.
LEMMA Places ==
  ASSUME NEW q \in Seq(Msg), NEW m \in Msg
  PROVE  /\ Append(q, m) # <<>> /\ Append(q, m)[Len(Append(q, m))] = m
         /\ Len(Append(q, m)) = Len(q) + 1 /\ Len(q) \in Nat /\ DOMAIN q = 1 .. Len(q)
         /\ \A k \in DOMAIN Append(q, m) :
              (k \in DOMAIN q /\ Append(q, m)[k] = q[k]) \/ (k = Len(q) + 1 /\ Append(q, m)[k] = m)
<1> DEFINE r == Append(q, m)
<1>1. /\ DOMAIN r = 1 .. Len(q) + 1 /\ DOMAIN q = 1 .. Len(q) /\ Len(q) \in Nat
      /\ \A k \in 1 .. Len(q) : r[k] = q[k]
      /\ r[Len(q) + 1] = m /\ Len(r) = Len(q) + 1 /\ r \in Seq(Msg)
  BY AppendProperties, LenProperties
<1> HIDE DEF r
<1>2. r # <<>>
  BY <1>1, EmptySeq
<1>3. \A k \in 1 .. Len(q) + 1 : k \in 1 .. Len(q) \/ k = Len(q) + 1
  BY <1>1
<1> QED
  BY <1>1, <1>2, <1>3 DEF r

\* Chunks and batches are no Shutdown.
LEMMA SendKeeps ==
  ASSUME produced \in Nat, NEW q \in Seq(Msg), NEW items \in Seq(Nat),
         NEW t \in {"Chunk", "VcdBatch", "XtraceBatch"}, NoShutdown(q)
  PROVE  NoShutdown(SendIf(q, t, items)) /\ SendIf(q, t, items) \in Seq(Msg)
<1>1. SendIf(q, t, items) \in Seq(Msg)
  BY SendTyped
<1>2. CASE items = <<>>
  BY <1>1, <1>2 DEF SendIf
<1>3. CASE items # <<>>
  <2> DEFINE m == Message(t, items)
  <2>1. m \in Msg /\ m.type # "Shutdown" /\ SendIf(q, t, items) = Append(q, m)
    BY <1>3 DEF Message, Msg, SendIf
  <2> HIDE DEF m
  <2>2. NoShutdown(Append(q, m))
    BY <2>1, Places DEF NoShutdown
  <2> QED
    BY <1>1, <2>1, <2>2
<1> QED
  BY <1>2, <1>3

\* flush() and Drop send no Shutdown ahead of their own request.
LEMMA DispatchKeeps ==
  ASSUME TypeOK, NoShutdown(chan)
  PROVE  /\ NoShutdown(DispatchBatches(SendChunk(chan)))
         /\ DispatchBatches(SendChunk(chan)) \in Seq(Msg)
         /\ NoShutdown(DispatchBatches(chan))
<1>1. /\ produced \in Nat /\ chan \in Seq(Msg)
      /\ buf \in Seq(Nat) /\ pending \in Seq(Nat) /\ pendingXt \in Seq(Nat)
  BY DEF TypeOK
<1>2. ASSUME NEW q \in Seq(Msg), NoShutdown(q)
      PROVE  NoShutdown(DispatchBatches(q)) /\ DispatchBatches(q) \in Seq(Msg)
  BY <1>1, <1>2, SendKeeps DEF DispatchBatches
<1>3. NoShutdown(SendChunk(chan)) /\ SendChunk(chan) \in Seq(Msg)
  BY <1>1, SendKeeps DEF SendChunk
<1> QED
  BY <1>1, <1>2, <1>3

\* A request is the newest message.
LEMMA RequestLast ==
  ASSUME produced \in Nat, NEW q \in Seq(Msg), NoShutdown(q)
  PROVE  /\ NoShutdown(Append(q, Message("Flush", <<>>)))
         /\ Ending(Append(q, Message("Shutdown", <<>>)))
<1>1. /\ Message("Flush", <<>>) \in Msg /\ Message("Flush", <<>>).type # "Shutdown"
      /\ Message("Shutdown", <<>>) \in Msg /\ Message("Shutdown", <<>>).type = "Shutdown"
  BY DEF Message, Msg
<1>2. NoShutdown(Append(q, Message("Flush", <<>>)))
  BY <1>1, Places DEF NoShutdown
<1>3. Ending(Append(q, Message("Shutdown", <<>>)))
  BY <1>1, Places DEF NoShutdown, Ending
<1> QED
  BY <1>2, <1>3

\* The oldest message is received: the Shutdown comes last.
LEMMA TailEnding ==
  ASSUME NEW q \in Seq(Msg), q # <<>>
  PROVE  /\ NoShutdown(q) => NoShutdown(Tail(q)) /\ Head(q).type # "Shutdown"
         /\ Ending(q) /\ Head(q).type # "Shutdown" => Ending(Tail(q))
         /\ Ending(q) /\ Head(q).type = "Shutdown" => Tail(q) = <<>>
<1> DEFINE r == Tail(q)
<1>1. /\ DOMAIN r = 1 .. Len(q) - 1 /\ DOMAIN q = 1 .. Len(q) /\ Len(q) \in Nat \ {0}
      /\ \A k \in 1 .. Len(q) - 1 : r[k] = q[k + 1] /\ k + 1 \in 1 .. Len(q)
      /\ Head(q) = q[1] /\ 1 \in 1 .. Len(q)
      /\ r \in Seq(Msg) /\ Len(r) = Len(q) - 1
  BY HeadTailProperties, LenProperties, EmptySeq
<1> HIDE DEF r
<1>2. ASSUME NoShutdown(q) PROVE NoShutdown(r) /\ Head(q).type # "Shutdown"
  BY <1>1, <1>2 DEF NoShutdown
<1>3. ASSUME Ending(q), Head(q).type # "Shutdown" PROVE Ending(r)
  <2>1. Len(q) # 1 /\ Len(q) - 1 \in 1 .. Len(q) - 1 /\ Len(q) - 1 + 1 = Len(q)
    BY <1>1, <1>3 DEF Ending
  <2>2. r # <<>>
    BY <1>1, <2>1, EmptySeq
  <2>3. r[Len(r)] = q[Len(q)]
    BY <1>1, <2>1
  <2>4. ASSUME NEW k \in 1 .. Len(q) - 1, r[k].type = "Shutdown" PROVE k = Len(r)
    <3>1. q[k + 1].type = "Shutdown" /\ k + 1 \in 1 .. Len(q)
      BY <1>1, <2>4
    <3>2. k + 1 = Len(q)
      BY <1>1, <1>3, <3>1 DEF Ending
    <3>3. Len(r) = Len(q) - 1 /\ Len(q) \in Nat /\ k \in Nat
      BY <1>1
    <3> QED
      BY <3>2, <3>3
  <2> QED
    BY <1>1, <1>3, <2>2, <2>3, <2>4 DEF Ending
<1>4. ASSUME Ending(q), Head(q).type = "Shutdown" PROVE r = <<>>
  <2>1. 1 = Len(q)
    BY <1>1, <1>4 DEF Ending
  <2>2. Len(r) = 0
    BY <1>1, <2>1
  <2> QED
    BY <1>1, <2>2, EmptySeq
<1> QED
  BY <1>2, <1>3, <1>4 DEF r

\* Until Drop, the simulation thread sends no Shutdown.
LEMMA CallerCloses ==
  ASSUME IInv, Closing,
         \/ \E n \in 1..MaxWrite : Write(n)
         \/ PostVcdChanges \/ PostXtraceChanges \/ Commit \/ Flush \/ Drop \/ Join
  PROVE  Closing'
<1>1. /\ TypeOK /\ Modes /\ produced \in Nat /\ chan \in Seq(Msg)
      /\ buf \in Seq(Nat) /\ pending \in Seq(Nat) /\ pendingXt \in Seq(Nat) /\ held \in Seq(Nat)
      /\ mode \in {"Inline", "Threaded"}
  BY DEF IInv, TypeOK
<1>2. ASSUME NEW k, NEW s \in Seq(Nat) PROVE Over(s, k) \in Seq(Nat)
  BY DEF Over
\* a call that leaves the sink open
<1>3. ASSUME sink = "open", UNCHANGED <<mode, sink, worker>>,
             mode = "Threaded" => NoShutdown(chan')
      PROVE  Closing'
  BY <1>1, <1>3 DEF Closing, NoShutdown
<1>4. ASSUME NEW n \in 1..MaxWrite, Write(n) PROVE Closing'
  <2>1. /\ sink = "open" /\ UNCHANGED <<mode, sink, worker>>
        /\ chan' = DispatchBatches(chan) \/ mode = "Inline"
    BY <1>4 DEF Write, caller
  <2>2. mode = "Threaded" => NoShutdown(chan')
    BY <1>1, <2>1, DispatchKeeps DEF Closing
  <2> QED
    BY <1>3, <2>1, <2>2
<1>5. CASE PostVcdChanges
  <2> DEFINE batch == IF Full(Append(pending, produced + 1)) THEN Append(pending, produced + 1)
                      ELSE <<>>
  <2>1. /\ sink = "open" /\ UNCHANGED <<mode, sink, worker>>
        /\ chan' = SendIf(SendIf(chan, "Chunk", buf), "VcdBatch", batch) \/ mode = "Inline"
    BY <1>5 DEF PostVcdChanges, caller, SendChunk
  <2>2. batch \in Seq(Nat)
    <3>1. produced + 1 \in Nat
      BY <1>1
    <3> QED
      BY <1>1, <3>1, AppendProperties
  <2> HIDE DEF batch
  <2>3. mode = "Threaded" => NoShutdown(chan')
    BY <1>1, <2>1, <2>2, SendKeeps DEF Closing
  <2> QED
    BY <1>3, <2>1, <2>3
<1>6. CASE PostXtraceChanges
  <2> DEFINE batch == IF Full(Append(pendingXt, produced + 1)) THEN Append(pendingXt, produced + 1)
                      ELSE <<>>
  <2>1. /\ sink = "open" /\ UNCHANGED <<mode, sink, worker>>
        /\ chan' = SendIf(SendIf(chan, "Chunk", buf), "XtraceBatch", batch) \/ mode = "Inline"
    BY <1>6 DEF PostXtraceChanges, caller, SendChunk
  <2>2. batch \in Seq(Nat)
    <3>1. produced + 1 \in Nat
      BY <1>1
    <3> QED
      BY <1>1, <3>1, AppendProperties
  <2> HIDE DEF batch
  <2>3. mode = "Threaded" => NoShutdown(chan')
    BY <1>1, <2>1, <2>2, SendKeeps DEF Closing
  <2> QED
    BY <1>3, <2>1, <2>3
<1>7. CASE Commit
  <2> DEFINE q1 == SendIf(chan, "Chunk", Over(buf, CommitThreshold))
             q2 == SendIf(q1, "VcdBatch", Over(pending, BatchFlush))
             q3 == SendIf(q2, "XtraceBatch", Over(pendingXt, BatchFlush))
  <2>1. /\ sink = "open" /\ UNCHANGED <<mode, sink, worker>>
        /\ chan' = q3 \/ mode = "Inline"
    BY <1>7 DEF Commit, caller
  <2>2. ASSUME NoShutdown(chan) PROVE NoShutdown(q3)
    <3>1. q1 \in Seq(Msg) /\ NoShutdown(q1)
      BY <1>1, <1>2, <2>2, SendKeeps
    <3> HIDE DEF q1
    <3>2. q2 \in Seq(Msg) /\ NoShutdown(q2)
      BY <1>1, <1>2, <3>1, SendKeeps
    <3> HIDE DEF q2
    <3> QED
      BY <1>1, <1>2, <3>2, SendKeeps
  <2> HIDE DEF q3
  <2>3. mode = "Threaded" => NoShutdown(chan')
    BY <1>1, <2>1, <2>2 DEF Closing
  <2> QED
    BY <1>3, <2>1, <2>3
<1>8. CASE Flush
  <2>1. /\ sink = "open" /\ UNCHANGED <<mode, sink, worker>>
        /\ \/ chan' = Append(DispatchBatches(SendChunk(chan)), Message("Flush", <<>>))
           \/ mode = "Inline"
    BY <1>8 DEF Flush, caller
  <2>2. mode = "Threaded" => NoShutdown(chan')
    BY <1>1, <2>1, DispatchKeeps, RequestLast DEF Closing
  <2> QED
    BY <1>3, <2>1, <2>2
<1>9. CASE Drop
  <2>1. sink = "open" /\ UNCHANGED <<mode, worker>>
    BY <1>9 DEF Drop, caller
  <2>2. CASE mode = "Inline"
    <3>1. WriterDrop /\ sink' = "dropped"
      BY <1>9, <2>2 DEF Drop
    <3>2. held' = <<>>
      BY <1>1, <3>1, DropSplit
    <3> QED
      BY <2>1, <2>2, <3>1, <3>2 DEF Closing
  <2>3. CASE mode = "Threaded"
    <3>1. /\ chan' = Append(DispatchBatches(SendChunk(chan)), Message("Shutdown", <<>>))
          /\ buf' = <<>> /\ pending' = <<>> /\ pendingXt' = <<>> /\ sink' = "dropping"
      BY <1>9, <2>3 DEF Drop
    <3>2. Ending(chan') /\ worker' \in {"recv", "batch"}
      BY <1>1, <2>1, <2>3, <3>1, DispatchKeeps, RequestLast DEF Closing
    <3>3. Staged' = <<>>
      BY <3>1 DEF Staged
    <3> QED
      BY <2>1, <2>3, <3>1, <3>2, <3>3 DEF Closing, Ending
  <2> QED
    BY <1>1, <2>2, <2>3
<1>10. CASE Join
  <2>1. /\ sink = "dropping" /\ worker = "done" /\ sink' = "dropped"
        /\ UNCHANGED <<mode, buf, pending, pendingXt, chan, worker, hand, held>>
    BY <1>10 DEF Join, caller, stage, disk
  <2> QED
    BY <1>1, <2>1 DEF Closing, Staged
<1> QED
  BY <1>4, <1>5, <1>6, <1>7, <1>8, <1>9, <1>10

\* The writer thread ends at the Shutdown, with the channel empty.
LEMMA WorkerCloses ==
  ASSUME IInv, Closing, Worker
  PROVE  Closing'
<1>1. /\ TypeOK /\ Modes /\ chan \in Seq(Msg) /\ held \in Seq(Nat)
      /\ mode \in {"Inline", "Threaded"} /\ sink \in {"open", "dropping", "dropped"}
      /\ UNCHANGED <<mode, sink, buf, pending, pendingXt>>
  BY DEF IInv, TypeOK, Worker, WorkerChunk, WorkerBatch, WorkerRecord, WorkerBatchEnd,
         WorkerFlush, WorkerShutdown, WorkerExit, caller, stage
<1>2. mode = "Threaded" /\ Staged' = Staged
  BY <1>1 DEF Closing, Worker, WorkerChunk, WorkerBatch, WorkerRecord, WorkerBatchEnd,
              WorkerFlush, WorkerShutdown, WorkerExit, Staged
<1>3. CASE WorkerChunk \/ WorkerBatch \/ WorkerFlush
  <2>1. /\ worker = "recv" /\ chan # <<>> /\ Head(chan).type # "Shutdown"
        /\ chan' = Tail(chan) /\ worker' \in {"recv", "batch"}
    BY <1>3 DEF WorkerChunk, WorkerBatch, WorkerFlush
  <2>2. /\ NoShutdown(chan) => NoShutdown(chan')
        /\ Ending(chan) => Ending(chan')
    BY <1>1, <2>1, TailEnding
  <2> QED
    BY <1>1, <1>2, <2>1, <2>2 DEF Closing, NoShutdown, Ending
<1>4. CASE WorkerRecord \/ WorkerBatchEnd
  <2>1. worker = "batch" /\ worker' \in {"recv", "batch"} /\ chan' = chan
    BY <1>4 DEF WorkerRecord, WorkerBatchEnd
  <2> QED
    BY <1>1, <1>2, <2>1 DEF Closing, NoShutdown, Ending
<1>5. CASE WorkerShutdown
  <2>1. /\ worker = "recv" /\ chan # <<>> /\ Head(chan).type = "Shutdown"
        /\ chan' = Tail(chan) /\ worker' = "exit" /\ hand' = hand
    BY <1>5 DEF WorkerShutdown
  <2>2. ~NoShutdown(chan)
    BY <1>1, <2>1, TailEnding
  <2>3. sink = "dropping" /\ Ending(chan) /\ Staged = <<>>
    BY <1>1, <1>2, <2>1, <2>2 DEF Closing
  <2>4. chan' = <<>> /\ hand' = <<>>
    BY <1>1, <2>1, <2>3, TailEnding DEF Modes
  <2> QED
    BY <1>1, <1>2, <2>1, <2>3, <2>4 DEF Closing
<1>6. CASE WorkerExit
  <2>1. worker = "exit" /\ worker' = "done" /\ WriterDrop /\ UNCHANGED <<chan, hand>>
    BY <1>6 DEF WorkerExit
  <2>2. held' = <<>>
    BY <1>1, <2>1, DropSplit
  <2> QED
    BY <1>1, <1>2, <2>1, <2>2 DEF Closing
<1> QED
  BY <1>3, <1>4, <1>5, <1>6 DEF Worker

LEMMA ClosingHolds == Spec => []Closing
<1>1. Init => Closing
  BY DEF Init, Closing, NoShutdown
<1>2. IInv /\ Closing /\ [Next]_vars => Closing'
  <2> SUFFICES ASSUME IInv, Closing, [Next]_vars PROVE Closing'
    OBVIOUS
  <2>1. ASSUME UNCHANGED vars PROVE Closing'
    BY <2>1 DEF vars, Closing, NoShutdown, Ending, Staged
  <2>2. CASE Terminated
    BY <2>1, <2>2 DEF Terminated
  <2> QED
    BY <2>1, <2>2, CallerCloses, WorkerCloses DEF Next
<1> QED
  BY <1>1, <1>2, Invariance, PTL DEF Spec
----------------------------------------------------------------------------
(* Refinement *)

\* The file of a sound pipeline holds all that was handed over up to its
\* newest item, except what was lost.
LEMMA SoundFaithful ==
  ASSUME NEW f \in Seq(Nat), NEW h, NEW d, NEW q, NEW t, NEW l, NEW p \in Nat,
         Sound(f, h, d, q, t, l, p)
  PROVE  /\ Stream!Newest(f) \in 0..p
         /\ Stream!Faithful(f, l, Stream!Newest(f))
<1> DEFINE n == Stream!Newest(f)
<1>1. /\ DOMAIN f = 1 .. Len(f) /\ Len(f) \in Nat /\ Items(f) \subseteq Nat
      /\ Stream!ToSet(f) = Items(f)
  BY LenProperties, ItemsSmall DEF Stream!ToSet, Items
<1>2. /\ Increasing(f)
      /\ Precedes(Items(f), Items(h) \cup Items(d) \cup QueueItems(q) \cup Items(t))
      /\ Items(f) \cup Items(h) \cup Items(d) \cup QueueItems(q) \cup Items(t) \cup l = 1..p
      /\ Items(f) \cap l = {}
  BY DEF Sound, Ordered, Content
<1>3. n \in 0..p /\ Items(f) = 1..n \ l
  <2>1. CASE f = <<>>
    <3>1. n = 0 /\ Items(f) = {}
      BY <2>1, ItemsSmall DEF Stream!Newest
    <3> QED
      BY <3>1
  <2>2. CASE f # <<>>
    <3>1. Len(f) \in 1 .. Len(f) /\ n = f[Len(f)]
      BY <1>1, <2>2, EmptySeq DEF Stream!Newest
    <3>2. n \in Items(f)
      BY <1>1, <3>1 DEF Items
    <3>3. n \in 1..p
      BY <1>2, <3>2
    <3>4. ASSUME NEW x \in Items(f) PROVE x \in 1..n
      <4>1. PICK i \in 1 .. Len(f) : x = f[i]
        BY <1>1 DEF Items
      <4>2. i = Len(f) \/ i < Len(f)
        <5>1. Len(f) \in Nat
          BY <1>1
        <5> QED
          BY <5>1
      <4>3. x = n \/ x < n
        BY <1>1, <1>2, <3>1, <4>1, <4>2 DEF Increasing
      <4>4. x \in 1..p
        BY <1>2
      <4> QED
        BY <3>3, <4>3, <4>4
    <3>5. ASSUME NEW x \in 1..n, x \notin l PROVE x \in Items(f)
      <4>1. x \in 1..p /\ ~(n < x)
        BY <3>3
      <4>2. x \notin Items(h) \cup Items(d) \cup QueueItems(q) \cup Items(t)
        BY <1>2, <3>2, <4>1 DEF Precedes
      <4> QED
        BY <1>2, <3>5, <4>1, <4>2
    <3>6. Items(f) = 1..n \ l
      BY <1>2, <3>4, <3>5
    <3> QED
      BY <3>3, <3>6
  <2> QED
    BY <2>1, <2>2
<1> HIDE DEF n
<1>4. \A i, j \in DOMAIN f : i < j => f[i] < f[j]
  BY <1>2 DEF Increasing
<1>5. Stream!Faithful(f, l, n)
  BY <1>1, <1>3, <1>4 DEF Stream!Faithful
<1> QED
  BY <1>3, <1>5 DEF n

\* Once the pipeline is empty the file has everything but what was lost.
LEMMA EmptyFaithful ==
  ASSUME NEW f \in Seq(Nat), NEW l, NEW p \in Nat,
         Sound(f, <<>>, <<>>, <<>>, <<>>, l, p)
  PROVE  Stream!Faithful(f, l, p)
<1>1. Items(<<>>) = {} /\ QueueItems(<<>>) = {}
  BY ItemsSmall, QueueEmpty
<1>2. Items(f) \cup l = 1..p /\ Items(f) \cap l = {}
  BY <1>1 DEF Sound, Content
<1>3. Stream!ToSet(f) = 1..p \ l
  <2>1. Stream!ToSet(f) = Items(f)
    BY DEF Stream!ToSet, Items
  <2> QED
    BY <1>2, <2>1
<1>4. \A i, j \in DOMAIN f : i < j => f[i] < f[j]
  BY DEF Sound, Ordered, Increasing
<1> QED
  BY <1>3, <1>4 DEF Stream!Faithful

\* A file that has grown extends the one before.
LEMMA GrownPrefix ==
  ASSUME NEW f \in Seq(Nat), NEW a \in Seq(Nat)
  PROVE  Stream!IsPrefix(f, f \o a)
<1> DEFINE g == f \o a
<1>1. /\ g \in Seq(Nat) /\ Len(g) = Len(f) + Len(a)
      /\ \A i \in 1 .. Len(f) + Len(a) : g[i] = IF i <= Len(f) THEN f[i] ELSE a[i - Len(f)]
      /\ Len(f) \in Nat /\ Len(a) \in Nat
  BY ConcatProperties
<1> HIDE DEF g
<1>2. ASSUME NEW i \in 1 .. Len(f) PROVE f[i] = g[i]
  <2>1. Len(f) \in Nat /\ Len(a) \in Nat
    BY <1>1
  <2>2. i <= Len(f) /\ i \in 1 .. Len(f) + Len(a)
    BY <2>1
  <2> QED
    BY <1>1, <2>2
<1>3. SubSeq(f, 1, Len(f)) = [i \in 1 .. Len(f) |-> f[i]]
  BY <1>1
<1>4. SubSeq(g, 1, Len(f)) = [i \in 1 .. Len(f) |-> g[i]]
  BY <1>1
<1>5. Len(f) <= Len(g)
  BY <1>1
<1> QED
  BY <1>2, <1>3, <1>4, <1>5 DEF Stream!IsPrefix, g

\* The invariant after a step, in terms of Sound.
LEMMA SoundAfter ==
  ASSUME IInv', UNCHANGED medium
  PROVE  /\ Sound(file', held', hand', chan', Staged', lost', produced')
         /\ file' \in Seq(Nat) /\ produced' \in Nat
<1>1. Ordered(file', held', hand', chan', Staged')
  BY DEF IInv, StreamOrder, Ordered, QueueItems, QueueOrder, Items, Increasing, Precedes
<1>2. Content(file', held', hand', chan', Staged') \cup lost' = 1..produced' /\ (~MayFail => lost' = {})
  BY DEF IInv, StreamIntact, MayFail, Content, QueueItems, Items
<1>3. /\ Content(file', held', hand', chan', Staged') \cap lost' = {}
      /\ Marked(chan', Staged', produced')
  BY DEF IInv, LostGone, FlushBehind, Content, QueueItems, Items, Marked
<1>4. file' \in Seq(Nat) /\ produced' \in Nat
  BY DEF IInv, TypeOK
<1> QED
  BY <1>1, <1>2, <1>3, <1>4 DEF Sound

\* When Drop has returned nothing moves; when it returns nothing is accepted.
LEMMA DroppedStill ==
  ASSUME IInv, Closing, Next
  PROVE  /\ sink = "dropped" => UNCHANGED <<sink, file, lost, produced>>
         /\ sink' = "dropped" => produced' = produced
         /\ UNCHANGED medium
<1>1. sink = "dropped" => worker = "done"
  BY DEF Closing, IInv, TypeOK
<1>2. ASSUME NEW n \in 1..MaxWrite, Write(n)
      PROVE  sink = "open" /\ UNCHANGED <<sink, medium>>
  BY <1>2 DEF Write, caller
<1>3. CASE PostVcdChanges \/ PostXtraceChanges \/ Commit \/ Flush
  <2>1. sink = "open" /\ UNCHANGED <<sink, medium>>
    BY <1>3 DEF PostVcdChanges, PostXtraceChanges, Commit, Flush, caller
  <2> QED
    BY <2>1
<1>4. CASE Drop \/ Join
  <2>1. sink # "dropped" /\ UNCHANGED <<medium, produced>>
    BY <1>4 DEF Drop, Join, caller
  <2> QED
    BY <2>1
<1>5. CASE Worker
  <2>1. worker # "done" /\ UNCHANGED <<sink, medium, produced>>
    BY <1>5 DEF Worker, WorkerChunk, WorkerBatch, WorkerRecord, WorkerBatchEnd,
                WorkerFlush, WorkerShutdown, WorkerExit, caller
  <2> QED
    BY <1>1, <2>1
<1>6. CASE Terminated
  BY <1>6 DEF Terminated, vars
<1> QED
  BY <1>2, <1>3, <1>4, <1>5, <1>6 DEF Next

LEMMA StreamStep ==
  ASSUME IInv, IInv', Closing, Closing', [Next]_vars
  PROVE  [Stream!Next]_(Stream!streamVars)
<1>1. CASE UNCHANGED vars
  BY <1>1 DEF vars, Stream!streamVars
<1>2. CASE Next
  <2>1. Grows
    BY <1>2, NextGrows
  <2>2. /\ sink = "dropped" => UNCHANGED <<sink, file, lost, produced>>
        /\ sink' = "dropped" => produced' = produced
        /\ UNCHANGED medium
    BY <1>2, DroppedStill
  <2>3. /\ Sound(file, held, hand, chan, Staged, lost, produced)
        /\ file \in Seq(Nat) /\ produced \in Nat /\ TypeOK
    BY SoundIInv DEF TypeOK
  <2>4. /\ Sound(file', held', hand', chan', Staged', lost', produced')
        /\ file' \in Seq(Nat) /\ produced' \in Nat
    BY <2>2, SoundAfter
  <2>5. /\ Stream!Newest(file) \in 0..produced
        /\ Stream!Faithful(file, lost, Stream!Newest(file))
    BY <2>3, SoundFaithful
  <2>6. /\ Stream!Newest(file') \in 0..produced'
        /\ Stream!Faithful(file', lost', Stream!Newest(file'))
    BY <2>4, SoundFaithful
  <2>7. PICK a \in Seq(Nat) : file' = file \o a
    BY <2>1 DEF Grows
  <2>8. Stream!IsPrefix(file, file')
    BY <2>3, <2>7, GrownPrefix
  <2>9. lost \subseteq lost'
    BY <2>1 DEF Grows
  <2>10. lost' \ lost \subseteq Stream!Newest(file) + 1 .. produced'
    <3>1. ASSUME NEW x \in lost', x \notin lost
          PROVE  x \in Stream!Newest(file) + 1 .. produced'
      <4>1. x \in 1..produced' /\ x \notin Items(file')
        BY <2>4 DEF Sound, Content
      <4>2. x \notin Items(file)
        BY <2>3, <2>7, <4>1, ItemsConcat
      <4>3. x \notin 1 .. Stream!Newest(file)
        <5>1. Items(file) = 1 .. Stream!Newest(file) \ lost
          BY <2>5 DEF Stream!Faithful, Stream!ToSet, Items
        <5> QED
          BY <3>1, <4>2, <5>1
      <4> QED
        BY <2>4, <2>5, <4>1, <4>3
    <3> QED
      BY <3>1
  <2>11. CASE sink = "dropped"
    BY <2>2, <2>11 DEF Stream!streamVars
  <2>12. CASE sink # "dropped" /\ sink' # "dropped"
    <3>1. Stream!Newest(file') <= produced' /\ produced' >= produced
      BY <2>1, <2>6 DEF Grows
    <3>2. Stream!Transfer
      BY <2>4, <2>6, <2>8, <2>9, <2>10, <2>12, <3>1 DEF Stream!Transfer
    <3> QED
      BY <3>2 DEF Stream!Next
  <2>13. CASE sink # "dropped" /\ sink' = "dropped"
    <3>1. held' = <<>> /\ hand' = <<>> /\ chan' = <<>> /\ Staged' = <<>>
      <4>1. mode' \in {"Inline", "Threaded"}
        BY DEF IInv, TypeOK
      <4>2. CASE mode' = "Inline"
        <5>1. held' = <<>>
          BY <2>13, <4>2 DEF Closing
        <5>2. hand' = <<>> /\ chan' = <<>> /\ buf' = <<>> /\ pending' = <<>> /\ pendingXt' = <<>>
          BY <4>2 DEF IInv, Modes
        <5> QED
          BY <5>1, <5>2 DEF Staged
      <4>3. CASE mode' = "Threaded"
        BY <2>13, <4>3 DEF Closing
      <4> QED
        BY <4>1, <4>2, <4>3
    <3>2. Sound(file', <<>>, <<>>, <<>>, <<>>, lost', produced)
      BY <2>2, <2>4, <2>13, <3>1
    <3>3. Stream!Faithful(file', lost', produced)
      BY <2>3, <2>4, <3>2, EmptyFaithful
    <3>4. Stream!Close
      BY <2>2, <2>8, <2>9, <2>13, <3>3 DEF Stream!Close
    <3> QED
      BY <3>4 DEF Stream!Next
  <2> QED
    BY <2>11, <2>12, <2>13
<1> QED
  BY <1>1, <1>2

(***************************************************************************)
(* Refines: the dump sink, in both modes, is a DumpStream: the file grows  *)
(* by what was handed over, in order and without a gap other than what a   *)
(* failed write dropped, and holds all of it once Drop has returned.       *)
(***************************************************************************)
THEOREM Refines == Spec => Implements
<1>1. Init => Stream!Init
  BY DEF Init, Stream!Init
<1>2. IInv /\ IInv' /\ Closing /\ Closing' /\ [Next]_vars => [Stream!Next]_(Stream!streamVars)
  BY StreamStep
<1> QED
  BY <1>1, <1>2, Invariance, ClosingHolds, PTL DEF Spec, Implements, Stream!Spec
=============================================================================
