----------------------------- MODULE ValueProofs ----------------------------
(***************************************************************************)
(* Proofs about the four-state values of src/value.rs, for every word      *)
(* size and width.  Each operator is first shown bit by bit: the words,    *)
(* chunks and masks of its several implementations are reduced to the      *)
(* positions they set, and these to what the language says of the          *)
(* position.  An operator relies on planes that are clear above the width  *)
(* and leaves them so, which is why one invariant holds both facts.        *)
(*                                                                         *)
(* What arithmetic computes is not proved here (the provers know nothing   *)
(* of powers of two), only that its results are clear above the width.     *)
(***************************************************************************)
EXTENDS ValueOps, OrderLemmas

-----------------------------------------------------------------------------
(* Words *)

\* A position is a bit of a word.
LEMMA InWord ==
  ASSUME NEW p \in Nat
  PROVE  p \div W \in Nat /\ p % W \in 0 .. W-1 /\ p = (p \div W) * W + (p % W)
BY ValueAssumption

\* A bit of a word is a position of its own.
LEMMA AtWord ==
  ASSUME NEW k \in Nat, NEW b \in 0 .. W-1
  PROVE  k * W + b \in Nat /\ (k * W + b) \div W = k /\ (k * W + b) % W = b
BY ValueAssumption

\* The words of a value hold all its bits, and no more when it fills them.
LEMMA NWordsFacts ==
  ASSUME NEW n \in Nat
  PROVE  /\ NWords(n) \in Nat \ {0} /\ n <= NWords(n) * W
         /\ n # 0 /\ n % W = 0 => NWords(n) * W = n
<1> DEFINE m == Larger(n, 1) + W - 1
<1>1. W \in Nat \ {0}
  BY ValueAssumption
<1>2. m \in Nat /\ m >= W /\ n <= m - W + 1 /\ (n # 0 => m = n + W - 1)
  BY <1>1 DEF Larger
<1> HIDE DEF m
<1>3. m \div W \in Nat /\ m = (m \div W) * W + (m % W) /\ m % W \in 0 .. W-1
  BY <1>2, InWord
<1>4. m \div W # 0
  BY <1>1, <1>2, <1>3
<1>5. n <= (m \div W) * W
  BY <1>1, <1>2, <1>3
<1>6. ASSUME n # 0, n % W = 0 PROVE (m \div W) * W = n
  <2> DEFINE q == n \div W
  <2>0. q \in Nat /\ n = q * W + (n % W)
    BY InWord
  <2> HIDE DEF q
  <2>1. n = q * W
    BY <1>1, <1>6, <2>0
  <2>2. m = q * W + (W - 1)
    BY <1>1, <1>2, <1>6, <2>0, <2>1
  <2>3. m \div W = q
    BY <1>1, <2>0, <2>2, AtWord
  <2> QED
    BY <2>1, <2>3
<1> QED
  BY <1>3, <1>4, <1>5, <1>6 DEF NWords, m

\* Masking the top word leaves the positions of the value.
LEMMA MaskTopFacts ==
  ASSUME NEW n \in Nat \ {0}, NEW plane \in SUBSET WordBits(n)
  PROVE  MaskTop(plane, n) = plane \cap Mask(n)
<1>1. CASE n % W = 0
  BY <1>1, NWordsFacts DEF MaskTop, Mask, WordBits
<1>2. CASE n % W # 0
  BY <1>2 DEF MaskTop
<1> QED
  BY <1>1, <1>2

\* The words of a value hold at least its bits.
LEMMA WordBitsFacts ==
  ASSUME NEW n \in Nat
  PROVE  WordBits(n) \subseteq Nat /\ Mask(n) \subseteq WordBits(n)
<1>1. NWords(n) \in Nat /\ n <= NWords(n) * W /\ W \in Nat
  BY NWordsFacts, ValueAssumption
<1>2. NWords(n) * W \in Nat
  BY <1>1
<1> QED
  BY <1>1, <1>2 DEF Mask, WordBits

\* A value of one bit throughout.
LEMMA FilledFacts ==
  ASSUME NEW n \in Nat, NEW bit
  PROVE  Filled(n, bit) = Plain(IF bit \in {"1", "z"} THEN Mask(n) ELSE {},
                                IF bit \in {"x", "z"} THEN Mask(n) ELSE {}, n, FALSE)
<1>1. CASE n <= W
  BY <1>1 DEF Filled
<1>2. CASE ~(n <= W)
  <2>1. n \in Nat \ {0}
    BY <1>2, ValueAssumption
  <2>2. MaskTop(WordBits(n), n) = Mask(n)
    <3>1. Mask(n) \subseteq WordBits(n)
      BY WordBitsFacts
    <3>2. WordBits(n) \in SUBSET WordBits(n)
      OBVIOUS
    <3>3. MaskTop(WordBits(n), n) = WordBits(n) \cap Mask(n)
      BY <2>1, <3>2, MaskTopFacts
    <3> QED
      BY <3>1, <3>3
  <2> QED
    BY <1>2, <2>2 DEF Filled
<1> QED
  BY <1>1, <1>2

\* A shift up within a word, by less than a word.
LEMMA ShlFacts ==
  ASSUME NEW word \in SUBSET Nat, NEW n \in 0 .. W-1
  PROVE  Shl(word, n) = {i \in 0 .. W-1 : i - n \in word}
<1>1. n % W = n /\ W \in Nat \ {0}
  BY ValueAssumption
<1>2. Shl(word, n) = {b + n : b \in word} \cap (0 .. W-1)
  BY <1>1 DEF Shl
<1> QED
  BY <1>1, <1>2

\* A shift down by less than a word.
LEMMA ShrFacts ==
  ASSUME NEW word \in SUBSET Nat, NEW n \in 0 .. W-1
  PROVE  Shr(word, n) = {i \in Nat : i + n \in word}
<1>1. n % W = n /\ W \in Nat \ {0}
  BY ValueAssumption
<1>2. Shr(word, n) = {b - n : b \in {c \in word : c >= n}}
  BY <1>1 DEF Shr
<1>3. ASSUME NEW i \in Nat, i + n \in word PROVE i \in {b - n : b \in {c \in word : c >= n}}
  <2>1. i = (i + n) - n /\ i + n >= n
    BY <1>1
  <2> QED
    BY <1>3, <2>1
<1> QED
  BY <1>1, <1>2, <1>3

\* `n` bits of a plane from `pos` on, read across the words.
LEMMA ExtractFacts ==
  ASSUME NEW plane \in SUBSET Nat, NEW pos \in Nat, NEW n \in Nat
  PROVE  Extract64(plane, pos, n) = {b \in Mask(Smaller(n, W)) : pos + b \in plane}
<1> DEFINE off == pos % W
           k == pos \div W
           lo == Shr(Word(plane, k), off)
           hi == IF off > 0 THEN Shl(Word(plane, k + 1), W - off) ELSE {}
<1>1. W \in Nat \ {0} /\ k \in Nat /\ off \in 0 .. W-1 /\ pos = k * W + off
  BY ValueAssumption, InWord
<1>2. \A j \in Nat : Word(plane, j) \in SUBSET Nat /\ \A b \in 0 .. W-1 : b \in Word(plane, j) <=> j * W + b \in plane
  BY <1>1 DEF Word
<1>3. \A j \in Nat : \A b \in Word(plane, j) : b \in 0 .. W-1
  BY DEF Word
<1>4. Extract64(plane, pos, n) = (lo \cup hi) \cap Mask(Smaller(n, W))
  BY DEF Extract64
<1> HIDE DEF off, k
<1>5. lo = {i \in Nat : i + off \in Word(plane, k)}
  <2>1. Word(plane, k) \in SUBSET Nat
    BY <1>1, <1>2
  <2> QED
    BY <1>1, <2>1, ShrFacts
<1>6. off > 0 => hi = {i \in 0 .. W-1 : i - (W - off) \in Word(plane, k + 1)}
  <2>1. Word(plane, k + 1) \in SUBSET Nat /\ (off > 0 => W - off \in 0 .. W-1)
    BY <1>1, <1>2
  <2> QED
    BY <1>1, <2>1, ShlFacts
<1>7. ASSUME NEW b \in 0 .. W-1 PROVE b \in lo \cup hi <=> pos + b \in plane
  <2>1. CASE b + off <= W - 1
    <3>1. b \in lo <=> k * W + (b + off) \in plane
      BY <1>1, <1>2, <1>3, <1>5, <2>1
    <3>2. b \notin hi
      BY <1>1, <1>3, <1>6, <2>1
    <3>3. k * W + (b + off) = pos + b
      BY <1>1
    <3> QED
      BY <3>1, <3>2, <3>3
  <2>2. CASE ~(b + off <= W - 1)
    <3>1. off > 0 /\ b - (W - off) \in 0 .. W-1
      BY <1>1, <2>2
    <3>2. b \notin lo
      BY <1>1, <1>3, <1>5, <2>2
    <3>3. b \in hi <=> (k + 1) * W + (b - (W - off)) \in plane
      BY <1>1, <1>2, <1>3, <1>6, <3>1
    <3>4. (k + 1) * W + (b - (W - off)) = pos + b
      BY <1>1
    <3> QED
      BY <3>2, <3>3, <3>4
  <2> QED
    BY <2>1, <2>2
<1>8. Mask(Smaller(n, W)) \subseteq 0 .. W-1
  BY <1>1 DEF Mask, Smaller
<1> HIDE DEF lo, hi
<1> QED
  BY <1>4, <1>7, <1>8

\* A chunk of a source of one word or of several.
LEMMA ChunkFacts ==
  ASSUME NEW plane \in SUBSET Nat, NEW inline \in BOOLEAN, NEW pos \in Nat, NEW n \in Nat,
         n <= W, inline => plane \subseteq 0 .. W-1
  PROVE  Chunk(plane, inline, pos, n) = {b \in Mask(n) : pos + b \in plane}
<1>1. W \in Nat \ {0}
  BY ValueAssumption
<1>2. CASE ~inline
  BY <1>1, <1>2, ExtractFacts DEF Chunk, Smaller
<1>3. CASE inline /\ pos >= W
  BY <1>1, <1>3 DEF Chunk, Mask
<1>4. CASE inline /\ ~(pos >= W)
  <2>1. pos \in 0 .. W-1
    BY <1>1, <1>4
  <2>2. Shr(plane, pos) = {i \in Nat : i + pos \in plane}
    BY <2>1, ShrFacts
  <2> QED
    BY <1>1, <1>4, <2>2 DEF Chunk, Mask
<1> QED
  BY <1>2, <1>3, <1>4

\* Words lie one behind the other.
LEMMA WordsApart ==
  ASSUME NEW j \in Nat, NEW k \in Nat, j < k
  PROVE  j * W + W <= k * W
<1>1. W \in Nat /\ k - j - 1 \in Nat
  BY ValueAssumption
<1>2. k * W = j * W + W + (k - j - 1) * W
  BY <1>1
<1>3. (k - j - 1) * W \in Nat /\ j * W \in Nat
  BY <1>1
<1> QED
  BY <1>1, <1>2, <1>3

\* A plane with another word at `k`.
LEMMA WithWordFacts ==
  ASSUME NEW plane \in SUBSET Nat, NEW k \in Nat, NEW word \in SUBSET (0 .. W-1)
  PROVE  WithWord(plane, k, word) = {i \in Nat : IF i \div W = k THEN i % W \in word ELSE i \in plane}
<1>1. \A b \in word : k * W + b \in Nat /\ (k * W + b) \div W = k /\ (k * W + b) % W = b
  BY AtWord
<1>2. \A i \in Nat : i \div W = k => i = k * W + (i % W)
  BY InWord
<1>3. WithWord(plane, k, word) = {i \in plane : i \div W # k} \cup {k * W + b : b \in word}
  BY DEF WithWord
<1>4. ASSUME NEW i \in Nat PROVE i \in {k * W + b : b \in word} <=> i \div W = k /\ i % W \in word
  <2>1. ASSUME NEW b \in word, i = k * W + b PROVE i \div W = k /\ i % W \in word
    BY <1>1, <2>1
  <2> QED
    BY <1>2, <2>1
<1>5. ASSUME NEW i \in Nat
      PROVE  i \in WithWord(plane, k, word) <=> IF i \div W = k THEN i % W \in word ELSE i \in plane
  BY <1>3, <1>4, Zenon
<1>6. WithWord(plane, k, word) \subseteq Nat
  BY <1>1, <1>3
<1> QED
  BY <1>5, <1>6

\* A bit of a plane is a bit of one of its words.
LEMMA WordFacts ==
  ASSUME NEW plane \in SUBSET Nat, NEW i \in Nat
  PROVE  i % W \in Word(plane, i \div W) <=> i \in plane
BY InWord DEF Word

\* The bits of a word, spliced into a plane across the words.
LEMMA SpliceFacts ==
  ASSUME NEW plane \in SUBSET Nat, NEW nbits \in Nat, NEW pos \in Nat, NEW word \in SUBSET Nat,
         NEW count \in Nat, NEW n, n = Smaller(Smaller(count, W), nbits - pos)
  PROVE  Splice64(plane, nbits, pos, word, count) =
           {i \in Nat : IF pos <= i /\ i < pos + n THEN i - pos \in word ELSE i \in plane}
<1> DEFINE new == word \cap Mask(n)
           k == pos \div W
           off == pos % W
           firstWord == (Word(plane, k) \ Shl(Mask(n), off)) \cup Shl(new, off)
           first == WithWord(plane, k, firstWord)
           secondWord == (Word(first, k + 1) \ Mask(off + n - W)) \cup Shr(new, W - off)
           result == {i \in Nat : IF pos <= i /\ i < pos + n THEN i - pos \in word ELSE i \in plane}
<1>1. W \in Nat \ {0} /\ k \in Nat /\ off \in 0 .. W-1 /\ pos = k * W + off
  BY ValueAssumption, InWord
<1>2. Splice64(plane, nbits, pos, word, count) =
        IF count = 0 \/ pos >= nbits THEN plane
        ELSE IF off + n > W THEN WithWord(first, k + 1, secondWord) ELSE first
  BY DEF Splice64
<1>3. CASE count = 0 \/ pos >= nbits
  <2>1. n <= 0 /\ n \in Int
    BY <1>1, <1>3 DEF Smaller
  <2>2. pos \in Nat /\ \A i \in Nat : ~(pos <= i /\ i < pos + n)
    BY <2>1
  <2>3. plane = result
    BY <2>2
  <2> QED
    BY <1>2, <1>3, <2>3
<1>4. CASE ~(count = 0 \/ pos >= nbits)
  <2>1. n \in 1 .. W
    BY <1>1, <1>4 DEF Smaller
  <2> HIDE DEF k, off
  <2>2. new \in SUBSET Nat /\ Mask(n) \in SUBSET Nat /\ \A b \in Nat : b \in new <=> b \in word /\ b < n
    BY <2>1 DEF Mask
  <2>3. Shl(Mask(n), off) = {i \in 0 .. W-1 : i - off \in Mask(n)}
          /\ Shl(new, off) = {i \in 0 .. W-1 : i - off \in new}
    BY <1>1, <2>2, ShlFacts
  <2> HIDE DEF new
  <2>4. firstWord \in SUBSET (0 .. W-1)
    BY <1>1, <2>3 DEF Word
  <2>5. first = {i \in Nat : IF i \div W = k THEN i % W \in firstWord ELSE i \in plane}
    BY <1>1, <2>4, WithWordFacts
  <2>6. \A i \in Nat : i \div W = k => (i % W \in firstWord <=> i \in result)
    <3> SUFFICES ASSUME NEW i \in Nat, i \div W = k PROVE i % W \in firstWord <=> i \in result
      OBVIOUS
    <3> DEFINE r == i % W
    <3>1. r \in 0 .. W-1 /\ i = k * W + r
      BY InWord
    <3>2. r \in Word(plane, k) <=> i \in plane
      BY WordFacts
    <3> HIDE DEF r
    <3>3. r - off = i - pos
      BY <1>1, <3>1
    <3>4. r \in Shl(Mask(n), off) <=> pos <= i /\ i < pos + n
      <4>1. r \in Shl(Mask(n), off) <=> r - off \in Mask(n)
        BY <2>3, <3>1
      <4>2. i - pos \in Mask(n) <=> pos <= i /\ i < pos + n
        BY <1>1, <2>1 DEF Mask
      <4> QED
        BY <3>3, <4>1, <4>2
    <3>5. r \in Shl(new, off) <=> pos <= i /\ i < pos + n /\ i - pos \in word
      <4>1. r - off \in new <=> i - pos \in Nat /\ i - pos \in word /\ i - pos < n
        BY <2>2, <3>3
      <4>2. i - pos \in Nat /\ i - pos < n <=> pos <= i /\ i < pos + n
        BY <1>1, <2>1
      <4> QED
        BY <2>3, <3>1, <4>1, <4>2
    <3> QED
      BY <3>2, <3>4, <3>5 DEF r
  <2> HIDE DEF firstWord
  <2>7. \A i \in Nat : i \div W = k => (i \in first <=> i \in result)
    BY <2>5, <2>6
  <2>8. \A i \in Nat : i \div W # k => (i \in first <=> i \in plane)
    BY <2>5
  <2>9. \A i \in Nat : i \div W < k => ~(pos <= i)
    <3> SUFFICES ASSUME NEW i \in Nat, i \div W < k PROVE ~(pos <= i)
      OBVIOUS
    <3>1. i \div W \in Nat /\ i % W \in 0 .. W-1 /\ i = (i \div W) * W + (i % W)
      BY InWord
    <3>2. (i \div W) * W + W <= k * W
      BY <1>1, <3>1, WordsApart
    <3> HIDE DEF result
    <3> DEFINE x == (i \div W) * W
               y == k * W
    <3>3. x \in Nat /\ y \in Nat
      BY <1>1, <3>1
    <3> HIDE DEF x, y
    <3>4. i = x + (i % W) /\ x + W <= y /\ pos = y + off
      BY <1>1, <3>1, <3>2 DEF x, y
    <3> QED
      BY <1>1, <3>1, <3>3, <3>4
  <2>10. \A i \in Nat : \A j \in Nat : j > k /\ i \div W >= j => i >= j * W
    <3> SUFFICES ASSUME NEW i \in Nat, NEW j \in Nat, i \div W >= j PROVE i >= j * W
      OBVIOUS
    <3> DEFINE q == i \div W
    <3>1. q \in Nat /\ i % W \in 0 .. W-1 /\ i = q * W + (i % W)
      BY InWord
    <3> HIDE DEF q
    <3>2. q - j \in Nat
      BY <3>1 DEF q
    <3>3. q * W = j * W + (q - j) * W /\ (q - j) * W \in Nat /\ j * W \in Nat
      BY <1>1, <3>1, <3>2
    <3> QED
      BY <3>1, <3>3
  <2>11. (k + 1) * W = k * W + W /\ (k + 1 + 1) * W = k * W + W + W /\ k * W \in Nat
    BY <1>1
  <2>12. CASE ~(off + n > W)
    <3>1. \A i \in Nat : i \div W > k => ~(i < pos + n)
      <4> SUFFICES ASSUME NEW i \in Nat, i \div W > k PROVE i >= pos + n
        BY <1>1, <2>1
      <4>1. i \div W \in Nat
        BY InWord
      <4>2. i >= (k + 1) * W
        BY <1>1, <2>10, <4>1
      <4> QED
        BY <1>1, <2>1, <2>11, <2>12, <4>2
    <3>2. \A i \in Nat : i \div W # k => (i \in first <=> i \in result)
      <4> SUFFICES ASSUME NEW i \in Nat, i \div W # k PROVE ~(pos <= i /\ i < pos + n)
        BY <2>8
      <4>1. i \div W < k \/ i \div W > k
        BY <1>1, InWord
      <4> QED
        BY <2>9, <3>1, <4>1
    <3>3. first = result
      <4>1. first \subseteq Nat /\ result \subseteq Nat
        BY <2>5
      <4> HIDE DEF first, result
      <4> QED
        BY <2>7, <3>2, <4>1
    <3> QED
      BY <1>2, <1>4, <2>12, <3>3
  <2>13. CASE off + n > W
    <3>1. first \in SUBSET Nat /\ off > 0 /\ W - off \in 0 .. W-1
      BY <1>1, <2>1, <2>5, <2>13
    <3>2. Shr(new, W - off) = {i \in Nat : i + (W - off) \in new}
      BY <2>2, <3>1, ShrFacts
    <3>3. secondWord \in SUBSET (0 .. W-1)
      <4>1. \A b \in Shr(new, W - off) : b \in Nat /\ b + (W - off) < n
        BY <1>1, <2>2, <3>1, <3>2
      <4>2. W \in Nat /\ off \in Nat /\ n \in Nat /\ n <= W /\ off <= W - 1
        BY <1>1, <2>1
      <4> DEFINE S == Shr(new, W - off)
      <4> HIDE DEF S
      <4>3. \A b \in S : b \in Nat /\ b + (W - off) < n
        BY <4>1 DEF S
      <4>4. \A b \in S : b \in 0 .. W-1
        BY <4>2, <4>3
      <4> QED
        BY <4>4 DEF Word, S
    <3> DEFINE last == WithWord(first, k + 1, secondWord)
    <3>4. last = {i \in Nat : IF i \div W = k + 1 THEN i % W \in secondWord ELSE i \in first}
      <4>1. k + 1 \in Nat
        BY <1>1
      <4> QED
        BY <3>1, <3>3, <4>1, WithWordFacts
    <3>5. \A i \in Nat : i \div W = k + 1 => (i % W \in secondWord <=> i \in result)
      <4> SUFFICES ASSUME NEW i \in Nat, i \div W = k + 1 PROVE i % W \in secondWord <=> i \in result
        OBVIOUS
      <4> DEFINE r == i % W
      <4>1. r \in 0 .. W-1 /\ i = (k + 1) * W + r
        BY InWord
      <4>2. r \in Word(first, k + 1) <=> i \in plane
        <5>1. r \in Word(first, k + 1) <=> i \in first
          BY <3>1, WordFacts
        <5>2. i \div W # k
          BY <1>1
        <5> QED
          BY <2>8, <5>1, <5>2
      <4> HIDE DEF r
      <4>3. r + (W - off) = i - pos /\ i >= pos
        BY <1>1, <2>11, <4>1
      <4>4. r \in Mask(off + n - W) <=> i < pos + n
        BY <1>1, <2>1, <4>1, <4>3 DEF Mask
      <4>5. r \in Shr(new, W - off) <=> i < pos + n /\ i - pos \in word
        <5>1. r \in Shr(new, W - off) <=> i - pos \in new
          BY <3>2, <4>1, <4>3
        <5>2. i - pos \in Nat /\ (i - pos < n <=> i < pos + n)
          BY <1>1, <2>1, <4>3
        <5> QED
          BY <2>2, <5>1, <5>2
      <4> QED
        BY <4>2, <4>3, <4>4, <4>5 DEF r
    <3> HIDE DEF secondWord
    <3>6. \A i \in Nat : i \div W > k + 1 => ~(i < pos + n)
      <4> SUFFICES ASSUME NEW i \in Nat, i \div W > k + 1 PROVE i >= pos + n
        BY <1>1, <2>1
      <4>1. i \div W \in Nat
        BY InWord
      <4>2. i >= (k + 1 + 1) * W
        BY <1>1, <2>10, <4>1
      <4> QED
        BY <1>1, <2>1, <2>11, <4>2
    <3>7. \A i \in Nat : i \in last <=> i \in result
      <4> SUFFICES ASSUME NEW i \in Nat PROVE i \in last <=> i \in result
        OBVIOUS
      <4>1. i \div W \in Nat
        BY InWord
      <4> HIDE DEF result
      <4>2. CASE i \div W = k + 1
        BY <3>4, <3>5, <4>2
      <4>3. CASE i \div W = k
        BY <1>1, <2>7, <3>4, <4>3
      <4>4. CASE i \div W # k /\ i \div W # k + 1
        <5>1. i \in last <=> i \in plane
          BY <2>8, <3>4, <4>4
        <5>2. i \div W < k \/ i \div W > k + 1
          BY <1>1, <4>1, <4>4
        <5>3. ~(pos <= i /\ i < pos + n)
          BY <2>9, <3>6, <5>2
        <5> QED
          BY <5>1, <5>3 DEF result
      <4> QED
        BY <4>2, <4>3, <4>4
    <3>8. last = result
      <4>1. last \subseteq Nat /\ result \subseteq Nat
        BY <3>4
      <4> HIDE DEF last, result
      <4> QED
        BY <3>7, <4>1
    <3> QED
      BY <1>2, <1>4, <2>13, <3>8
  <2> QED
    BY <2>12, <2>13
<1> QED
  BY <1>3, <1>4

\* `count` bits of `src` from `s` on, in the place of those of `dst` from `d` on.
Spliced(dst, d, src, s, count) ==
  {i \in Nat : IF d <= i /\ i < d + count THEN s + (i - d) \in src ELSE i \in dst}

\* Word-sized chunks in turn copy what one splice would.
LEMMA CopyChunksFacts ==
  ASSUME NEW dst \in SUBSET Nat, NEW nbits \in Nat, NEW d \in Nat, NEW src \in SUBSET Nat,
         NEW inline \in BOOLEAN, inline => src \subseteq 0 .. W-1, NEW s \in Nat, NEW count \in Nat,
         d + count <= nbits
  PROVE  CopyChunks(dst, nbits, d, src, inline, s, count) = Spliced(dst, d, src, s, count)
<1> DEFINE N == (count + W - 1) \div W
           Off(k) == (k - 1) * W
           Size(k) == Smaller(count - Off(k), W)
           Go(k, p) == Splice64(p, nbits, d + Off(k), Chunk(src, inline, s + Off(k), Size(k)), Size(k))
           Eq(g) == g = [k \in 0 .. N |-> IF k = 0 THEN dst ELSE Go(k, g[k - 1])]
           done == CHOOSE g : Eq(g)
           Upto(k) == Spliced(dst, d, src, s, Smaller(k * W, count))
           F == [k \in 0 .. N |-> Upto(k)]
<1>1. W \in Nat \ {0} /\ N \in Nat /\ count <= N * W /\ N * W <= count + W - 1
  <2>1. W \in Nat \ {0} /\ count + W - 1 \in Nat
    BY ValueAssumption
  <2>2. N \in Nat /\ (count + W - 1) % W \in 0 .. W-1 /\ count + W - 1 = N * W + ((count + W - 1) % W)
    BY <2>1, InWord
  <2> DEFINE x == N * W
             y == (count + W - 1) % W
  <2>3. x \in Nat
    BY <2>1, <2>2
  <2> HIDE DEF x, y, N
  <2>4. count + W - 1 = x + y /\ y \in 0 .. W-1
    BY <2>2 DEF x, y
  <2> QED
    BY <2>1, <2>2, <2>3, <2>4 DEF x
<1>2. CopyChunks(dst, nbits, d, src, inline, s, count) = done[N]
  BY Zenon DEF CopyChunks
<1> HIDE DEF N
<1>3. F[0] = dst
  <2>1. 0 * W = 0 /\ Smaller(0, count) = 0
    BY <1>1 DEF Smaller
  <2>2. \A i \in Nat : ~(d <= i /\ i < d + 0)
    OBVIOUS
  <2>3. Spliced(dst, d, src, s, 0) = dst
    BY <2>2 DEF Spliced
  <2> QED
    BY <1>1, <2>1, <2>3
<1>4. ASSUME NEW k \in 1 .. N PROVE Upto(k) = Go(k, Upto(k - 1))
  <2> DEFINE off == Off(k)
             n == Size(k)
             chunk == Chunk(src, inline, s + off, n)
  <2>1. off \in Nat /\ k * W = off + W /\ k - 1 \in Nat
    BY <1>1
  <2> HIDE DEF off
  <2>2. off + W <= N * W
    <3>1. CASE k = N
      <4>1. k * W <= N * W
        BY <1>1, <3>1
      <4> QED
        BY <2>1, <4>1
    <3>2. CASE k # N
      <4>1. k \in Nat /\ N \in Nat /\ k < N
        BY <1>1, <3>2
      <4>2. k * W + W <= N * W
        BY <4>1, WordsApart
      <4> DEFINE x == k * W
                 y == N * W
      <4>3. x \in Nat /\ y \in Nat
        BY <1>1, <4>1
      <4> HIDE DEF x, y
      <4>4. x + W <= y /\ x = off + W
        BY <2>1, <4>2 DEF x, y
      <4> QED
        BY <1>1, <2>1, <4>3, <4>4 DEF y
    <3> QED
      BY <3>1, <3>2
  <2> DEFINE x == N * W
  <2>3. x \in Nat /\ count <= x /\ x <= count + W - 1 /\ off + W <= x
    BY <1>1, <2>2
  <2> HIDE DEF x, n
  <2>4. off < count
    BY <1>1, <2>1, <2>3
  <2>5. n = IF count - off <= W THEN count - off ELSE W
    BY <1>1, <2>1 DEF n, off, Smaller
  <2>6. n \in 1 .. W
    BY <1>1, <2>1, <2>4, <2>5
  <2>7. chunk = {b \in Mask(n) : s + off + b \in src}
    <3>1. s + off \in Nat /\ n \in Nat /\ n <= W
      BY <2>1, <2>6
    <3> QED
      BY <3>1, ChunkFacts
  <2> DEFINE before == Upto(k - 1)
  <2>8. Smaller((k - 1) * W, count) = off /\ Smaller(k * W, count) = off + n
    <3>1. (k - 1) * W = off
      BY DEF off
    <3> QED
      BY <1>1, <2>1, <2>4, <2>5, <3>1 DEF Smaller
  <2>9. before = Spliced(dst, d, src, s, off) /\ Upto(k) = Spliced(dst, d, src, s, off + n)
    BY <2>8
  <2> HIDE DEF before, chunk
  <2>10. before \in SUBSET Nat /\ chunk \in SUBSET Nat
    BY <2>6, <2>7, <2>9 DEF Spliced, Mask
  <2>11. d + off \in Nat /\ n \in Nat /\ n = Smaller(Smaller(n, W), nbits - (d + off))
    <3>1. nbits - (d + off) >= n
      BY <1>1, <2>1, <2>4, <2>5, <2>6
    <3>2. d + off \in Nat /\ n \in Nat /\ n <= W
      BY <1>1, <2>1, <2>6
    <3> QED
      BY <1>1, <3>1, <3>2 DEF Smaller
  <2>12. Splice64(before, nbits, d + off, chunk, n) =
           {i \in Nat : IF d + off <= i /\ i < d + off + n THEN i - (d + off) \in chunk ELSE i \in before}
    BY <2>10, <2>11, SpliceFacts
  <2>13. ASSUME NEW i \in Nat
         PROVE  (IF d + off <= i /\ i < d + off + n THEN i - (d + off) \in chunk ELSE i \in before)
                <=> (IF d <= i /\ i < d + (off + n) THEN s + (i - d) \in src ELSE i \in dst)
    <3>1. CASE d + off <= i /\ i < d + off + n
      <4>1. i - (d + off) \in Mask(n) /\ s + off + (i - (d + off)) = s + (i - d)
        BY <2>1, <2>6, <3>1 DEF Mask
      <4>2. d <= i /\ i < d + (off + n)
        BY <2>1, <2>6, <3>1
      <4> QED
        BY <2>7, <3>1, <4>1, <4>2
    <3>2. CASE ~(d + off <= i /\ i < d + off + n)
      <4>1. i \in before <=> IF d <= i /\ i < d + off THEN s + (i - d) \in src ELSE i \in dst
        BY <2>9 DEF Spliced
      <4>2. d <= i /\ i < d + off <=> d <= i /\ i < d + (off + n)
        BY <2>1, <2>6, <3>2
      <4> QED
        BY <3>2, <4>1, <4>2
    <3> QED
      BY <3>1, <3>2
  <2>14. Splice64(before, nbits, d + off, chunk, n) = Spliced(dst, d, src, s, off + n)
    BY <2>12, <2>13 DEF Spliced
  <2> QED
    BY <2>9, <2>14 DEF off, n, chunk, before
<1> HIDE DEF Upto, Go
<1>5. \A k \in 1 .. N : F[k] = Go(k, F[k - 1])
  <2> SUFFICES ASSUME NEW k \in 1 .. N PROVE F[k] = Go(k, F[k - 1])
    OBVIOUS
  <2>1. k \in 0 .. N /\ k - 1 \in 0 .. N
    BY <1>1
  <2>2. F[k] = Upto(k) /\ F[k - 1] = Upto(k - 1)
    BY <2>1
  <2> QED
    BY <1>4, <2>2
<1>6. Eq(F)
  <2>1. ASSUME NEW k \in 0 .. N PROVE F[k] = IF k = 0 THEN dst ELSE Go(k, F[k - 1])
    <3>1. k # 0 => k \in 1 .. N
      BY <1>1
    <3> QED
      BY <1>3, <1>5, <3>1
  <2>2. F = [k \in 0 .. N |-> F[k]]
    OBVIOUS
  <2> HIDE DEF F
  <2> QED
    BY <2>1, <2>2
<1>7. Eq(done)
  <2> HIDE DEF Eq
  <2> QED
    BY <1>6
<1> HIDE DEF F, done
<1>8. \A k \in 0 .. N : done[k] = IF k = 0 THEN dst ELSE Go(k, done[k - 1])
  BY <1>7, Zenon
<1>9. done[0] = F[0] /\ \A k \in 1 .. N : done[k - 1] = F[k - 1] => done[k] = F[k]
  <2>1. 0 \in 0 .. N
    BY <1>1
  <2>2. done[0] = dst
    BY <1>8, <2>1, Zenon
  <2>3. ASSUME NEW k \in 1 .. N, done[k - 1] = F[k - 1] PROVE done[k] = F[k]
    <3>1. k \in 0 .. N /\ k # 0
      BY <1>1
    <3>2. done[k] = Go(k, done[k - 1])
      BY <1>8, <3>1, Zenon
    <3> QED
      BY <1>5, <2>3, <3>2
  <2> QED
    BY <1>3, <2>2, <2>3
<1>10. done[N] = F[N]
  <2>1. \A k \in 0 .. N : done[k] = F[k]
    <3>1. N \in Nat
      BY <1>1
    <3> QED
      BY <1>9, <3>1, SameIterates
  <2> QED
    BY <1>1, <2>1
<1>11. F[N] = Spliced(dst, d, src, s, count)
  <2>1. Smaller(N * W, count) = count
    <3> DEFINE x == N * W
    <3>1. x \in Nat /\ count <= x
      BY <1>1
    <3> HIDE DEF x
    <3>2. Smaller(x, count) = count
      BY <3>1 DEF Smaller
    <3> QED
      BY <3>2 DEF x
  <2>2. F[N] = Upto(N)
    BY <1>1 DEF F
  <2> QED
    BY <2>1, <2>2 DEF Upto
<1> QED
  BY <1>2, <1>10, <1>11

\* A copy into inline storage is one splice too.
LEMMA CopyInlineFacts ==
  ASSUME NEW dst \in SUBSET Nat, NEW d \in Nat, NEW src \in SUBSET Nat,
         NEW inline \in BOOLEAN, inline => src \subseteq 0 .. W-1, NEW s \in Nat, NEW count \in Nat \ {0},
         d + count <= W
  PROVE  CopyInline(dst, d, src, inline, s, count) = Spliced(dst, d, src, s, count)
<1> DEFINE low == Chunk(src, inline, s, Smaller(count, W)) \cap Mask(count)
<1>1. W \in Nat \ {0} /\ d \in 0 .. W-1 /\ Smaller(count, W) = count /\ count <= W
  BY ValueAssumption DEF Smaller
<1>2. low = {b \in Mask(count) : s + b \in src}
  <2>1. Chunk(src, inline, s, count) = {b \in Mask(count) : s + b \in src}
    BY <1>1, ChunkFacts
  <2> QED
    BY <1>1, <2>1
<1>3. CopyInline(dst, d, src, inline, s, count) = (dst \ Shl(Mask(count), d)) \cup Shl(low, d)
  BY DEF CopyInline
<1> HIDE DEF low
<1>4. Mask(count) \in SUBSET Nat /\ low \in SUBSET Nat
  BY <1>2 DEF Mask
<1>5. Shl(Mask(count), d) = {i \in 0 .. W-1 : i - d \in Mask(count)} /\ Shl(low, d) = {i \in 0 .. W-1 : i - d \in low}
  BY <1>1, <1>4, ShlFacts
<1>6. \A i \in Nat : i \in Shl(Mask(count), d) <=> d <= i /\ i < d + count
  BY <1>1, <1>5 DEF Mask
<1>7. \A i \in Nat : i \in Shl(low, d) <=> d <= i /\ i < d + count /\ s + (i - d) \in src
  <2> SUFFICES ASSUME NEW i \in Nat PROVE i \in Shl(low, d) <=> d <= i /\ i < d + count /\ s + (i - d) \in src
    OBVIOUS
  <2>1. i - d \in Mask(count) <=> d <= i /\ i < d + count
    BY DEF Mask
  <2>2. d <= i /\ i < d + count => i \in 0 .. W-1
    BY <1>1
  <2> QED
    BY <1>2, <1>5, <2>1, <2>2
<1>8. Shl(Mask(count), d) \subseteq Nat /\ Shl(low, d) \subseteq Nat
  BY <1>1, <1>5
<1> QED
  BY <1>3, <1>6, <1>7, <1>8 DEF Spliced

-----------------------------------------------------------------------------
(* Values and their bits *)

(* Values *)

\* A value with no bit above its width.
Canon(v) == v \in Values /\ Clear(v)

\* What a value of clear planes is made of.
LEMMA CanonFacts ==
  ASSUME NEW v, Canon(v)
  PROVE  /\ v.width \in Nat /\ v.is_signed \in BOOLEAN /\ v.is_fill \in BOOLEAN
         /\ v.val \in SUBSET Nat /\ v.xz \in SUBSET Nat
         /\ v.val \subseteq Mask(v.width) /\ v.xz \subseteq Mask(v.width)
         /\ v = [val |-> v.val, xz |-> v.xz, width |-> v.width, is_signed |-> v.is_signed, is_fill |-> v.is_fill]
         /\ IsInline(v) \in BOOLEAN
         /\ IsInline(v) => v.val \subseteq 0 .. W-1 /\ v.xz \subseteq 0 .. W-1
<1>1. v \in Values /\ W \in Nat
  BY ValueAssumption DEF Canon
<1>2. v.width \in Nat /\ v.is_signed \in BOOLEAN /\ v.is_fill \in BOOLEAN
         /\ v.val \in SUBSET Nat /\ v.xz \in SUBSET Nat
  BY <1>1 DEF Values
<1>3. v = [val |-> v.val, xz |-> v.xz, width |-> v.width, is_signed |-> v.is_signed, is_fill |-> v.is_fill]
  BY <1>1 DEF Values
<1>4. v.val \subseteq Mask(v.width) /\ v.xz \subseteq Mask(v.width)
  BY DEF Canon, Clear
<1>5. IsInline(v) \in BOOLEAN /\ (IsInline(v) => Mask(v.width) \subseteq 0 .. W-1)
  BY <1>1, <1>2 DEF IsInline, Mask
<1> QED
  BY <1>2, <1>3, <1>4, <1>5

\* Planes within the width make a value of clear planes.
LEMMA PlainFacts ==
  ASSUME NEW n \in Nat, NEW s \in BOOLEAN, NEW val, NEW xz, val \subseteq Mask(n), xz \subseteq Mask(n)
  PROVE  Canon(Plain(val, xz, n, s))
<1>1. val \in SUBSET Nat /\ xz \in SUBSET Nat
  BY DEF Mask
<1> QED
  BY <1>1 DEF Canon, Values, Clear, Plain

\* A bit by its two planes.
LEMMA BitFacts ==
  ASSUME NEW val, NEW xz, NEW i
  PROVE  /\ PlaneBit(val, xz, i) = IF i \in xz THEN (IF i \in val THEN "z" ELSE "x")
                                   ELSE (IF i \in val THEN "1" ELSE "0")
         /\ PlaneBit(val, xz, i) \in LogicBit
         /\ i \in val <=> PlaneBit(val, xz, i) \in {"1", "z"}
         /\ i \in xz <=> PlaneBit(val, xz, i) \in {"x", "z"}
<1>1. CASE i \in val /\ i \in xz
  BY <1>1 DEF PlaneBit, LogicBit
<1>2. CASE i \in val /\ i \notin xz
  BY <1>2 DEF PlaneBit, LogicBit
<1>3. CASE i \notin val /\ i \in xz
  BY <1>3 DEF PlaneBit, LogicBit
<1>4. CASE i \notin val /\ i \notin xz
  BY <1>4 DEF PlaneBit, LogicBit
<1> QED
  BY <1>1, <1>2, <1>3, <1>4

\* The value whose bits are those of f.
Bits(n, s, f) == [width |-> n, is_signed |-> s, is_fill |-> FALSE, bit |-> f]

\* A value is known by the bits of its planes.
LEMMA SameBits ==
  ASSUME NEW v, NEW f, v.is_fill = FALSE, f = [i \in Mask(v.width) |-> f[i]],
         \A i \in Mask(v.width) : PlaneBit(v.val, v.xz, i) = f[i]
  PROVE  Abstract(v) = Bits(v.width, v.is_signed, f)
<1>1. [i \in Mask(v.width) |-> PlaneBit(v.val, v.xz, i)] = f
  BY Zenon
<1> QED
  BY <1>1 DEF Abstract, Bits

\* What the value that planes stand for consists of.
LEMMA AbstractFacts ==
  ASSUME NEW v, Canon(v)
  PROVE  /\ Abstract(v).width = v.width /\ Abstract(v).is_signed = v.is_signed /\ Abstract(v).is_fill = v.is_fill
         /\ \A i \in Mask(v.width) : /\ Abstract(v).bit[i] = PlaneBit(v.val, v.xz, i)
                                     /\ Abstract(v).bit[i] = GetBit(v, i)
         /\ v.is_fill = FALSE => Abstract(v) = Bits(v.width, v.is_signed, Abstract(v).bit)
         /\ Abstract(v).bit = [i \in Mask(v.width) |-> Abstract(v).bit[i]]
<1>1. \A i \in Mask(v.width) : i < v.width /\ ~(i >= v.width)
  BY CanonFacts DEF Mask
<1>2. \A i \in Mask(v.width) : GetBit(v, i) = PlaneBit(v.val, v.xz, i)
  BY <1>1 DEF GetBit
<1> QED
  BY <1>2 DEF Abstract, Bits

\* get_bit inside the width and above it.
LEMMA GetBitFacts ==
  ASSUME NEW v, Canon(v), NEW i \in Nat
  PROVE  /\ ~v.is_fill \/ i < v.width => GetBit(v, i) = PlaneBit(v.val, v.xz, i)
         /\ i >= v.width => PlaneBit(v.val, v.xz, i) = "0"
         /\ GetBit(v, i) \in LogicBit
<1>1. v.width \in Nat /\ v.is_fill \in BOOLEAN /\ v.val \subseteq Mask(v.width) /\ v.xz \subseteq Mask(v.width)
  BY CanonFacts
<1>2. i >= v.width => i \notin v.val /\ i \notin v.xz
  BY <1>1 DEF Mask
<1>3. i >= v.width => PlaneBit(v.val, v.xz, i) = "0"
  BY <1>2, BitFacts
<1>4. CASE i < v.width
  <2>1. GetBit(v, i) = PlaneBit(v.val, v.xz, i)
    BY <1>1, <1>4 DEF GetBit
  <2>2. PlaneBit(v.val, v.xz, i) \in LogicBit
    BY BitFacts
  <2> DEFINE p == PlaneBit(v.val, v.xz, i)
             g == GetBit(v, i)
  <2> HIDE DEF p, g
  <2>3. g = p /\ p \in LogicBit /\ (i >= v.width => p = "0")
    BY <1>3, <2>1, <2>2 DEF p, g
  <2> QED
    BY <2>3 DEF p, g
<1>5. CASE i >= v.width /\ v.is_fill
  <2>1. GetBit(v, i) = PlaneBit(v.val, v.xz, 0)
    BY <1>1, <1>5 DEF GetBit
  <2> QED
    BY <1>1, <1>3, <1>5, <2>1, BitFacts
<1>6. CASE i >= v.width /\ ~v.is_fill
  <2>1. GetBit(v, i) = "0"
    BY <1>1, <1>6 DEF GetBit
  <2> QED
    BY <1>1, <1>3, <1>6, <2>1 DEF LogicBit
<1>7. i < v.width \/ i >= v.width
  BY <1>1
<1>8. v.is_fill = TRUE \/ v.is_fill = FALSE
  BY <1>1
<1> QED
  BY <1>4, <1>5, <1>6, <1>7, <1>8

\* A value of one bit throughout stands for the one of the language.
LEMMA FilledValue ==
  ASSUME NEW n \in Nat, NEW bit \in LogicBit
  PROVE  /\ Canon(Filled(n, bit)) /\ Filled(n, bit).width = n /\ Filled(n, bit).is_signed = FALSE
         /\ Filled(n, bit).is_fill = FALSE
         /\ \A i \in Mask(n) : PlaneBit(Filled(n, bit).val, Filled(n, bit).xz, i) = bit
         /\ Abstract(Filled(n, bit)) = R!All(n, bit)
<1> DEFINE v == Filled(n, bit)
<1>1. v = Plain(IF bit \in {"1", "z"} THEN Mask(n) ELSE {}, IF bit \in {"x", "z"} THEN Mask(n) ELSE {}, n, FALSE)
  BY FilledFacts
<1> HIDE DEF v
<1>2. Canon(v)
  <2>1. (IF bit \in {"1", "z"} THEN Mask(n) ELSE {}) \subseteq Mask(n)
          /\ (IF bit \in {"x", "z"} THEN Mask(n) ELSE {}) \subseteq Mask(n)
    OBVIOUS
  <2> QED
    BY <1>1, <2>1, PlainFacts
<1>3. v.width = n /\ v.is_signed = FALSE /\ v.is_fill = FALSE
  BY <1>1 DEF Plain
<1>4. ASSUME NEW i \in Mask(n) PROVE PlaneBit(v.val, v.xz, i) = bit
  <2>1. (i \in v.val <=> bit \in {"1", "z"}) /\ (i \in v.xz <=> bit \in {"x", "z"})
    BY <1>1 DEF Plain
  <2> QED
    BY <2>1, BitFacts DEF LogicBit
<1>5. Abstract(v) = R!All(n, bit)
  <2> DEFINE f == [i \in Mask(n) |-> bit]
  <2>1. Abstract(v) = Bits(n, FALSE, f)
    BY <1>3, <1>4, SameBits
  <2> QED
    BY <2>1 DEF Bits, R!All, R!Vector, R!Positions, Mask
<1> QED
  BY <1>2, <1>3, <1>4, <1>5 DEF v

\* The width of the program's values is capped; the values here are below the cap.
LEMMA CapFacts ==
  ASSUME NEW n \in Nat
  PROVE  CapWidth(n) \in Nat /\ CapWidth(n) <= MaxWidth /\ (n <= MaxWidth => CapWidth(n) = n)
         /\ (CapWidth(n) <= Widest => CapWidth(n) = n)
BY ValueAssumption, OpsAssumption DEF CapWidth, Smaller

\* A result of one bit stands for that bit.
LEMMA ScalarFacts ==
  ASSUME NEW bit \in LogicBit
  PROVE  /\ Canon(Scalar(bit)) /\ Scalar(bit).width = 1 /\ Scalar(bit).is_signed = FALSE
              /\ Scalar(bit).is_fill = FALSE
         /\ Abstract(Scalar(bit)) = R!One(bit)
         /\ GetBit(Scalar(bit), 0) = bit
<1>1. 1 \in Nat /\ 0 \in Mask(1)
  BY DEF Mask
<1>2. Canon(Scalar(bit)) /\ Scalar(bit).width = 1 /\ Scalar(bit).is_signed = FALSE /\ Scalar(bit).is_fill = FALSE
      /\ Abstract(Scalar(bit)) = R!All(1, bit) /\ PlaneBit(Scalar(bit).val, Scalar(bit).xz, 0) = bit
  BY <1>1, FilledValue DEF Scalar
<1>3. GetBit(Scalar(bit), 0) = bit
  BY <1>1, <1>2, AbstractFacts
<1> QED
  BY <1>2, <1>3 DEF R!One

\* Bit i of a after count bits of b from s on are written at d.
CopiedBit(a, d, b, s, count, i) ==
  IF d <= i /\ i < d + count /\ s + (i - d) < b.width THEN PlaneBit(b.val, b.xz, s + (i - d))
    ELSE PlaneBit(a.val, a.xz, i)

\* copy_bits_from, bit by bit.
LEMMA CopyFacts ==
  ASSUME NEW a, Canon(a), NEW b, Canon(b), NEW d \in Nat, NEW s \in Nat, NEW count \in Nat
  PROVE  /\ Canon(CopyBitsFrom(a, d, b, s, count))
         /\ CopyBitsFrom(a, d, b, s, count).width = a.width
         /\ CopyBitsFrom(a, d, b, s, count).is_signed = a.is_signed
         /\ CopyBitsFrom(a, d, b, s, count).is_fill = a.is_fill
         /\ \A i \in Mask(a.width) :
               PlaneBit(CopyBitsFrom(a, d, b, s, count).val, CopyBitsFrom(a, d, b, s, count).xz, i) =
                 CopiedBit(a, d, b, s, count, i)
<1> DEFINE n == Smaller(count, Smaller(Larger(a.width - d, 0), Larger(b.width - s, 0)))
           Copy(dst, src) == IF IsInline(a) THEN CopyInline(dst, d, src, IsInline(b), s, n)
                             ELSE CopyChunks(dst, a.width, d, src, IsInline(b), s, n)
           r == CopyBitsFrom(a, d, b, s, count)
           Copied(i) == d <= i /\ i < d + count /\ s + (i - d) < b.width
<1>1. /\ a.width \in Nat /\ a.val \in SUBSET Nat /\ a.xz \in SUBSET Nat
      /\ a.val \subseteq Mask(a.width) /\ a.xz \subseteq Mask(a.width)
      /\ a.is_signed \in BOOLEAN /\ a.is_fill \in BOOLEAN
      /\ a = [val |-> a.val, xz |-> a.xz, width |-> a.width, is_signed |-> a.is_signed, is_fill |-> a.is_fill]
  BY CanonFacts
<1>2. /\ b.width \in Nat /\ b.val \in SUBSET Nat /\ b.xz \in SUBSET Nat
      /\ IsInline(b) \in BOOLEAN /\ (IsInline(b) => b.val \subseteq 0 .. W-1 /\ b.xz \subseteq 0 .. W-1)
  BY CanonFacts
<1>3. n \in Nat /\ n <= count /\ (n # 0 => d + n <= a.width)
      /\ \A i \in Nat : i < a.width => (Copied(i) <=> d <= i /\ i < d + n)
  BY <1>1, <1>2 DEF Smaller, Larger
<1>4. r = IF n = 0 THEN a ELSE [a EXCEPT !.val = Copy(a.val, b.val), !.xz = Copy(a.xz, b.xz)]
  BY DEF CopyBitsFrom
<1> HIDE DEF n, Copied, r
<1>5. CASE n = 0
  <2>1. r = a /\ \A i \in Mask(a.width) : ~Copied(i)
    BY <1>1, <1>3, <1>4, <1>5 DEF Mask
  <2> QED
    BY <1>1, <2>1 DEF r, Copied, CopiedBit
<1>6. CASE n # 0
  <2>1. ASSUME NEW dst \in SUBSET Nat, NEW src \in SUBSET Nat, IsInline(b) => src \subseteq 0 .. W-1
        PROVE  Copy(dst, src) = Spliced(dst, d, src, s, n)
    <3>1. CASE IsInline(a)
      <4>1. d + n <= W /\ n \in Nat \ {0}
        <5>1. W \in Nat
          BY ValueAssumption
        <5> QED
          BY <1>1, <1>3, <1>6, <3>1, <5>1 DEF IsInline
      <4> QED
        BY <1>2, <2>1, <3>1, <4>1, CopyInlineFacts
    <3>2. CASE ~IsInline(a)
      BY <1>1, <1>2, <1>3, <1>6, <2>1, <3>2, CopyChunksFacts
    <3> QED
      BY <3>1, <3>2
  <2>2. Copy(a.val, b.val) = Spliced(a.val, d, b.val, s, n) /\ Copy(a.xz, b.xz) = Spliced(a.xz, d, b.xz, s, n)
    BY <1>1, <1>2, <2>1
  <2> DEFINE val == Spliced(a.val, d, b.val, s, n)
             xz == Spliced(a.xz, d, b.xz, s, n)
  <2>3. r = [val |-> val, xz |-> xz, width |-> a.width, is_signed |-> a.is_signed, is_fill |-> a.is_fill]
    <3> HIDE DEF Copy
    <3>1. r = [a EXCEPT !.val = val, !.xz = xz]
      BY <1>4, <1>6, <2>2
    <3> HIDE DEF val, xz
    <3> QED
      BY <1>1, <3>1
  <2>4. val \subseteq Mask(a.width) /\ xz \subseteq Mask(a.width)
    <3>1. \A i \in Nat : d <= i /\ i < d + n => i \in Mask(a.width)
      BY <1>1, <1>3, <1>6 DEF Mask
    <3> QED
      BY <1>1, <3>1 DEF Spliced
  <2>5. val \in SUBSET Nat /\ xz \in SUBSET Nat
    BY DEF Spliced
  <2>6. ASSUME NEW i \in Mask(a.width)
        PROVE  PlaneBit(val, xz, i) = IF Copied(i) THEN PlaneBit(b.val, b.xz, s + (i - d))
                 ELSE PlaneBit(a.val, a.xz, i)
    <3>1. i \in Nat /\ i < a.width
      BY <1>1 DEF Mask
    <3>2. Copied(i) <=> d <= i /\ i < d + n
      BY <1>3, <3>1
    <3>3. CASE Copied(i)
      <4>1. (i \in val <=> s + (i - d) \in b.val) /\ (i \in xz <=> s + (i - d) \in b.xz)
        BY <3>1, <3>2, <3>3 DEF Spliced
      <4> HIDE DEF val, xz
      <4> QED
        BY <3>3, <4>1, BitFacts
    <3>4. CASE ~Copied(i)
      <4>1. (i \in val <=> i \in a.val) /\ (i \in xz <=> i \in a.xz)
        BY <3>1, <3>2, <3>4 DEF Spliced
      <4> HIDE DEF val, xz
      <4> QED
        BY <3>4, <4>1, BitFacts
    <3> QED
      BY <3>3, <3>4
  <2> HIDE DEF val, xz
  <2>7. Canon(r)
    BY <1>1, <2>3, <2>4, <2>5 DEF Canon, Values, Clear
  <2> QED
    BY <2>3, <2>6, <2>7 DEF r, Copied, CopiedBit
<1> QED
  BY <1>5, <1>6

-----------------------------------------------------------------------------
(* The tables of one bit *)

(* The reference tables *)

\* A set of known bits lifted to one bit.
LEMMA LiftFacts ==
  ASSUME NEW r \in SUBSET R!Known, r # {}
  PROVE  (IF r = {"0"} THEN "0" ELSE IF r = {"1"} THEN "1" ELSE "x")
         = (IF "1" \notin r THEN "0" ELSE IF "0" \notin r THEN "1" ELSE "x")
<1>1. CASE "1" \notin r
  <2>1. r = {"0"}
    BY <1>1 DEF R!Known
  <2> QED
    BY <1>1, <2>1
<1>2. CASE "1" \in r /\ "0" \notin r
  <2>1. r = {"1"}
    BY <1>2 DEF R!Known
  <2> QED
    BY <1>2, <2>1
<1>3. CASE "1" \in r /\ "0" \in r
  BY <1>3
<1> QED
  BY <1>1, <1>2, <1>3

\* The known bits that a bit may be.
LEMMA MayBe ==
  ASSUME NEW p \in LogicBit
  PROVE  /\ R!Values(p) \subseteq R!Known /\ R!Values(p) # {}
         /\ "0" \in R!Values(p) <=> p # "1"
         /\ "1" \in R!Values(p) <=> p # "0"
BY DEF LogicBit, R!Values, R!Known

\* LogicBit::and is the table of the language, obtained from what an unknown bit
\* may be.
LEMMA AndTable ==
  ASSUME NEW p \in LogicBit, NEW q \in LogicBit
  PROVE  R!AndB(p, q) = AndBit(p, q) /\ AndBit(p, q) \in LogicBit
<1> DEFINE r == {(IF u = "1" /\ v = "1" THEN "1" ELSE "0") : u \in R!Values(p), v \in R!Values(q)}
<1>1. R!AndB(p, q) = IF r = {"0"} THEN "0" ELSE IF r = {"1"} THEN "1" ELSE "x"
  BY DEF R!AndB, R!Lift
<1>2. r \in SUBSET R!Known /\ r # {}
  BY MayBe DEF R!Known
<1>3. "1" \in r <=> p # "0" /\ q # "0"
  BY MayBe
<1>4. "0" \in r <=> p # "1" \/ q # "1"
  BY MayBe DEF R!Known
<1> HIDE DEF r
<1>5. R!AndB(p, q) = IF ~(p # "0" /\ q # "0") THEN "0" ELSE IF ~(p # "1" \/ q # "1") THEN "1" ELSE "x"
  BY <1>1, <1>2, <1>3, <1>4, LiftFacts
<1> QED
  BY <1>5 DEF AndBit, LogicBit

\* LogicBit::or is the table of the language.
LEMMA OrTable ==
  ASSUME NEW p \in LogicBit, NEW q \in LogicBit
  PROVE  R!OrB(p, q) = OrBit(p, q) /\ OrBit(p, q) \in LogicBit
<1> DEFINE r == {(IF u = "1" \/ v = "1" THEN "1" ELSE "0") : u \in R!Values(p), v \in R!Values(q)}
<1>1. R!OrB(p, q) = IF r = {"0"} THEN "0" ELSE IF r = {"1"} THEN "1" ELSE "x"
  BY DEF R!OrB, R!Lift
<1>2. r \in SUBSET R!Known /\ r # {}
  BY MayBe DEF R!Known
<1>3. "1" \in r <=> p # "0" \/ q # "0"
  BY MayBe DEF R!Known
<1>4. "0" \in r <=> p # "1" /\ q # "1"
  BY MayBe DEF R!Known
<1> HIDE DEF r
<1>5. R!OrB(p, q) = IF ~(p # "0" \/ q # "0") THEN "0" ELSE IF ~(p # "1" /\ q # "1") THEN "1" ELSE "x"
  BY <1>1, <1>2, <1>3, <1>4, LiftFacts
<1> QED
  BY <1>5 DEF OrBit, LogicBit

\* LogicBit::xor is the table of the language.
LEMMA XorTable ==
  ASSUME NEW p \in LogicBit, NEW q \in LogicBit
  PROVE  R!XorB(p, q) = XorBit(p, q) /\ XorBit(p, q) \in LogicBit
<1> DEFINE P == R!Values(p)
           Q == R!Values(q)
           r == {(IF u # v THEN "1" ELSE "0") : u \in P, v \in Q}
<1>1. R!XorB(p, q) = IF r = {"0"} THEN "0" ELSE IF r = {"1"} THEN "1" ELSE "x"
  BY DEF R!XorB, R!Lift
<1>2. /\ P \subseteq {"0", "1"} /\ P # {} /\ ("0" \in P <=> p # "1") /\ ("1" \in P <=> p # "0")
      /\ Q \subseteq {"0", "1"} /\ Q # {} /\ ("0" \in Q <=> q # "1") /\ ("1" \in Q <=> q # "0")
  BY MayBe DEF R!Known
<1> HIDE DEF P, Q
<1>3. "1" \in r <=> \E u \in P, v \in Q : u # v
  OBVIOUS
<1>4. "0" \in r <=> \E u \in P, v \in Q : u = v
  OBVIOUS
<1>5. r \in SUBSET R!Known /\ r # {}
  <2>1. r \subseteq R!Known
    BY DEF R!Known
  <2>2. PICK u \in P, v \in Q : TRUE
    BY <1>2
  <2>3. (IF u # v THEN "1" ELSE "0") \in r
    OBVIOUS
  <2> QED
    BY <2>1, <2>3
<1> HIDE DEF r
<1>6. R!XorB(p, q) = IF "1" \notin r THEN "0" ELSE IF "0" \notin r THEN "1" ELSE "x"
  BY <1>1, <1>5, LiftFacts
<1>7. "1" \in r <=> ("0" \in P /\ "1" \in Q) \/ ("1" \in P /\ "0" \in Q)
  BY <1>2, <1>3
<1>8. "0" \in r <=> ("0" \in P /\ "0" \in Q) \/ ("1" \in P /\ "1" \in Q)
  BY <1>2, <1>4
<1>9. XorBit(p, q) = IF p \in Known /\ q \in Known THEN IF p = q THEN "0" ELSE "1" ELSE "x"
  BY DEF XorBit
<1> QED
  BY <1>2, <1>6, <1>7, <1>8, <1>9 DEF Known, LogicBit

\* LogicBit::not is the table of the language.
LEMMA NotTable ==
  ASSUME NEW p \in LogicBit
  PROVE  R!NotB(p) = NotBit(p) /\ NotBit(p) \in LogicBit
<1> DEFINE r == {(IF u = "1" THEN "0" ELSE "1") : u \in R!Values(p), v \in R!Values("0")}
<1>1. R!NotB(p) = IF r = {"0"} THEN "0" ELSE IF r = {"1"} THEN "1" ELSE "x"
  BY DEF R!NotB, R!Lift
<1>2. "0" \in LogicBit
  BY DEF LogicBit
<1>3. r \in SUBSET R!Known /\ r # {}
  BY <1>2, MayBe DEF R!Known
<1>4. "1" \in r <=> p # "1"
  BY <1>2, MayBe DEF R!Known
<1>5. "0" \in r <=> p # "0"
  BY <1>2, MayBe DEF R!Known
<1> HIDE DEF r
<1>6. R!NotB(p) = IF p = "1" THEN "0" ELSE IF p = "0" THEN "1" ELSE "x"
  BY <1>1, <1>3, <1>4, <1>5, LiftFacts
<1> QED
  BY <1>6 DEF NotBit, LogicBit

-----------------------------------------------------------------------------
(* Operands *)

\* A value that is no literal.
Ready(v) == Canon(v) /\ v.is_fill = FALSE

\* A result and what it should be.
Agrees(v, r) == Ready(v) /\ Abstract(v) = r

\* A value with the bits of f.
Shows(v, n, s, f) == /\ Ready(v) /\ v.width = n /\ v.is_signed = s
                     /\ \A i \in Mask(n) : PlaneBit(v.val, v.xz, i) = f[i]

\* A value that shows bits stands for them.
LEMMA ShowsFacts ==
  ASSUME NEW v, NEW n, NEW s, NEW f, f = [i \in Mask(n) |-> f[i]], Shows(v, n, s, f)
  PROVE  Agrees(v, Bits(n, s, f))
BY SameBits DEF Shows, Agrees, Ready

\* The same bits under another type.
LEMMA Retyped ==
  ASSUME NEW n, NEW f, NEW s, NEW t
  PROVE  [Bits(n, s, f) EXCEPT !.is_signed = t] = Bits(n, t, f)
<1> DEFINE no == FALSE
<1>1. Bits(n, s, f) = [width |-> n, is_signed |-> s, is_fill |-> no, bit |-> f]
  BY DEF Bits
<1>2. Bits(n, t, f) = [width |-> n, is_signed |-> t, is_fill |-> no, bit |-> f]
  BY DEF Bits
<1> HIDE DEF no
<1> QED
  BY <1>1, <1>2

\* What a value that is no literal is made of.
LEMMA ReadyFacts ==
  ASSUME NEW v, Ready(v)
  PROVE  /\ v.width \in Nat /\ v.is_signed \in BOOLEAN /\ v.is_fill = FALSE
         /\ v.val \in SUBSET Nat /\ v.xz \in SUBSET Nat
         /\ v.val \subseteq Mask(v.width) /\ v.xz \subseteq Mask(v.width)
         /\ IsInline(v) \in BOOLEAN /\ (IsInline(v) <=> v.width <= W)
         /\ Canon(v)
BY CanonFacts DEF Ready, IsInline

\* A plane of bits by its members.
LEMMA PlainShows ==
  ASSUME NEW n \in Nat, NEW s \in BOOLEAN, NEW val, NEW xz, NEW f,
         val \subseteq Mask(n), xz \subseteq Mask(n),
         \A i \in Mask(n) : /\ f[i] \in LogicBit
                            /\ i \in val <=> f[i] \in {"1", "z"}
                            /\ i \in xz <=> f[i] \in {"x", "z"}
  PROVE  Shows(Plain(val, xz, n, s), n, s, f)
<1> DEFINE v == Plain(val, xz, n, s)
<1>1. Canon(v)
  BY PlainFacts
<1>2. v.width = n /\ v.is_signed = s /\ v.is_fill = FALSE /\ v.val = val /\ v.xz = xz
  BY DEF Plain
<1> HIDE DEF v
<1>3. ASSUME NEW i \in Mask(n) PROVE PlaneBit(v.val, v.xz, i) = f[i]
  BY <1>2, BitFacts DEF LogicBit
<1>4. Shows(v, n, s, f)
  BY <1>1, <1>2, <1>3 DEF Shows, Ready
<1> QED
  BY <1>4 DEF v

\* The bit of a value beyond its width is that of its extension by 0.
LEMMA ExtBitFacts ==
  ASSUME NEW v, Ready(v), NEW i \in Nat
  PROVE  /\ R!ExtBit(Abstract(v), FALSE, i) = PlaneBit(v.val, v.xz, i)
         /\ GetBit(v, i) = PlaneBit(v.val, v.xz, i)
         /\ PlaneBit(v.val, v.xz, i) \in LogicBit
<1>1. /\ Canon(v) /\ v.is_fill = FALSE /\ v.width \in Nat /\ v.val \subseteq Mask(v.width)
           /\ v.xz \subseteq Mask(v.width)
  BY ReadyFacts
<1>2. GetBit(v, i) = PlaneBit(v.val, v.xz, i) /\ (i >= v.width => PlaneBit(v.val, v.xz, i) = "0")
  BY <1>1, GetBitFacts
<1>5. Abstract(v).width = v.width
  BY <1>1, AbstractFacts
<1>6. PlaneBit(v.val, v.xz, i) \in LogicBit
  BY BitFacts
<1>3. CASE i < v.width
  <2>1. i \in Mask(v.width)
    BY <1>1, <1>3 DEF Mask
  <2>2. Abstract(v).bit[i] = PlaneBit(v.val, v.xz, i)
    BY <1>1, <2>1, AbstractFacts
  <2>3. R!ExtBit(Abstract(v), FALSE, i) = Abstract(v).bit[i]
    BY <1>3, <1>5 DEF R!ExtBit
  <2> QED
    BY <1>2, <1>6, <2>2, <2>3
<1>4. CASE ~(i < v.width)
  <2>1. R!ExtBit(Abstract(v), FALSE, i) = "0"
    BY <1>4, <1>5 DEF R!ExtBit
  <2>2. PlaneBit(v.val, v.xz, i) = "0"
    BY <1>1, <1>2, <1>4
  <2> QED
    BY <1>2, <1>6, <2>1, <2>2
<1> QED
  BY <1>3, <1>4

\* The sign bit that the code reads is the one of the language.
LEMMA TopFacts ==
  ASSUME NEW v, Ready(v)
  PROVE  /\ R!Top(Abstract(v)) = TopBit(v) /\ TopBit(v) \in LogicBit
         /\ v.width = 0 => TopBit(v) = "0"
         /\ v.width # 0 => TopBit(v) = PlaneBit(v.val, v.xz, v.width - 1)
<1>1. Canon(v) /\ v.width \in Nat /\ Abstract(v).width = v.width
  BY ReadyFacts, AbstractFacts
<1>2. CASE v.width = 0
  BY <1>1, <1>2 DEF R!Top, TopBit, LogicBit
<1>3. CASE v.width # 0
  <2>1. v.width - 1 \in Nat /\ v.width - 1 \in Mask(v.width) /\ v.width > 0
    BY <1>1, <1>3 DEF Mask
  <2>2. GetBit(v, v.width - 1) = PlaneBit(v.val, v.xz, v.width - 1)
    BY <2>1, ExtBitFacts
  <2>3. Abstract(v).bit[v.width - 1] = PlaneBit(v.val, v.xz, v.width - 1)
          /\ PlaneBit(v.val, v.xz, v.width - 1) \in LogicBit
    BY <1>1, <2>1, AbstractFacts, BitFacts
  <2>4. TopBit(v) = PlaneBit(v.val, v.xz, v.width - 1)
    BY <2>1, <2>2 DEF TopBit
  <2>5. R!Top(Abstract(v)) = PlaneBit(v.val, v.xz, v.width - 1)
    BY <1>1, <1>3, <2>3 DEF R!Top
  <2> QED
    BY <1>3, <2>3, <2>4, <2>5
<1> QED
  BY <1>2, <1>3

\* What an operand is made of.
LEMMA OperandFacts ==
  ASSUME NEW a, Operand(a)
  PROVE  Canon(a) /\ a.width \in Nat /\ a.width <= Widest /\ a.is_fill \in BOOLEAN /\ (a.is_fill => a.width = 1)
BY CanonFacts DEF Operand, Canon

\* A literal at a width is its bit throughout that width.
LEMMA FillAtFacts ==
  ASSUME NEW a, Operand(a), a.is_fill, NEW n \in Nat, n <= MaxWidth
  PROVE  Agrees(FillAt(a, n), R!AtWidth(Abstract(a), n))
<1> DEFINE m == Larger(n, 1)
<1>1. m \in Nat /\ m <= MaxWidth /\ CapWidth(m) = m /\ R!MaxOf(n, 1) = m
  BY ValueAssumption, CapFacts DEF Larger, R!MaxOf
<1>0. Canon(a) /\ a.width = 1 /\ a.is_fill = TRUE
  BY OperandFacts
<1>2. 0 \in Mask(a.width) /\ Abstract(a).is_fill = TRUE
  <2>1. Abstract(a).is_fill = TRUE
    BY <1>0, AbstractFacts
  <2>2. 0 \in Mask(a.width)
    BY <1>0 DEF Mask
  <2> QED
    BY <2>1, <2>2
<1>3. Abstract(a).bit[0] = GetBit(a, 0) /\ GetBit(a, 0) \in LogicBit
  BY <1>0, <1>2, AbstractFacts, GetBitFacts
<1> HIDE DEF m
<1>4. FillAt(a, n) = Filled(m, GetBit(a, 0)) /\ R!AtWidth(Abstract(a), n) = R!All(m, GetBit(a, 0))
  BY <1>1, <1>2, <1>3 DEF FillAt, R!AtWidth, m
<1> DEFINE v == Filled(m, GetBit(a, 0))
<1>5. Canon(v) /\ v.is_fill = FALSE /\ Abstract(v) = R!All(m, GetBit(a, 0))
  BY <1>1, <1>3, FilledValue
<1> HIDE DEF v
<1> QED
  BY <1>4, <1>5 DEF Agrees, Ready, v

\* fill_pair: both operands, once literals have the width of the other one.
LEMMA FillPairFacts ==
  ASSUME NEW a, Operand(a), NEW b, Operand(b)
  PROVE  /\ Agrees(FillPair(a, b)[1], R!AtWidth(Abstract(a), b.width))
         /\ Agrees(FillPair(a, b)[2], R!AtWidth(Abstract(b), a.width))
<1> DEFINE w == Larger(Larger(a.width, b.width), 1)
<1>1. FillPair(a, b)[1] = (IF a.is_fill THEN FillAt(a, w) ELSE a)
        /\ FillPair(a, b)[2] = (IF b.is_fill THEN FillAt(b, w) ELSE b)
  BY DEF FillPair
<1>2. a.width \in Nat /\ b.width \in Nat /\ a.width <= MaxWidth /\ b.width <= MaxWidth
  BY OperandFacts, OpsAssumption, ValueAssumption
<1>3. ASSUME a.is_fill PROVE FillAt(a, w) = FillAt(a, b.width)
  <2>1. Larger(w, 1) = Larger(b.width, 1)
    BY <1>2, <1>3, OperandFacts DEF Larger
  <2> QED
    BY <2>1 DEF FillAt
<1>4. ASSUME b.is_fill PROVE FillAt(b, w) = FillAt(b, a.width)
  <2>1. Larger(w, 1) = Larger(a.width, 1)
    BY <1>2, <1>4, OperandFacts DEF Larger
  <2> QED
    BY <2>1 DEF FillAt
<1> HIDE DEF w
<1>5. Agrees(FillPair(a, b)[1], R!AtWidth(Abstract(a), b.width))
  <2>1. CASE a.is_fill
    BY <1>1, <1>2, <1>3, <2>1, FillAtFacts
  <2>2. CASE ~a.is_fill
    <3>1. a.is_fill = FALSE /\ Canon(a) /\ Abstract(a).is_fill = FALSE
      BY <2>2, OperandFacts, AbstractFacts
    <3>2. R!AtWidth(Abstract(a), b.width) = Abstract(a)
      BY <3>1 DEF R!AtWidth
    <3>3. Agrees(a, Abstract(a))
      BY <3>1 DEF Agrees, Ready
    <3>4. FillPair(a, b)[1] = a
      BY <1>1, <2>2
    <3> QED
      BY <3>2, <3>3, <3>4
  <2> QED
    BY <2>1, <2>2
<1>6. Agrees(FillPair(a, b)[2], R!AtWidth(Abstract(b), a.width))
  <2>1. CASE b.is_fill
    BY <1>1, <1>2, <1>4, <2>1, FillAtFacts
  <2>2. CASE ~b.is_fill
    <3>1. b.is_fill = FALSE /\ Canon(b) /\ Abstract(b).is_fill = FALSE
      BY <2>2, OperandFacts, AbstractFacts
    <3>2. R!AtWidth(Abstract(b), a.width) = Abstract(b)
      BY <3>1 DEF R!AtWidth
    <3>3. Agrees(b, Abstract(b))
      BY <3>1 DEF Agrees, Ready
    <3>4. FillPair(a, b)[2] = b
      BY <1>1, <2>2
    <3> QED
      BY <3>2, <3>3, <3>4
  <2> QED
    BY <2>1, <2>2
<1> QED
  BY <1>5, <1>6

-----------------------------------------------------------------------------
(* Bitwise operators *)

\* One bit of and.
LEMMA AndBits ==
  ASSUME NEW av, NEW ax, NEW bv, NEW bx, NEW i
  PROVE  LET o == AndBit(PlaneBit(av, ax, i), PlaneBit(bv, bx, i))
             zero(v, x) == i \notin v /\ i \notin x
             one(v, x) == i \in v /\ i \notin x
         IN /\ o \in LogicBit
            /\ o \in {"1", "z"} <=> one(av, ax) /\ one(bv, bx)
            /\ o \in {"x", "z"} <=> ~(one(av, ax) /\ one(bv, bx)) /\ ~(zero(av, ax) \/ zero(bv, bx))
<1> DEFINE p == PlaneBit(av, ax, i)
           q == PlaneBit(bv, bx, i)
<1>1. p = (IF i \in ax THEN (IF i \in av THEN "z" ELSE "x") ELSE (IF i \in av THEN "1" ELSE "0"))
  BY BitFacts
<1>2. q = (IF i \in bx THEN (IF i \in bv THEN "z" ELSE "x") ELSE (IF i \in bv THEN "1" ELSE "0"))
  BY BitFacts
<1> HIDE DEF p, q
<1>3. AndBit(p, q) = (IF p = "0" \/ q = "0" THEN "0" ELSE IF p = "1" /\ q = "1" THEN "1" ELSE "x")
  BY <1>1, <1>2 DEF AndBit, Known
<1> DEFINE o == AndBit(p, q)
<1> HIDE DEF o
<1>4. o = (IF p = "0" \/ q = "0" THEN "0" ELSE IF p = "1" /\ q = "1" THEN "1" ELSE "x")
  BY <1>3 DEF o
<1>5. o \in LogicBit
  BY <1>4 DEF LogicBit
<1>6. (o \in {"1", "z"} <=> o = "1") /\ (o \in {"x", "z"} <=> o = "x")
  BY <1>4
<1>7. o = "1" <=> i \in av /\ i \notin ax /\ i \in bv /\ i \notin bx
  BY <1>1, <1>2, <1>4
<1>8. o = "x" <=> ~(i \in av /\ i \notin ax /\ i \in bv /\ i \notin bx)
        /\ ~((i \notin av /\ i \notin ax) \/ (i \notin bv /\ i \notin bx))
  BY <1>1, <1>2, <1>4
<1> QED
  BY <1>5, <1>6, <1>7, <1>8 DEF o, p, q

\* The arms of bitwise_and agree bit by bit.
LEMMA BitwiseAndFacts ==
  ASSUME NEW a, Ready(a), NEW b, Ready(b)
  PROVE  LET w == Larger(a.width, b.width)
         IN Shows(Bitwise(AndInline, AndLanes, AndBit, a, b), w, FALSE,
                  [i \in Mask(w) |-> AndBit(PlaneBit(a.val, a.xz, i), PlaneBit(b.val, b.xz, i))])
<1> DEFINE w == Larger(a.width, b.width)
           f == [i \in Mask(w) |-> AndBit(PlaneBit(a.val, a.xz, i), PlaneBit(b.val, b.xz, i))]
           v == Bitwise(AndInline, AndLanes, AndBit, a, b)
<1>1. /\ a.width \in Nat /\ a.val \in SUBSET Nat /\ a.xz \in SUBSET Nat
      /\ b.width \in Nat /\ b.val \in SUBSET Nat /\ b.xz \in SUBSET Nat
  BY ReadyFacts
<1>2. w \in Nat /\ W \in Nat /\ Mask(a.width) \subseteq Mask(w) /\ Mask(b.width) \subseteq Mask(w)
        /\ Mask(w) \subseteq Nat
  BY <1>1, ValueAssumption DEF Larger, Mask
<1>3. a.val \subseteq Mask(w) /\ a.xz \subseteq Mask(w) /\ b.val \subseteq Mask(w) /\ b.xz \subseteq Mask(w)
  BY <1>2, ReadyFacts
<1>4. \A i \in Mask(w) :
        /\ f[i] \in LogicBit
        /\ f[i] \in {"1", "z"} <=> i \in a.val /\ i \notin a.xz /\ i \in b.val /\ i \notin b.xz
        /\ f[i] \in {"x", "z"} <=> ~(i \in a.val /\ i \notin a.xz /\ i \in b.val /\ i \notin b.xz)
             /\ ~((i \notin a.val /\ i \notin a.xz) \/ (i \notin b.val /\ i \notin b.xz))
  BY AndBits
<1> HIDE DEF v
<1>5. ASSUME IsInline(a) /\ IsInline(b) PROVE Shows(v, w, FALSE, f)
  <2> DEFINE r == AndInline(a.val, a.xz, b.val, b.xz, w)
  <2>1. v = Plain(r[1], r[2], w, FALSE)
    BY <1>5 DEF Bitwise, v
  <2>2. Mask(w) \subseteq 0 .. W-1
    BY <1>1, <1>2, <1>5 DEF IsInline, Larger, Mask
  <2>3. r[1] \subseteq Mask(w) /\ r[2] \subseteq Mask(w)
    BY <1>3 DEF AndInline
  <2>4. \A i \in Mask(w) : (i \in r[1] <=> f[i] \in {"1", "z"}) /\ (i \in r[2] <=> f[i] \in {"x", "z"})
    <3> HIDE DEF f, w
    <3> QED
      BY <1>4, <2>2 DEF AndInline
  <2> HIDE DEF r, f, w
  <2> QED
    BY <1>2, <1>4, <2>1, <2>3, <2>4, PlainShows
<1>6. ASSUME ~(IsInline(a) /\ IsInline(b)), a.width = b.width PROVE Shows(v, w, FALSE, f)
  <2> DEFINE r == AndLanes(a.val, a.xz, b.val, b.xz, WordBits(a.width))
  <2>1. v = Plain(MaskTop(r[1], a.width), MaskTop(r[2], a.width), a.width, FALSE)
    BY <1>6 DEF Bitwise, WideLanes, v
  <2>2. w = a.width /\ a.width \in Nat \ {0}
    BY <1>1, <1>2, <1>6 DEF Larger, IsInline
  <2>3. Mask(w) \subseteq WordBits(a.width)
    BY <2>2, WordBitsFacts
  <2>4. r[1] \in SUBSET WordBits(a.width) /\ r[2] \in SUBSET WordBits(a.width)
    BY <1>3, <2>3 DEF AndLanes
  <2>5. MaskTop(r[1], a.width) = r[1] \cap Mask(w) /\ MaskTop(r[2], a.width) = r[2] \cap Mask(w)
    <3> HIDE DEF r, w
    <3> QED
      BY <2>2, <2>4, MaskTopFacts
  <2>6. \A i \in Mask(w) : (i \in r[1] <=> f[i] \in {"1", "z"}) /\ (i \in r[2] <=> f[i] \in {"x", "z"})
    <3> HIDE DEF f, w
    <3> QED
      BY <1>4, <2>3 DEF AndLanes
  <2> HIDE DEF r, f, w
  <2>7. v = Plain(r[1] \cap Mask(w), r[2] \cap Mask(w), w, FALSE)
    BY <2>1, <2>2, <2>5
  <2> QED
    BY <1>2, <1>4, <2>6, <2>7, PlainShows
<1>7. ASSUME ~(IsInline(a) /\ IsInline(b)), a.width # b.width PROVE Shows(v, w, FALSE, f)
  <2>1. v = FromBits(w, FALSE, LAMBDA i : AndBit(GetBit(a, i), GetBit(b, i)))
    BY <1>7 DEF Bitwise, v
  <2>2. \A i \in Mask(w) : AndBit(GetBit(a, i), GetBit(b, i)) = f[i]
    BY <1>2, ExtBitFacts
  <2> HIDE DEF f, w
  <2>3. v = Plain({i \in Mask(w) : f[i] \in {"1", "z"}}, {i \in Mask(w) : f[i] \in {"x", "z"}}, w, FALSE)
    BY <2>1, <2>2 DEF FromBits
  <2> QED
    BY <1>2, <1>4, <2>3, PlainShows
<1>8. Shows(v, w, FALSE, f)
  BY <1>5, <1>6, <1>7, Zenon
<1> QED
  BY <1>8 DEF v

\* bitwise_and is the operator of the language.
LEMMA AndFacts ==
  ASSUME NEW a, Operand(a), NEW b, Operand(b)
  PROVE  Agrees(BitwiseAnd(a, b), R!And(Abstract(a), Abstract(b)))
<1> DEFINE l == FillPair(a, b)[1]
           r == FillPair(a, b)[2]
           w == Larger(l.width, r.width)
           f == [i \in Mask(w) |-> AndBit(PlaneBit(l.val, l.xz, i), PlaneBit(r.val, r.xz, i))]
           x == R!AtWidth(Abstract(a), b.width)
           y == R!AtWidth(Abstract(b), a.width)
<1>1. Ready(l) /\ Abstract(l) = x /\ Ready(r) /\ Abstract(r) = y
  BY FillPairFacts DEF Agrees
<1>2. Abstract(a).width = a.width /\ Abstract(b).width = b.width
  BY OperandFacts, AbstractFacts
<1>3. BitwiseAnd(a, b) = Bitwise(AndInline, AndLanes, AndBit, l, r)
  BY DEF BitwiseAnd, OnFilled
<1>4. R!And(Abstract(a), Abstract(b)) =
        [width |-> R!MaxOf(x.width, y.width), is_signed |-> FALSE, is_fill |-> FALSE,
         bit |-> [i \in R!Positions(R!MaxOf(x.width, y.width)) |-> R!AndB(R!ExtBit(x, FALSE, i),
           R!ExtBit(y, FALSE, i))]]
  BY <1>2 DEF R!And, R!Bitwise, R!Vector
<1> HIDE DEF l, r, x, y
<1>5. x.width = l.width /\ y.width = r.width /\ l.width \in Nat /\ r.width \in Nat
  BY <1>1, ReadyFacts, AbstractFacts
<1>6. R!MaxOf(x.width, y.width) = w /\ R!Positions(w) = Mask(w) /\ Mask(w) \subseteq Nat
  BY <1>5 DEF R!MaxOf, R!Positions, Mask, Larger
<1> HIDE DEF w
<1>7. \A i \in Mask(w) : R!AndB(R!ExtBit(x, FALSE, i), R!ExtBit(y, FALSE, i)) = f[i]
  BY <1>1, <1>6, ExtBitFacts, AndTable
<1>8. R!And(Abstract(a), Abstract(b)) = Bits(w, FALSE, f)
  <2> HIDE DEF f
  <2>1. [i \in Mask(w) |-> R!AndB(R!ExtBit(x, FALSE, i), R!ExtBit(y, FALSE, i))] = [i \in Mask(w) |-> f[i]]
    BY <1>7, Zenon
  <2>2. f = [i \in Mask(w) |-> f[i]]
    BY DEF f
  <2> QED
    BY <1>4, <1>6, <2>1, <2>2 DEF Bits
<1>9. Shows(BitwiseAnd(a, b), w, FALSE, f)
  BY <1>1, <1>3, BitwiseAndFacts DEF w
<1> QED
  <2> DEFINE v == BitwiseAnd(a, b)
  <2>1. f = [i \in Mask(w) |-> f[i]]
    OBVIOUS
  <2> HIDE DEF f, v
  <2>2. Shows(v, w, FALSE, f)
    BY <1>9 DEF v
  <2> QED
    BY <1>8, <2>1, <2>2, ShowsFacts DEF v

\* One bit of or.
LEMMA OrBits ==
  ASSUME NEW av, NEW ax, NEW bv, NEW bx, NEW i
  PROVE  LET o == OrBit(PlaneBit(av, ax, i), PlaneBit(bv, bx, i))
             zero(v, x) == i \notin v /\ i \notin x
             one(v, x) == i \in v /\ i \notin x
         IN /\ o \in LogicBit
            /\ o \in {"1", "z"} <=> one(av, ax) \/ one(bv, bx)
            /\ o \in {"x", "z"} <=> ~(one(av, ax) \/ one(bv, bx)) /\ ~(zero(av, ax) /\ zero(bv, bx))
<1> DEFINE p == PlaneBit(av, ax, i)
           q == PlaneBit(bv, bx, i)
<1>1. p = (IF i \in ax THEN (IF i \in av THEN "z" ELSE "x") ELSE (IF i \in av THEN "1" ELSE "0"))
  BY BitFacts
<1>2. q = (IF i \in bx THEN (IF i \in bv THEN "z" ELSE "x") ELSE (IF i \in bv THEN "1" ELSE "0"))
  BY BitFacts
<1> HIDE DEF p, q
<1>3. OrBit(p, q) = (IF p = "1" \/ q = "1" THEN "1" ELSE IF p = "0" /\ q = "0" THEN "0" ELSE "x")
  BY <1>1, <1>2 DEF OrBit, Known
<1> DEFINE o == OrBit(p, q)
<1> HIDE DEF o
<1>4. o = (IF p = "1" \/ q = "1" THEN "1" ELSE IF p = "0" /\ q = "0" THEN "0" ELSE "x")
  BY <1>3 DEF o
<1>5. o \in LogicBit
  BY <1>4 DEF LogicBit
<1>6. (o \in {"1", "z"} <=> o = "1") /\ (o \in {"x", "z"} <=> o = "x")
  BY <1>4
<1>7. o = "1" <=> (i \in av /\ i \notin ax) \/ (i \in bv /\ i \notin bx)
  BY <1>1, <1>2, <1>4
<1>8. o = "x" <=> ~((i \in av /\ i \notin ax) \/ (i \in bv /\ i \notin bx))
        /\ ~(i \notin av /\ i \notin ax /\ i \notin bv /\ i \notin bx)
  BY <1>1, <1>2, <1>4
<1> QED
  BY <1>5, <1>6, <1>7, <1>8 DEF o, p, q

\* The arms of bitwise_or agree bit by bit.
LEMMA BitwiseOrFacts ==
  ASSUME NEW a, Ready(a), NEW b, Ready(b)
  PROVE  LET w == Larger(a.width, b.width)
         IN Shows(Bitwise(OrInline, OrLanes, OrBit, a, b), w, FALSE,
                  [i \in Mask(w) |-> OrBit(PlaneBit(a.val, a.xz, i), PlaneBit(b.val, b.xz, i))])
<1> DEFINE w == Larger(a.width, b.width)
           f == [i \in Mask(w) |-> OrBit(PlaneBit(a.val, a.xz, i), PlaneBit(b.val, b.xz, i))]
           v == Bitwise(OrInline, OrLanes, OrBit, a, b)
<1>1. /\ a.width \in Nat /\ a.val \in SUBSET Nat /\ a.xz \in SUBSET Nat
      /\ b.width \in Nat /\ b.val \in SUBSET Nat /\ b.xz \in SUBSET Nat
  BY ReadyFacts
<1>2. w \in Nat /\ W \in Nat /\ Mask(a.width) \subseteq Mask(w) /\ Mask(b.width) \subseteq Mask(w)
        /\ Mask(w) \subseteq Nat
  BY <1>1, ValueAssumption DEF Larger, Mask
<1>3. a.val \subseteq Mask(w) /\ a.xz \subseteq Mask(w) /\ b.val \subseteq Mask(w) /\ b.xz \subseteq Mask(w)
  BY <1>2, ReadyFacts
<1>4. \A i \in Mask(w) :
        /\ f[i] \in LogicBit
        /\ f[i] \in {"1", "z"} <=> (i \in a.val /\ i \notin a.xz) \/ (i \in b.val /\ i \notin b.xz)
        /\ f[i] \in {"x", "z"} <=> ~((i \in a.val /\ i \notin a.xz) \/ (i \in b.val /\ i \notin b.xz))
             /\ ~(i \notin a.val /\ i \notin a.xz /\ i \notin b.val /\ i \notin b.xz)
  BY OrBits
<1> HIDE DEF v
<1>5. ASSUME IsInline(a) /\ IsInline(b) PROVE Shows(v, w, FALSE, f)
  <2> DEFINE r == OrInline(a.val, a.xz, b.val, b.xz, w)
  <2>1. v = Plain(r[1], r[2], w, FALSE)
    BY <1>5 DEF Bitwise, v
  <2>2. Mask(w) \subseteq 0 .. W-1
    BY <1>1, <1>2, <1>5 DEF IsInline, Larger, Mask
  <2>3. r[1] \subseteq Mask(w) /\ r[2] \subseteq Mask(w)
    BY <1>3 DEF OrInline
  <2>4. \A i \in Mask(w) : (i \in r[1] <=> f[i] \in {"1", "z"}) /\ (i \in r[2] <=> f[i] \in {"x", "z"})
    <3> HIDE DEF f, w
    <3> QED
      BY <1>4, <2>2 DEF OrInline
  <2> HIDE DEF r, f, w
  <2> QED
    BY <1>2, <1>4, <2>1, <2>3, <2>4, PlainShows
<1>6. ASSUME ~(IsInline(a) /\ IsInline(b)), a.width = b.width PROVE Shows(v, w, FALSE, f)
  <2> DEFINE r == OrLanes(a.val, a.xz, b.val, b.xz, WordBits(a.width))
  <2>1. v = Plain(MaskTop(r[1], a.width), MaskTop(r[2], a.width), a.width, FALSE)
    BY <1>6 DEF Bitwise, WideLanes, v
  <2>2. w = a.width /\ a.width \in Nat \ {0}
    BY <1>1, <1>2, <1>6 DEF Larger, IsInline
  <2>3. Mask(w) \subseteq WordBits(a.width)
    BY <2>2, WordBitsFacts
  <2>4. r[1] \in SUBSET WordBits(a.width) /\ r[2] \in SUBSET WordBits(a.width)
    BY <1>3, <2>3 DEF OrLanes
  <2>5. MaskTop(r[1], a.width) = r[1] \cap Mask(w) /\ MaskTop(r[2], a.width) = r[2] \cap Mask(w)
    <3> HIDE DEF r, w
    <3> QED
      BY <2>2, <2>4, MaskTopFacts
  <2>6. \A i \in Mask(w) : (i \in r[1] <=> f[i] \in {"1", "z"}) /\ (i \in r[2] <=> f[i] \in {"x", "z"})
    <3> HIDE DEF f, w
    <3> QED
      BY <1>4, <2>3 DEF OrLanes
  <2> HIDE DEF r, f, w
  <2>7. v = Plain(r[1] \cap Mask(w), r[2] \cap Mask(w), w, FALSE)
    BY <2>1, <2>2, <2>5
  <2> QED
    BY <1>2, <1>4, <2>6, <2>7, PlainShows
<1>7. ASSUME ~(IsInline(a) /\ IsInline(b)), a.width # b.width PROVE Shows(v, w, FALSE, f)
  <2>1. v = FromBits(w, FALSE, LAMBDA i : OrBit(GetBit(a, i), GetBit(b, i)))
    BY <1>7 DEF Bitwise, v
  <2>2. \A i \in Mask(w) : OrBit(GetBit(a, i), GetBit(b, i)) = f[i]
    BY <1>2, ExtBitFacts
  <2> HIDE DEF f, w
  <2>3. v = Plain({i \in Mask(w) : f[i] \in {"1", "z"}}, {i \in Mask(w) : f[i] \in {"x", "z"}}, w, FALSE)
    BY <2>1, <2>2 DEF FromBits
  <2> QED
    BY <1>2, <1>4, <2>3, PlainShows
<1>8. Shows(v, w, FALSE, f)
  BY <1>5, <1>6, <1>7, Zenon
<1> QED
  BY <1>8 DEF v

\* bitwise_or is the operator of the language.
LEMMA OrFacts ==
  ASSUME NEW a, Operand(a), NEW b, Operand(b)
  PROVE  Agrees(BitwiseOr(a, b), R!Or(Abstract(a), Abstract(b)))
<1> DEFINE l == FillPair(a, b)[1]
           r == FillPair(a, b)[2]
           w == Larger(l.width, r.width)
           f == [i \in Mask(w) |-> OrBit(PlaneBit(l.val, l.xz, i), PlaneBit(r.val, r.xz, i))]
           x == R!AtWidth(Abstract(a), b.width)
           y == R!AtWidth(Abstract(b), a.width)
<1>1. Ready(l) /\ Abstract(l) = x /\ Ready(r) /\ Abstract(r) = y
  BY FillPairFacts DEF Agrees
<1>2. Abstract(a).width = a.width /\ Abstract(b).width = b.width
  BY OperandFacts, AbstractFacts
<1>3. BitwiseOr(a, b) = Bitwise(OrInline, OrLanes, OrBit, l, r)
  BY DEF BitwiseOr, OnFilled
<1>4. R!Or(Abstract(a), Abstract(b)) =
        [width |-> R!MaxOf(x.width, y.width), is_signed |-> FALSE, is_fill |-> FALSE,
         bit |-> [i \in R!Positions(R!MaxOf(x.width, y.width)) |-> R!OrB(R!ExtBit(x, FALSE, i),
           R!ExtBit(y, FALSE, i))]]
  BY <1>2 DEF R!Or, R!Bitwise, R!Vector
<1> HIDE DEF l, r, x, y
<1>5. x.width = l.width /\ y.width = r.width /\ l.width \in Nat /\ r.width \in Nat
  BY <1>1, ReadyFacts, AbstractFacts
<1>6. R!MaxOf(x.width, y.width) = w /\ R!Positions(w) = Mask(w) /\ Mask(w) \subseteq Nat
  BY <1>5 DEF R!MaxOf, R!Positions, Mask, Larger
<1> HIDE DEF w
<1>7. \A i \in Mask(w) : R!OrB(R!ExtBit(x, FALSE, i), R!ExtBit(y, FALSE, i)) = f[i]
  BY <1>1, <1>6, ExtBitFacts, OrTable
<1>8. R!Or(Abstract(a), Abstract(b)) = Bits(w, FALSE, f)
  <2> HIDE DEF f
  <2>1. [i \in Mask(w) |-> R!OrB(R!ExtBit(x, FALSE, i), R!ExtBit(y, FALSE, i))] = [i \in Mask(w) |-> f[i]]
    BY <1>7, Zenon
  <2>2. f = [i \in Mask(w) |-> f[i]]
    BY DEF f
  <2> QED
    BY <1>4, <1>6, <2>1, <2>2 DEF Bits
<1>9. Shows(BitwiseOr(a, b), w, FALSE, f)
  BY <1>1, <1>3, BitwiseOrFacts DEF w
<1> QED
  <2> DEFINE v == BitwiseOr(a, b)
  <2>1. f = [i \in Mask(w) |-> f[i]]
    OBVIOUS
  <2> HIDE DEF f, v
  <2>2. Shows(v, w, FALSE, f)
    BY <1>9 DEF v
  <2> QED
    BY <1>8, <2>1, <2>2, ShowsFacts DEF v

\* One bit of xor.
LEMMA XorBits ==
  ASSUME NEW av, NEW ax, NEW bv, NEW bx, NEW i
  PROVE  LET o == XorBit(PlaneBit(av, ax, i), PlaneBit(bv, bx, i))
             zero(v, x) == i \notin v /\ i \notin x
             one(v, x) == i \in v /\ i \notin x
         IN /\ o \in LogicBit
            /\ o \in {"1", "z"} <=> i \notin ax /\ i \notin bx /\ ~(i \in av <=> i \in bv)
            /\ o \in {"x", "z"} <=> i \in ax \/ i \in bx
<1> DEFINE p == PlaneBit(av, ax, i)
           q == PlaneBit(bv, bx, i)
<1>1. p = (IF i \in ax THEN (IF i \in av THEN "z" ELSE "x") ELSE (IF i \in av THEN "1" ELSE "0"))
  BY BitFacts
<1>2. q = (IF i \in bx THEN (IF i \in bv THEN "z" ELSE "x") ELSE (IF i \in bv THEN "1" ELSE "0"))
  BY BitFacts
<1> HIDE DEF p, q
<1>3. XorBit(p, q) = (IF p \in {"0", "1"} /\ q \in {"0", "1"} THEN (IF p = q THEN "0" ELSE "1") ELSE "x")
  BY <1>1, <1>2 DEF XorBit, Known
<1> DEFINE o == XorBit(p, q)
<1> HIDE DEF o
<1>4. o = (IF p \in {"0", "1"} /\ q \in {"0", "1"} THEN (IF p = q THEN "0" ELSE "1") ELSE "x")
  BY <1>3 DEF o
<1>5. o \in LogicBit
  BY <1>4 DEF LogicBit
<1>6. (o \in {"1", "z"} <=> o = "1") /\ (o \in {"x", "z"} <=> o = "x")
  BY <1>4
<1>7. o = "1" <=> i \notin ax /\ i \notin bx /\ ~(i \in av <=> i \in bv)
  BY <1>1, <1>2, <1>4
<1>8. o = "x" <=> i \in ax \/ i \in bx
  BY <1>1, <1>2, <1>4
<1> QED
  BY <1>5, <1>6, <1>7, <1>8 DEF o, p, q

\* The arms of bitwise_xor agree bit by bit.
LEMMA BitwiseXorFacts ==
  ASSUME NEW a, Ready(a), NEW b, Ready(b)
  PROVE  LET w == Larger(a.width, b.width)
         IN Shows(Bitwise(XorInline, XorLanes, XorBit, a, b), w, FALSE,
                  [i \in Mask(w) |-> XorBit(PlaneBit(a.val, a.xz, i), PlaneBit(b.val, b.xz, i))])
<1> DEFINE w == Larger(a.width, b.width)
           f == [i \in Mask(w) |-> XorBit(PlaneBit(a.val, a.xz, i), PlaneBit(b.val, b.xz, i))]
           v == Bitwise(XorInline, XorLanes, XorBit, a, b)
<1>1. /\ a.width \in Nat /\ a.val \in SUBSET Nat /\ a.xz \in SUBSET Nat
      /\ b.width \in Nat /\ b.val \in SUBSET Nat /\ b.xz \in SUBSET Nat
  BY ReadyFacts
<1>2. w \in Nat /\ W \in Nat /\ Mask(a.width) \subseteq Mask(w) /\ Mask(b.width) \subseteq Mask(w)
        /\ Mask(w) \subseteq Nat
  BY <1>1, ValueAssumption DEF Larger, Mask
<1>3. a.val \subseteq Mask(w) /\ a.xz \subseteq Mask(w) /\ b.val \subseteq Mask(w) /\ b.xz \subseteq Mask(w)
  BY <1>2, ReadyFacts
<1>4. \A i \in Mask(w) :
        /\ f[i] \in LogicBit
        /\ f[i] \in {"1", "z"} <=> i \notin a.xz /\ i \notin b.xz /\ ~(i \in a.val <=> i \in b.val)
        /\ f[i] \in {"x", "z"} <=> i \in a.xz \/ i \in b.xz
  BY XorBits
<1> HIDE DEF v
<1>5. ASSUME IsInline(a) /\ IsInline(b) PROVE Shows(v, w, FALSE, f)
  <2> DEFINE r == XorInline(a.val, a.xz, b.val, b.xz, w)
  <2>1. v = Plain(r[1], r[2], w, FALSE)
    BY <1>5 DEF Bitwise, v
  <2>2. Mask(w) \subseteq 0 .. W-1
    BY <1>1, <1>2, <1>5 DEF IsInline, Larger, Mask
  <2>3. r[1] \subseteq Mask(w) /\ r[2] \subseteq Mask(w)
    BY <1>3 DEF XorInline
  <2>4. \A i \in Mask(w) : (i \in r[1] <=> f[i] \in {"1", "z"}) /\ (i \in r[2] <=> f[i] \in {"x", "z"})
    <3> HIDE DEF f, w
    <3> QED
      BY <1>4, <2>2 DEF XorInline
  <2> HIDE DEF r, f, w
  <2> QED
    BY <1>2, <1>4, <2>1, <2>3, <2>4, PlainShows
<1>6. ASSUME ~(IsInline(a) /\ IsInline(b)), a.width = b.width PROVE Shows(v, w, FALSE, f)
  <2> DEFINE r == XorLanes(a.val, a.xz, b.val, b.xz, WordBits(a.width))
  <2>1. v = Plain(MaskTop(r[1], a.width), MaskTop(r[2], a.width), a.width, FALSE)
    BY <1>6 DEF Bitwise, WideLanes, v
  <2>2. w = a.width /\ a.width \in Nat \ {0}
    BY <1>1, <1>2, <1>6 DEF Larger, IsInline
  <2>3. Mask(w) \subseteq WordBits(a.width)
    BY <2>2, WordBitsFacts
  <2>4. r[1] \in SUBSET WordBits(a.width) /\ r[2] \in SUBSET WordBits(a.width)
    BY <1>3, <2>3 DEF XorLanes
  <2>5. MaskTop(r[1], a.width) = r[1] \cap Mask(w) /\ MaskTop(r[2], a.width) = r[2] \cap Mask(w)
    <3> HIDE DEF r, w
    <3> QED
      BY <2>2, <2>4, MaskTopFacts
  <2>6. \A i \in Mask(w) : (i \in r[1] <=> f[i] \in {"1", "z"}) /\ (i \in r[2] <=> f[i] \in {"x", "z"})
    <3> HIDE DEF f, w
    <3> QED
      BY <1>4, <2>3 DEF XorLanes
  <2> HIDE DEF r, f, w
  <2>7. v = Plain(r[1] \cap Mask(w), r[2] \cap Mask(w), w, FALSE)
    BY <2>1, <2>2, <2>5
  <2> QED
    BY <1>2, <1>4, <2>6, <2>7, PlainShows
<1>7. ASSUME ~(IsInline(a) /\ IsInline(b)), a.width # b.width PROVE Shows(v, w, FALSE, f)
  <2>1. v = FromBits(w, FALSE, LAMBDA i : XorBit(GetBit(a, i), GetBit(b, i)))
    BY <1>7 DEF Bitwise, v
  <2>2. \A i \in Mask(w) : XorBit(GetBit(a, i), GetBit(b, i)) = f[i]
    BY <1>2, ExtBitFacts
  <2> HIDE DEF f, w
  <2>3. v = Plain({i \in Mask(w) : f[i] \in {"1", "z"}}, {i \in Mask(w) : f[i] \in {"x", "z"}}, w, FALSE)
    BY <2>1, <2>2 DEF FromBits
  <2> QED
    BY <1>2, <1>4, <2>3, PlainShows
<1>8. Shows(v, w, FALSE, f)
  BY <1>5, <1>6, <1>7, Zenon
<1> QED
  BY <1>8 DEF v

\* bitwise_xor is the operator of the language.
LEMMA XorFacts ==
  ASSUME NEW a, Operand(a), NEW b, Operand(b)
  PROVE  Agrees(BitwiseXor(a, b), R!Xor(Abstract(a), Abstract(b)))
<1> DEFINE l == FillPair(a, b)[1]
           r == FillPair(a, b)[2]
           w == Larger(l.width, r.width)
           f == [i \in Mask(w) |-> XorBit(PlaneBit(l.val, l.xz, i), PlaneBit(r.val, r.xz, i))]
           x == R!AtWidth(Abstract(a), b.width)
           y == R!AtWidth(Abstract(b), a.width)
<1>1. Ready(l) /\ Abstract(l) = x /\ Ready(r) /\ Abstract(r) = y
  BY FillPairFacts DEF Agrees
<1>2. Abstract(a).width = a.width /\ Abstract(b).width = b.width
  BY OperandFacts, AbstractFacts
<1>3. BitwiseXor(a, b) = Bitwise(XorInline, XorLanes, XorBit, l, r)
  BY DEF BitwiseXor, OnFilled
<1>4. R!Xor(Abstract(a), Abstract(b)) =
        [width |-> R!MaxOf(x.width, y.width), is_signed |-> FALSE, is_fill |-> FALSE,
         bit |-> [i \in R!Positions(R!MaxOf(x.width, y.width)) |-> R!XorB(R!ExtBit(x, FALSE, i),
           R!ExtBit(y, FALSE, i))]]
  BY <1>2 DEF R!Xor, R!Bitwise, R!Vector
<1> HIDE DEF l, r, x, y
<1>5. x.width = l.width /\ y.width = r.width /\ l.width \in Nat /\ r.width \in Nat
  BY <1>1, ReadyFacts, AbstractFacts
<1>6. R!MaxOf(x.width, y.width) = w /\ R!Positions(w) = Mask(w) /\ Mask(w) \subseteq Nat
  BY <1>5 DEF R!MaxOf, R!Positions, Mask, Larger
<1> HIDE DEF w
<1>7. \A i \in Mask(w) : R!XorB(R!ExtBit(x, FALSE, i), R!ExtBit(y, FALSE, i)) = f[i]
  BY <1>1, <1>6, ExtBitFacts, XorTable
<1>8. R!Xor(Abstract(a), Abstract(b)) = Bits(w, FALSE, f)
  <2> HIDE DEF f
  <2>1. [i \in Mask(w) |-> R!XorB(R!ExtBit(x, FALSE, i), R!ExtBit(y, FALSE, i))] = [i \in Mask(w) |-> f[i]]
    BY <1>7, Zenon
  <2>2. f = [i \in Mask(w) |-> f[i]]
    BY DEF f
  <2> QED
    BY <1>4, <1>6, <2>1, <2>2 DEF Bits
<1>9. Shows(BitwiseXor(a, b), w, FALSE, f)
  BY <1>1, <1>3, BitwiseXorFacts DEF w
<1> QED
  <2> DEFINE v == BitwiseXor(a, b)
  <2>1. f = [i \in Mask(w) |-> f[i]]
    OBVIOUS
  <2> HIDE DEF f, v
  <2>2. Shows(v, w, FALSE, f)
    BY <1>9 DEF v
  <2> QED
    BY <1>8, <2>1, <2>2, ShowsFacts DEF v

\* The positions and bits of the value that planes stand for.
LEMMA VectorFacts ==
  ASSUME NEW v, Ready(v)
  PROVE  /\ Abstract(v).width = v.width /\ Abstract(v).is_signed = v.is_signed /\ Abstract(v).is_fill = FALSE
         /\ R!Positions(v.width) = Mask(v.width) /\ Mask(v.width) \subseteq Nat
         /\ \A i \in Mask(v.width) : Abstract(v).bit[i] = PlaneBit(v.val, v.xz, i)
         /\ \A i : PlaneBit(v.val, v.xz, i) \in LogicBit
<1>1. Canon(v) /\ v.width \in Nat /\ v.is_fill = FALSE
  BY ReadyFacts
<1>2. Abstract(v).width = v.width /\ Abstract(v).is_signed = v.is_signed /\ Abstract(v).is_fill = FALSE
      /\ \A i \in Mask(v.width) : Abstract(v).bit[i] = PlaneBit(v.val, v.xz, i)
  BY <1>1, AbstractFacts
<1>3. R!Positions(v.width) = Mask(v.width) /\ Mask(v.width) \subseteq Nat
  BY <1>1 DEF R!Positions, Mask
<1>4. \A i : PlaneBit(v.val, v.xz, i) \in LogicBit
  BY BitFacts
<1> QED
  BY <1>2, <1>3, <1>4

\* bitwise_not is the operator of the language.
LEMMA NotFacts ==
  ASSUME NEW a, Ready(a)
  PROVE  Agrees(BitwiseNot(a), R!Not(Abstract(a)))
<1> DEFINE w == a.width
           f == [i \in Mask(w) |-> NotBit(PlaneBit(a.val, a.xz, i))]
           v == BitwiseNot(a)
<1>1. /\ w \in Nat /\ a.is_signed \in BOOLEAN /\ a.val \subseteq Mask(w) /\ a.xz \subseteq Mask(w)
      /\ (IsInline(a) => w <= W) /\ W \in Nat
  BY ReadyFacts, ValueAssumption
<1>2. \A i \in Mask(w) : f[i] \in LogicBit
  BY VectorFacts, NotTable
<1>3. \A i \in Mask(w) : (f[i] \in {"1", "z"} <=> i \notin a.val /\ i \notin a.xz)
                         /\ (f[i] \in {"x", "z"} <=> i \in a.xz)
  <2> SUFFICES ASSUME NEW i \in Mask(w)
               PROVE  (f[i] \in {"1", "z"} <=> i \notin a.val /\ i \notin a.xz)
                        /\ (f[i] \in {"x", "z"} <=> i \in a.xz)
    OBVIOUS
  <2> DEFINE p == PlaneBit(a.val, a.xz, i)
  <2>1. p = IF i \in a.xz THEN (IF i \in a.val THEN "z" ELSE "x") ELSE (IF i \in a.val THEN "1" ELSE "0")
    BY BitFacts
  <2>2. f[i] = NotBit(p)
    OBVIOUS
  <2> HIDE DEF p, f
  <2>3. NotBit(p) = IF p = "0" THEN "1" ELSE IF p = "1" THEN "0" ELSE "x"
    BY <2>1 DEF NotBit
  <2> QED
    BY <2>1, <2>2, <2>3
<1>4. Shows(v, w, a.is_signed, f)
  <2>1. CASE IsInline(a)
    <3> DEFINE val == (((0 .. W-1) \ a.val) \ a.xz) \cap Mask(w)
    <3>1. v = Plain(val, a.xz, w, a.is_signed)
      BY <2>1 DEF BitwiseNot
    <3>2. Mask(w) \subseteq 0 .. W-1
      BY <1>1, <2>1 DEF Mask
    <3>3. val \subseteq Mask(w) /\ \A i \in Mask(w) : i \in val <=> i \notin a.val /\ i \notin a.xz
      BY <3>2
    <3> HIDE DEF val, f, v, w
    <3> QED
      BY <1>1, <1>2, <1>3, <3>1, <3>3, PlainShows
  <2>2. CASE ~IsInline(a)
    <3>1. v = FromBits(w, a.is_signed, LAMBDA i : NotBit(GetBit(a, i)))
      BY <2>2 DEF BitwiseNot
    <3>2. \A i \in Mask(w) : NotBit(GetBit(a, i)) = f[i]
      BY VectorFacts, ExtBitFacts
    <3> HIDE DEF f, w, v
    <3>3. v = Plain({i \in Mask(w) : f[i] \in {"1", "z"}}, {i \in Mask(w) : f[i] \in {"x", "z"}}, w, a.is_signed)
      BY <3>1, <3>2 DEF FromBits
    <3> QED
      BY <1>1, <1>2, <3>3, PlainShows
  <2> QED
    BY <2>1, <2>2
<1>5. R!Not(Abstract(a)) = Bits(w, a.is_signed, f)
  <2>1. \A i \in Mask(w) : R!NotB(Abstract(a).bit[i]) = f[i]
    BY VectorFacts, NotTable
  <2>2. [i \in Mask(w) |-> R!NotB(Abstract(a).bit[i])] = f
    BY <2>1
  <2>3. Abstract(a).width = w /\ Abstract(a).is_signed = a.is_signed /\ R!Positions(w) = Mask(w)
    BY VectorFacts
  <2> HIDE DEF f, w
  <2> QED
    BY <2>2, <2>3 DEF R!Not, R!Vector, Bits
<1>6. f = [i \in Mask(w) |-> f[i]]
  OBVIOUS
<1> HIDE DEF f, v, w
<1> QED
  BY <1>4, <1>5, <1>6, ShowsFacts DEF v

\* bitwise_xnor is the operator of the language.
LEMMA XnorFacts ==
  ASSUME NEW a, Operand(a), NEW b, Operand(b)
  PROVE  Agrees(BitwiseXnor(a, b), R!Xnor(Abstract(a), Abstract(b)))
<1> DEFINE v == BitwiseXor(a, b)
<1>1. Agrees(v, R!Xor(Abstract(a), Abstract(b)))
  BY XorFacts
<1> HIDE DEF v
<1>2. Ready(v) /\ Abstract(v) = R!Xor(Abstract(a), Abstract(b))
  BY <1>1 DEF Agrees
<1>3. Agrees(BitwiseNot(v), R!Not(R!Xor(Abstract(a), Abstract(b))))
  BY <1>2, NotFacts
<1> QED
  BY <1>3 DEF BitwiseXnor, R!Xnor, v

\* One bit of merge_unknown.
LEMMA MergeBits ==
  ASSUME NEW av, NEW ax, NEW bv, NEW bx, NEW i
  PROVE  LET o == MergeBit(PlaneBit(av, ax, i), PlaneBit(bv, bx, i))
             agree == i \notin ax /\ i \notin bx /\ (i \in av <=> i \in bv)
         IN /\ o \in LogicBit
            /\ o \in {"1", "z"} <=> agree /\ i \in av
            /\ o \in {"x", "z"} <=> ~agree
<1> DEFINE p == PlaneBit(av, ax, i)
           q == PlaneBit(bv, bx, i)
           o == MergeBit(p, q)
           agree == i \notin ax /\ i \notin bx /\ (i \in av <=> i \in bv)
<1>1. p = (IF i \in ax THEN (IF i \in av THEN "z" ELSE "x") ELSE (IF i \in av THEN "1" ELSE "0"))
  BY BitFacts
<1>2. q = (IF i \in bx THEN (IF i \in bv THEN "z" ELSE "x") ELSE (IF i \in bv THEN "1" ELSE "0"))
  BY BitFacts
<1> HIDE DEF p, q
<1>3. o = IF p = q /\ p \in {"0", "1"} THEN p ELSE "x"
  BY DEF MergeBit, Known
<1>4. p = q /\ p \in {"0", "1"} <=> agree
  BY <1>1, <1>2
<1> HIDE DEF o
<1>5. CASE agree
  <2>1. o = p /\ p = IF i \in av THEN "1" ELSE "0"
    BY <1>1, <1>3, <1>4, <1>5
  <2>2. o \in LogicBit /\ (o \in {"1", "z"} <=> i \in av) /\ o \notin {"x", "z"}
    BY <2>1 DEF LogicBit
  <2> QED
    BY <1>5, <2>2 DEF o, p, q
<1>6. CASE ~agree
  <2>1. o = "x"
    BY <1>3, <1>4, <1>6
  <2>2. o \in LogicBit /\ o \notin {"1", "z"} /\ o \in {"x", "z"}
    BY <2>1 DEF LogicBit
  <2> QED
    BY <1>6, <2>2 DEF o, p, q
<1> QED
  BY <1>5, <1>6

\* merge_unknown, but for the type of its result, is the operator of the language.
LEMMA MergeFacts ==
  ASSUME NEW a, Ready(a), NEW b, Ready(b)
  PROVE  LET v == MergeUnknown(a, b)
         IN Agrees(v, [R!Merge(Abstract(a), Abstract(b)) EXCEPT !.is_signed = v.is_signed])
<1> DEFINE w == Larger(a.width, b.width)
           f == [i \in Mask(w) |-> MergeBit(PlaneBit(a.val, a.xz, i), PlaneBit(b.val, b.xz, i))]
           v == MergeUnknown(a, b)
           s == v.is_signed
<1>1. /\ a.width \in Nat /\ a.val \in SUBSET Nat /\ a.xz \in SUBSET Nat /\ a.is_signed \in BOOLEAN
      /\ b.width \in Nat /\ b.val \in SUBSET Nat /\ b.xz \in SUBSET Nat /\ b.is_signed \in BOOLEAN
  BY ReadyFacts
<1>2. w \in Nat /\ W \in Nat /\ Mask(a.width) \subseteq Mask(w) /\ Mask(b.width) \subseteq Mask(w)
        /\ Mask(w) \subseteq Nat
  BY <1>1, ValueAssumption DEF Larger, Mask
<1>3. a.val \subseteq Mask(w) /\ a.xz \subseteq Mask(w) /\ b.val \subseteq Mask(w) /\ b.xz \subseteq Mask(w)
  BY <1>2, ReadyFacts
<1>4. \A i \in Mask(w) :
        /\ f[i] \in LogicBit
        /\ f[i] \in {"1", "z"} <=> i \notin a.xz /\ i \notin b.xz /\ (i \in a.val <=> i \in b.val) /\ i \in a.val
        /\ f[i] \in {"x", "z"} <=> ~(i \notin a.xz /\ i \notin b.xz /\ (i \in a.val <=> i \in b.val))
  BY MergeBits
<1> HIDE DEF v
<1>5. ASSUME ~IsInline(a), a.width = b.width PROVE s \in BOOLEAN /\ Shows(v, w, s, f)
  <2> DEFINE r == MergeLanes(a.val, a.xz, b.val, b.xz, WordBits(a.width))
  <2>1. v = Plain(MaskTop(r[1], a.width), MaskTop(r[2], a.width), a.width, FALSE)
    BY <1>5 DEF MergeUnknown, WideLanes, v
  <2>2. w = a.width /\ a.width \in Nat \ {0}
    BY <1>1, <1>2, <1>5 DEF Larger, IsInline
  <2>3. Mask(w) \subseteq WordBits(a.width)
    BY <2>2, WordBitsFacts
  <2>4. r[1] \in SUBSET WordBits(a.width) /\ r[2] \in SUBSET WordBits(a.width)
    BY <1>3, <2>3 DEF MergeLanes
  <2>5. MaskTop(r[1], a.width) = r[1] \cap Mask(w) /\ MaskTop(r[2], a.width) = r[2] \cap Mask(w)
    <3> HIDE DEF r, w
    <3> QED
      BY <2>2, <2>4, MaskTopFacts
  <2>6. \A i \in Mask(w) : (i \in r[1] <=> f[i] \in {"1", "z"}) /\ (i \in r[2] <=> f[i] \in {"x", "z"})
    <3> HIDE DEF f, w
    <3> QED
      BY <1>4, <2>3 DEF MergeLanes
  <2> HIDE DEF r, f, w
  <2>7. v = Plain(r[1] \cap Mask(w), r[2] \cap Mask(w), w, FALSE)
    BY <2>1, <2>2, <2>5
  <2>8. Shows(v, w, FALSE, f)
    BY <1>2, <1>4, <2>6, <2>7, PlainShows
  <2> QED
    BY <2>8 DEF Shows
<1>6. ASSUME IsInline(a), IsInline(b) PROVE s \in BOOLEAN /\ Shows(v, w, s, f)
  <2> DEFINE r == MergeLanes(a.val \cap Mask(w), a.xz \cap Mask(w), b.val \cap Mask(w), b.xz \cap Mask(w), Mask(w))
             t == a.is_signed /\ b.is_signed
  <2>1. v = Plain(r[1], r[2], w, t)
    BY <1>6 DEF MergeUnknown, v
  <2>2. r[1] \subseteq Mask(w) /\ r[2] \subseteq Mask(w)
    BY <1>3 DEF MergeLanes
  <2>3. \A i \in Mask(w) : (i \in r[1] <=> f[i] \in {"1", "z"}) /\ (i \in r[2] <=> f[i] \in {"x", "z"})
    <3> HIDE DEF f, w
    <3> QED
      BY <1>4 DEF MergeLanes
  <2>4. t \in BOOLEAN
    OBVIOUS
  <2> HIDE DEF r, f, w, t
  <2>5. Shows(v, w, t, f)
    BY <1>2, <1>4, <2>1, <2>2, <2>3, <2>4, PlainShows
  <2> QED
    BY <2>4, <2>5 DEF Shows
<1>7. ASSUME ~(IsInline(a) /\ IsInline(b)), a.width # b.width PROVE s \in BOOLEAN /\ Shows(v, w, s, f)
  <2> DEFINE BitOf(u, i) == IF i < u.width THEN GetBit(u, i) ELSE "0"
  <2>1. v = FromBits(w, FALSE, LAMBDA i : MergeBit(BitOf(a, i), BitOf(b, i)))
    BY <1>7 DEF MergeUnknown, v
  <2>2. \A i \in Nat : BitOf(a, i) = PlaneBit(a.val, a.xz, i) /\ BitOf(b, i) = PlaneBit(b.val, b.xz, i)
    <3> SUFFICES ASSUME NEW u, Ready(u), NEW i \in Nat PROVE BitOf(u, i) = PlaneBit(u.val, u.xz, i)
      OBVIOUS
    <3>1. GetBit(u, i) = PlaneBit(u.val, u.xz, i)
      BY ExtBitFacts
    <3>2. i >= u.width => PlaneBit(u.val, u.xz, i) = "0"
      BY ReadyFacts, GetBitFacts
    <3>3. i < u.width \/ i >= u.width
      <4>1. u.width \in Nat
        BY ReadyFacts
      <4> QED
        BY <4>1
    <3> QED
      BY <3>1, <3>2, <3>3
  <2>3. \A i \in Mask(w) : MergeBit(BitOf(a, i), BitOf(b, i)) = f[i]
    BY <1>2, <2>2
  <2> HIDE DEF f, w, BitOf
  <2>4. v = Plain({i \in Mask(w) : f[i] \in {"1", "z"}}, {i \in Mask(w) : f[i] \in {"x", "z"}}, w, FALSE)
    BY <2>1, <2>3 DEF FromBits
  <2>5. Shows(v, w, FALSE, f)
    BY <1>2, <1>4, <2>4, PlainShows
  <2> QED
    BY <2>5 DEF Shows
<1>8. s \in BOOLEAN /\ Shows(v, w, s, f)
  <2>1. (IsInline(a) => a.width <= W) /\ (IsInline(b) <=> b.width <= W)
    BY ReadyFacts
  <2> HIDE DEF s, f, w
  <2> QED
    BY <1>5, <1>6, <1>7, ReadyFacts DEF IsInline
<1>9. R!Merge(Abstract(a), Abstract(b)) = Bits(w, FALSE, f)
  <2> DEFINE x == Abstract(a)
             y == Abstract(b)
  <2>1. x.width = a.width /\ y.width = b.width /\ x.is_fill = FALSE /\ y.is_fill = FALSE
    BY VectorFacts
  <2>2. \A n : R!AtWidth(x, n) = x /\ R!AtWidth(y, n) = y
    BY <2>1 DEF R!AtWidth
  <2>3. \A i \in Nat : R!ExtBit(x, FALSE, i) = PlaneBit(a.val, a.xz, i)
          /\ R!ExtBit(y, FALSE, i) = PlaneBit(b.val, b.xz, i)
    BY ExtBitFacts
  <2> HIDE DEF x, y
  <2>4. R!MaxOf(x.width, y.width) = w /\ R!Positions(w) = Mask(w)
    BY <2>1 DEF R!MaxOf, R!Positions, Mask, Larger
  <2> DEFINE g == [i \in Mask(w) |-> LET p == R!ExtBit(x, FALSE, i) q == R!ExtBit(y, FALSE, i)
                                     IN IF p = q /\ p \in R!Known THEN p ELSE "x"]
  <2>5. R!Merge(x, y) = [width |-> w, is_signed |-> FALSE, is_fill |-> FALSE, bit |-> g]
    <3> HIDE DEF w
    <3> QED
      BY <2>2, <2>4 DEF R!Merge, R!Bitwise, R!Vector
  <2>6. \A i \in Mask(w) : g[i] = f[i]
    BY <1>2, <2>3 DEF MergeBit, Known, R!Known
  <2>7. g = f
    BY <2>6
  <2> HIDE DEF g, f, w
  <2> QED
    BY <2>5, <2>7 DEF Bits, x, y
<1>10. Agrees(v, Bits(w, s, f))
  <2>1. f = [i \in Mask(w) |-> f[i]]
    OBVIOUS
  <2> HIDE DEF f, w, s
  <2> QED
    BY <1>8, <2>1, ShowsFacts
<1>11. [R!Merge(Abstract(a), Abstract(b)) EXCEPT !.is_signed = s] = Bits(w, s, f)
  <2> DEFINE m == R!Merge(Abstract(a), Abstract(b))
  <2>1. m = Bits(w, FALSE, f)
    BY <1>9
  <2> HIDE DEF f, w, s, m
  <2>2. [Bits(w, FALSE, f) EXCEPT !.is_signed = s] = Bits(w, s, f)
    BY Retyped, Zenon
  <2>3. [m EXCEPT !.is_signed = s] = Bits(w, s, f)
    BY <2>1, <2>2, Zenon
  <2> QED
    BY <2>3 DEF m
<1> QED
  BY <1>10, <1>11 DEF v

-----------------------------------------------------------------------------
(* Comparisons by bits *)

(* Comparisons by bits *)

\* The bit of an operand at the common width is its extension in the language.
LEMMA OperandBitFacts ==
  ASSUME NEW a, Ready(a), NEW b, Ready(b), NEW w, w = Larger(a.width, b.width), NEW i \in Mask(w)
  PROVE  /\ OperandBit(a, b, w, i) = R!ExtBit(Abstract(a), a.is_signed /\ b.is_signed, i)
         /\ OperandBit(a, b, w, i) \in LogicBit
<1>0. a.width \in Nat /\ b.width \in Nat
  BY ReadyFacts
<1>1. a.width \in Nat /\ b.width \in Nat /\ i \in Nat /\ i < w /\ w \in Nat
  BY <1>0 DEF Larger, Mask
<1>2. Abstract(a).width = a.width
  BY VectorFacts
<1>3. CASE i < a.width
  <2>1. i \in Mask(a.width) /\ ~(i >= a.width)
    BY <1>1, <1>3 DEF Mask
  <2>2. Abstract(a).bit[i] = GetBit(a, i) /\ GetBit(a, i) \in LogicBit
    BY <1>1, <2>1, VectorFacts, ExtBitFacts
  <2>3. OperandBit(a, b, w, i) = GetBit(a, i)
    BY <1>3, <2>1 DEF OperandBit
  <2> QED
    BY <1>2, <1>3, <2>2, <2>3 DEF R!ExtBit
<1>4. CASE i >= a.width
  <2>1. ~(i < a.width) /\ a.width < w
    BY <1>1, <1>4
  <2>2. OperandBit(a, b, w, i) = IF a.is_signed /\ b.is_signed THEN TopBit(a) ELSE "0"
    BY <1>4, <2>1 DEF OperandBit, Extends
  <2>3. R!ExtBit(Abstract(a), a.is_signed /\ b.is_signed, i) = IF a.is_signed
          /\ b.is_signed THEN R!Top(Abstract(a)) ELSE "0"
    BY <1>2, <2>1 DEF R!ExtBit
  <2>4. R!Top(Abstract(a)) = TopBit(a) /\ TopBit(a) \in LogicBit
    BY TopFacts
  <2> QED
    BY <2>2, <2>3, <2>4 DEF LogicBit
<1> QED
  BY <1>1, <1>3, <1>4

\* The planes that the inline arms extend hold the same bits.
LEMMA OperandPlaneFacts ==
  ASSUME NEW a, Ready(a), NEW b, Ready(b), NEW w, w = Larger(a.width, b.width), NEW i \in Mask(w)
  PROVE  PlaneBit(OperandPlane(a.val \cap Mask(a.width), a, b, w), OperandPlane(a.xz \cap Mask(a.width), a, b, w), i)
         = OperandBit(a, b, w, i)
<1> DEFINE val == OperandPlane(a.val \cap Mask(a.width), a, b, w)
           xz == OperandPlane(a.xz \cap Mask(a.width), a, b, w)
           t == a.width - 1
           grown == a.width > 0 /\ Extends(a, b, w)
<1>0. a.width \in Nat /\ b.width \in Nat /\ a.val \subseteq Mask(a.width) /\ a.xz \subseteq Mask(a.width)
  BY ReadyFacts
<1>1. /\ a.width \in Nat /\ b.width \in Nat /\ i \in Nat /\ i < w /\ w \in Nat
      /\ a.val \subseteq Mask(a.width) /\ a.xz \subseteq Mask(a.width)
  BY <1>0 DEF Larger, Mask
<1>2. /\ val = (IF grown /\ t \in a.val THEN a.val \cup (Mask(w) \ Mask(a.width)) ELSE a.val)
      /\ xz = (IF grown /\ t \in a.xz THEN a.xz \cup (Mask(w) \ Mask(a.width)) ELSE a.xz)
  <2>1. a.val \cap Mask(a.width) = a.val /\ a.xz \cap Mask(a.width) = a.xz
    BY <1>1
  <2> QED
    BY <2>1 DEF OperandPlane
<1> HIDE DEF val, xz, grown
<1>3. CASE i < a.width
  <2>1. i \in Mask(a.width) /\ ~(i >= a.width)
    BY <1>1, <1>3 DEF Mask
  <2>2. (i \in val <=> i \in a.val) /\ (i \in xz <=> i \in a.xz)
    BY <1>2, <2>1
  <2>3. PlaneBit(val, xz, i) = PlaneBit(a.val, a.xz, i)
    BY <2>2, BitFacts
  <2>4. OperandBit(a, b, w, i) = GetBit(a, i)
    BY <1>3, <2>1 DEF OperandBit
  <2> QED
    BY <1>1, <2>3, <2>4, ExtBitFacts DEF val, xz
<1>4. CASE i >= a.width
  <2>1. ~(i < a.width) /\ a.width < w /\ i \notin a.val /\ i \notin a.xz /\ i \in Mask(w) \ Mask(a.width)
    BY <1>1, <1>4 DEF Mask
  <2>2. OperandBit(a, b, w, i) = IF Extends(a, b, w) THEN TopBit(a) ELSE "0"
    BY <1>4, <2>1 DEF OperandBit
  <2>3. (i \in val <=> grown /\ t \in a.val) /\ (i \in xz <=> grown /\ t \in a.xz)
    BY <1>2, <2>1
  <2>4. CASE grown
    <3>1. PlaneBit(val, xz, i) = PlaneBit(a.val, a.xz, t)
      BY <2>3, <2>4, BitFacts
    <3>2. TopBit(a) = PlaneBit(a.val, a.xz, t) /\ Extends(a, b, w)
      BY <1>1, <2>4, TopFacts DEF grown
    <3> QED
      BY <2>2, <3>1, <3>2 DEF val, xz
  <2>5. CASE ~grown
    <3>1. PlaneBit(val, xz, i) = "0"
      BY <2>3, <2>5, BitFacts
    <3>2. ~Extends(a, b, w) \/ TopBit(a) = "0"
      BY <1>1, <2>5, TopFacts DEF grown
    <3> QED
      BY <2>2, <3>1, <3>2 DEF val, xz
  <2> QED
    BY <2>4, <2>5
<1> QED
  BY <1>1, <1>3, <1>4

\* The bits that an operator by bits compares.
LEMMA PairsFacts ==
  ASSUME NEW a, Operand(a), NEW b, Operand(b), NEW l, NEW r, l = FillPair(a, b)[1], r = FillPair(a, b)[2],
         NEW w, w = Larger(l.width, r.width)
  PROVE  /\ Ready(l) /\ Ready(r)
         /\ R!Pairs(Abstract(a), Abstract(b)) = {<<OperandBit(l, r, w, i), OperandBit(r, l, w, i)>> : i \in Mask(w)}
<1> DEFINE x == R!AtWidth(Abstract(a), b.width)
           y == R!AtWidth(Abstract(b), a.width)
           s == x.is_signed /\ y.is_signed
<1>1. Ready(l) /\ Abstract(l) = x /\ Ready(r) /\ Abstract(r) = y
  BY FillPairFacts DEF Agrees
<1>2. Abstract(a).width = a.width /\ Abstract(b).width = b.width
  BY OperandFacts, AbstractFacts
<1>3. R!Pairs(Abstract(a), Abstract(b)) =
        {<<R!ExtBit(x, s, i), R!ExtBit(y, s, i)>> : i \in R!Positions(R!MaxOf(x.width, y.width))}
  BY <1>2 DEF R!Pairs
<1> HIDE DEF x, y
<1>4. x.width = l.width /\ y.width = r.width /\ l.width \in Nat /\ r.width \in Nat
      /\ x.is_signed = l.is_signed /\ y.is_signed = r.is_signed
  BY <1>1, ReadyFacts, VectorFacts
<1>5. R!Positions(R!MaxOf(x.width, y.width)) = Mask(w)
  BY <1>4 DEF R!MaxOf, R!Positions, Mask, Larger
<1>6. \A i \in Mask(w) : R!ExtBit(x, s, i) = OperandBit(l, r, w, i) /\ R!ExtBit(y, s, i) = OperandBit(r, l, w, i)
  <2> SUFFICES ASSUME NEW i \in Mask(w)
               PROVE  R!ExtBit(x, s, i) = OperandBit(l, r, w, i) /\ R!ExtBit(y, s, i) = OperandBit(r, l, w, i)
    OBVIOUS
  <2>1. OperandBit(l, r, w, i) = R!ExtBit(x, l.is_signed /\ r.is_signed, i)
    BY <1>1, OperandBitFacts
  <2>2. w = Larger(r.width, l.width)
    BY <1>4 DEF Larger
  <2>3. OperandBit(r, l, w, i) = R!ExtBit(y, r.is_signed /\ l.is_signed, i)
    BY <1>1, <2>2, OperandBitFacts
  <2>4. s <=> (l.is_signed /\ r.is_signed)
    BY <1>4
  <2> HIDE DEF s
  <2>5. R!ExtBit(x, s, i) = R!ExtBit(x, l.is_signed /\ r.is_signed, i)
          /\ R!ExtBit(y, s, i) = R!ExtBit(y, r.is_signed /\ l.is_signed, i)
    BY <2>4 DEF R!ExtBit
  <2> QED
    BY <2>1, <2>3, <2>5
<1> HIDE DEF s
<1> QED
  BY <1>1, <1>3, <1>5, <1>6

\* A plane of an operand at the common width.
Grown(plane, a, b) == OperandPlane(plane \cap Mask(a.width), a, b, Larger(a.width, b.width))

\* A match in words is a match by bits, with the bits of `wild` left out.
LEMMA WordMatch ==
  ASSUME NEW a, Ready(a), NEW b, Ready(b), NEW Free, NEW wild,
         \A i \in Mask(Larger(a.width, b.width)) :
            i \in wild <=> PlaneBit(Grown(a.val, a, b), Grown(a.xz, a, b), i) \in Free
                           \/ PlaneBit(Grown(b.val, b, a), Grown(b.xz, b, a), i) \in Free
  PROVE  ((Differ(Grown(a.val, a, b), Grown(b.val, b, a)) \cup Differ(Grown(a.xz, a, b), Grown(b.xz, b, a))) \ wild)
            \cap Mask(Larger(a.width, b.width)) = {}
         <=> BitsMatch(a, b, Free)
<1> DEFINE w == Larger(a.width, b.width)
           av == Grown(a.val, a, b)
           ax == Grown(a.xz, a, b)
           bv == Grown(b.val, b, a)
           bx == Grown(b.xz, b, a)
<1>1. \A i \in Mask(w) : OperandBit(a, b, w, i) = PlaneBit(av, ax, i)
  BY OperandPlaneFacts DEF Grown
<1>2. w = Larger(b.width, a.width)
  <2>1. a.width \in Nat /\ b.width \in Nat
    BY ReadyFacts
  <2> QED
    BY <2>1 DEF Larger
<1>3. \A i \in Mask(w) : OperandBit(b, a, w, i) = PlaneBit(bv, bx, i)
  BY <1>2, OperandPlaneFacts DEF Grown
<1>0. \A i \in Mask(w) : i \in wild <=> PlaneBit(av, ax, i) \in Free \/ PlaneBit(bv, bx, i) \in Free
  OBVIOUS
<1> HIDE DEF av, ax, bv, bx
<1>4. \A i \in Mask(w) : i \in Differ(av, bv) \cup Differ(ax, bx) <=> PlaneBit(av, ax, i) # PlaneBit(bv, bx, i)
  <2> SUFFICES ASSUME NEW i \in Mask(w)
               PROVE  i \in Differ(av, bv) \cup Differ(ax, bx) <=> PlaneBit(av, ax, i) # PlaneBit(bv, bx, i)
    OBVIOUS
  <2> DEFINE p == PlaneBit(av, ax, i)
             q == PlaneBit(bv, bx, i)
  <2>1. p = IF i \in ax THEN (IF i \in av THEN "z" ELSE "x") ELSE (IF i \in av THEN "1" ELSE "0")
    BY BitFacts
  <2>2. q = IF i \in bx THEN (IF i \in bv THEN "z" ELSE "x") ELSE (IF i \in bv THEN "1" ELSE "0")
    BY BitFacts
  <2> HIDE DEF p, q
  <2>3. p # q <=> ~((i \in av <=> i \in bv) /\ (i \in ax <=> i \in bx))
    BY <2>1, <2>2
  <2>4. i \in Differ(av, bv) \cup Differ(ax, bx) <=> ~((i \in av <=> i \in bv) /\ (i \in ax <=> i \in bx))
    BY DEF Differ
  <2> QED
    BY <2>3, <2>4 DEF p, q
<1>5. BitsMatch(a, b, Free) <=> \A i \in Mask(w) : OperandBit(a, b, w, i) \in Free \/ OperandBit(b, a, w, i) \in Free
                                                   \/ OperandBit(a, b, w, i) = OperandBit(b, a, w, i)
  BY DEF BitsMatch
<1> HIDE DEF w
<1> DEFINE D == Differ(av, bv) \cup Differ(ax, bx)
<1> HIDE DEF D
<1>6. \A i \in Mask(w) : i \in D <=> PlaneBit(av, ax, i) # PlaneBit(bv, bx, i)
  BY <1>4 DEF D
<1>7. (D \ wild) \cap Mask(w) = {} <=> \A i \in Mask(w) : i \in D => i \in wild
  OBVIOUS
<1> DEFINE p(i) == PlaneBit(av, ax, i)
           q(i) == PlaneBit(bv, bx, i)
<1>8. BitsMatch(a, b, Free) <=> \A i \in Mask(w) : p(i) \in Free \/ q(i) \in Free \/ p(i) = q(i)
  BY <1>1, <1>3, <1>5
<1>9. \A i \in Mask(w) : (i \in D => i \in wild) <=> (p(i) \in Free \/ q(i) \in Free \/ p(i) = q(i))
  BY <1>0, <1>6
<1> HIDE DEF p, q
<1>10. (D \ wild) \cap Mask(w) = {} <=> BitsMatch(a, b, Free)
  BY <1>7, <1>8, <1>9
<1> QED
  BY <1>10 DEF D, w, av, ax, bv, bx

\* What a match by bits says.
LEMMA MatchFacts ==
  ASSUME NEW a, Operand(a), NEW b, Operand(b), NEW Free
  PROVE  R!Match(Abstract(a), Abstract(b), Free) =
           R!One(IF BitsMatch(FillPair(a, b)[1], FillPair(a, b)[2], Free) THEN "1" ELSE "0")
<1> DEFINE l == FillPair(a, b)[1]
           r == FillPair(a, b)[2]
           w == Larger(l.width, r.width)
           P == R!Pairs(Abstract(a), Abstract(b))
           match == \A p \in P : p[1] = p[2] \/ p[1] \in Free \/ p[2] \in Free
<1>1. P = {<<OperandBit(l, r, w, i), OperandBit(r, l, w, i)>> : i \in Mask(w)}
  BY PairsFacts
<1> HIDE DEF P, l, r
<1> DEFINE p(i) == OperandBit(l, r, w, i)
           q(i) == OperandBit(r, l, w, i)
<1>4. BitsMatch(l, r, Free) <=> \A i \in Mask(w) : p(i) \in Free \/ q(i) \in Free \/ p(i) = q(i)
  BY DEF BitsMatch
<1>5. P = {<<p(i), q(i)>> : i \in Mask(w)}
  BY <1>1
<1> HIDE DEF p, q, w
<1>6. ASSUME match, NEW i \in Mask(w) PROVE p(i) \in Free \/ q(i) \in Free \/ p(i) = q(i)
  <2>1. <<p(i), q(i)>> \in P
    BY <1>5
  <2> QED
    BY <1>6, <2>1
<1>7. ASSUME \A i \in Mask(w) : p(i) \in Free \/ q(i) \in Free \/ p(i) = q(i), NEW t \in P
      PROVE  t[1] = t[2] \/ t[1] \in Free \/ t[2] \in Free
  <2>1. PICK i \in Mask(w) : t = <<p(i), q(i)>>
    BY <1>5
  <2> QED
    BY <1>7, <2>1
<1>2. match <=> BitsMatch(l, r, Free)
  BY <1>4, <1>6, <1>7
<1>3. R!Match(Abstract(a), Abstract(b), Free) = R!One(IF match THEN "1" ELSE "0")
  BY DEF R!Match, R!Boolean, P
<1> HIDE DEF match
<1> QED
  BY <1>2, <1>3 DEF l, r

\* A truth value of one bit.
LEMMA TruthFacts ==
  ASSUME NEW p \in BOOLEAN
  PROVE  Agrees(Truth(p), R!One(IF p THEN "1" ELSE "0"))
<1>1. (IF p THEN "1" ELSE "0") \in LogicBit
  BY DEF LogicBit
<1> QED
  BY <1>1, ScalarFacts DEF Truth, Agrees, Ready

\* case_eq is the match of the language in which no bit is free.
LEMMA CaseEqFacts ==
  ASSUME NEW a, Operand(a), NEW b, Operand(b)
  PROVE  Agrees(CaseEq(a, b), R!Match(Abstract(a), Abstract(b), {}))
<1> DEFINE l == FillPair(a, b)[1]
           r == FillPair(a, b)[2]
           w == Larger(l.width, r.width)
           av == Grown(l.val, l, r)
           ax == Grown(l.xz, l, r)
           bv == Grown(r.val, r, l)
           bx == Grown(r.xz, r, l)
           Free == {}
           wild == {}
           inline == IsInline(l) /\ IsInline(r)
           words == ((Differ(av, bv) \cup Differ(ax, bx)) \ wild) \cap Mask(w) = {}
           bits == BitsMatch(l, r, Free)
<1>1. Ready(l) /\ Ready(r)
  BY PairsFacts
<1>7. Larger(r.width, l.width) = w
  <2>1. l.width \in Nat /\ r.width \in Nat
    BY <1>1, ReadyFacts
  <2> HIDE DEF l, r
  <2> QED
    BY <2>1 DEF Larger
<1>2. CaseEq(a, b) = Truth(IF inline THEN words ELSE bits)
  BY <1>7 DEF CaseEq, CaseMatch, OnFilled, InlineMatch, Grown
<1>3. words <=> bits
  <2> HIDE DEF l, r, w, av, ax, bv, bx
  <2>1. \A i \in Mask(w) : i \in wild <=> PlaneBit(av, ax, i) \in Free \/ PlaneBit(bv, bx, i) \in Free
    <3> SUFFICES ASSUME NEW i \in Mask(w)
                 PROVE  i \in wild <=> PlaneBit(av, ax, i) \in Free \/ PlaneBit(bv, bx, i) \in Free
      OBVIOUS
    <3> DEFINE p == PlaneBit(av, ax, i)
               q == PlaneBit(bv, bx, i)
    <3>1. p = IF i \in ax THEN (IF i \in av THEN "z" ELSE "x") ELSE (IF i \in av THEN "1" ELSE "0")
      BY BitFacts
    <3>2. q = IF i \in bx THEN (IF i \in bv THEN "z" ELSE "x") ELSE (IF i \in bv THEN "1" ELSE "0")
      BY BitFacts
    <3> HIDE DEF p, q
    <3>3. i \in wild <=> p \in Free \/ q \in Free
      BY <3>1, <3>2
    <3> QED
      BY <3>3 DEF p, q
  <2> HIDE DEF wild, Free
  <2> QED
    BY <1>1, <2>1, WordMatch DEF w, av, ax, bv, bx
<1>4. R!Match(Abstract(a), Abstract(b), Free) = R!One(IF bits THEN "1" ELSE "0")
  BY MatchFacts
<1>5. bits \in BOOLEAN
  BY DEF BitsMatch
<1> HIDE DEF words, bits, inline
<1>6. CaseEq(a, b) = Truth(bits)
  BY <1>2, <1>3, <1>5 DEF Truth
<1> QED
  BY <1>4, <1>5, <1>6, TruthFacts

\* casez_eq: z matches anything.
LEMMA CasezEqFacts ==
  ASSUME NEW a, Operand(a), NEW b, Operand(b)
  PROVE  Agrees(CasezEq(a, b), R!Match(Abstract(a), Abstract(b), {"z"}))
<1> DEFINE l == FillPair(a, b)[1]
           r == FillPair(a, b)[2]
           w == Larger(l.width, r.width)
           av == Grown(l.val, l, r)
           ax == Grown(l.xz, l, r)
           bv == Grown(r.val, r, l)
           bx == Grown(r.xz, r, l)
           Free == {"z"}
           wild == (av \cap ax) \cup (bv \cap bx)
           inline == IsInline(l) /\ IsInline(r)
           words == ((Differ(av, bv) \cup Differ(ax, bx)) \ wild) \cap Mask(w) = {}
           bits == BitsMatch(l, r, Free)
<1>1. Ready(l) /\ Ready(r)
  BY PairsFacts
<1>7. Larger(r.width, l.width) = w
  <2>1. l.width \in Nat /\ r.width \in Nat
    BY <1>1, ReadyFacts
  <2> HIDE DEF l, r
  <2> QED
    BY <2>1 DEF Larger
<1>2. CasezEq(a, b) = Truth(IF inline THEN words ELSE bits)
  BY <1>7 DEF CasezEq, CaseMatch, OnFilled, InlineMatch, Grown
<1>3. words <=> bits
  <2> HIDE DEF l, r, w, av, ax, bv, bx
  <2>1. \A i \in Mask(w) : i \in wild <=> PlaneBit(av, ax, i) \in Free \/ PlaneBit(bv, bx, i) \in Free
    <3> SUFFICES ASSUME NEW i \in Mask(w)
                 PROVE  i \in wild <=> PlaneBit(av, ax, i) \in Free \/ PlaneBit(bv, bx, i) \in Free
      OBVIOUS
    <3> DEFINE p == PlaneBit(av, ax, i)
               q == PlaneBit(bv, bx, i)
    <3>1. p = IF i \in ax THEN (IF i \in av THEN "z" ELSE "x") ELSE (IF i \in av THEN "1" ELSE "0")
      BY BitFacts
    <3>2. q = IF i \in bx THEN (IF i \in bv THEN "z" ELSE "x") ELSE (IF i \in bv THEN "1" ELSE "0")
      BY BitFacts
    <3> HIDE DEF p, q
    <3>3. i \in wild <=> p \in Free \/ q \in Free
      BY <3>1, <3>2
    <3> QED
      BY <3>3 DEF p, q
  <2> HIDE DEF wild, Free
  <2> QED
    BY <1>1, <2>1, WordMatch DEF w, av, ax, bv, bx
<1>4. R!Match(Abstract(a), Abstract(b), Free) = R!One(IF bits THEN "1" ELSE "0")
  BY MatchFacts
<1>5. bits \in BOOLEAN
  BY DEF BitsMatch
<1> HIDE DEF words, bits, inline
<1>6. CasezEq(a, b) = Truth(bits)
  BY <1>2, <1>3, <1>5 DEF Truth
<1> QED
  BY <1>4, <1>5, <1>6, TruthFacts

\* casex_eq: x and z match anything.
LEMMA CasexEqFacts ==
  ASSUME NEW a, Operand(a), NEW b, Operand(b)
  PROVE  Agrees(CasexEq(a, b), R!Match(Abstract(a), Abstract(b), {"x", "z"}))
<1> DEFINE l == FillPair(a, b)[1]
           r == FillPair(a, b)[2]
           w == Larger(l.width, r.width)
           av == Grown(l.val, l, r)
           ax == Grown(l.xz, l, r)
           bv == Grown(r.val, r, l)
           bx == Grown(r.xz, r, l)
           Free == {"x", "z"}
           wild == ax \cup bx
           inline == IsInline(l) /\ IsInline(r)
           words == ((Differ(av, bv) \cup Differ(ax, bx)) \ wild) \cap Mask(w) = {}
           bits == BitsMatch(l, r, Free)
<1>1. Ready(l) /\ Ready(r)
  BY PairsFacts
<1>7. Larger(r.width, l.width) = w
  <2>1. l.width \in Nat /\ r.width \in Nat
    BY <1>1, ReadyFacts
  <2> HIDE DEF l, r
  <2> QED
    BY <2>1 DEF Larger
<1>2. CasexEq(a, b) = Truth(IF inline THEN words ELSE bits)
  BY <1>7 DEF CasexEq, CaseMatch, OnFilled, InlineMatch, Grown
<1>3. words <=> bits
  <2> HIDE DEF l, r, w, av, ax, bv, bx
  <2>1. \A i \in Mask(w) : i \in wild <=> PlaneBit(av, ax, i) \in Free \/ PlaneBit(bv, bx, i) \in Free
    <3> SUFFICES ASSUME NEW i \in Mask(w)
                 PROVE  i \in wild <=> PlaneBit(av, ax, i) \in Free \/ PlaneBit(bv, bx, i) \in Free
      OBVIOUS
    <3> DEFINE p == PlaneBit(av, ax, i)
               q == PlaneBit(bv, bx, i)
    <3>1. p = IF i \in ax THEN (IF i \in av THEN "z" ELSE "x") ELSE (IF i \in av THEN "1" ELSE "0")
      BY BitFacts
    <3>2. q = IF i \in bx THEN (IF i \in bv THEN "z" ELSE "x") ELSE (IF i \in bv THEN "1" ELSE "0")
      BY BitFacts
    <3> HIDE DEF p, q
    <3>3. i \in wild <=> p \in Free \/ q \in Free
      BY <3>1, <3>2
    <3> QED
      BY <3>3 DEF p, q
  <2> HIDE DEF wild, Free
  <2> QED
    BY <1>1, <2>1, WordMatch DEF w, av, ax, bv, bx
<1>4. R!Match(Abstract(a), Abstract(b), Free) = R!One(IF bits THEN "1" ELSE "0")
  BY MatchFacts
<1>5. bits \in BOOLEAN
  BY DEF BitsMatch
<1> HIDE DEF words, bits, inline
<1>6. CasexEq(a, b) = Truth(bits)
  BY <1>2, <1>3, <1>5 DEF Truth
<1> QED
  BY <1>4, <1>5, <1>6, TruthFacts

-----------------------------------------------------------------------------
(* Wildcard comparisons, truth and reductions *)

\* Operands that are no literals stay as they are.
LEMMA PlainPair ==
  ASSUME NEW a, Ready(a), NEW b, Ready(b)
  PROVE  FillPair(a, b)[1] = a /\ FillPair(a, b)[2] = b
BY DEF FillPair, Ready

\* wildcard_eq, as a bit.
WildcardBit(a, b) ==
  LET w == Larger(a.width, b.width)
      p(i) == OperandBit(a, b, w, i)
      q(i) == OperandBit(b, a, w, i)
  IN IF \E i \in Mask(w) : q(i) \in Known /\ p(i) \in Known /\ p(i) # q(i) THEN "0"
     ELSE IF \E i \in Mask(w) : q(i) \in Known /\ p(i) \notin Known THEN "x" ELSE "1"

\* wildcard_eq yields the bit below, and so does the language.
LEMMA WildcardEqFacts ==
  ASSUME NEW a, Operand(a), ~a.is_fill, NEW b, Operand(b), ~b.is_fill
  PROVE  /\ WildcardEq(a, b) = Scalar(WildcardBit(a, b)) /\ WildcardBit(a, b) \in LogicBit
         /\ R!Wildcard(Abstract(a), Abstract(b)) = R!One(WildcardBit(a, b))
<1> DEFINE w == Larger(a.width, b.width)
           p(i) == OperandBit(a, b, w, i)
           q(i) == OperandBit(b, a, w, i)
           decided == \E i \in Mask(w) : q(i) \in Known /\ p(i) \in Known /\ p(i) # q(i)
           open == \E i \in Mask(w) : q(i) \in Known /\ p(i) \notin Known
           P == R!Pairs(Abstract(a), Abstract(b))
           P2 == {t \in P : t[2] \in R!Known}
<1>1. a.is_fill = FALSE /\ b.is_fill = FALSE /\ Canon(a) /\ Canon(b)
  BY OperandFacts
<1>2. Ready(a) /\ Ready(b)
  BY <1>1 DEF Ready
<1>3. WildcardBit(a, b) = IF decided THEN "0" ELSE IF open THEN "x" ELSE "1"
  BY DEF WildcardBit
<1>4. WildcardEq(a, b) = Scalar(WildcardBit(a, b))
  <2> DEFINE f == [i \in Mask(w) |-> p(i)]
             g == [i \in Mask(w) |-> q(i)]
             compared == {i \in Mask(w) : g[i] \in Known}
             one == \E i \in compared : f[i] \in Known /\ f[i] # g[i]
             other == \E i \in compared : f[i] \notin Known
  <2>1. WildcardEq(a, b) = CASE one -> Scalar("0") [] ~one -> IF other THEN Scalar("x") ELSE Scalar("1")
    BY DEF WildcardEq
  <2>2. one <=> decided
    OBVIOUS
  <2>3. other <=> open
    OBVIOUS
  <2> HIDE DEF one, other, decided, open
  <2>4. CASE decided
    BY <1>3, <2>1, <2>2, <2>4
  <2>5. CASE ~decided
    BY <1>3, <2>1, <2>2, <2>3, <2>5
  <2> QED
    BY <2>4, <2>5
<1>5. P = {<<p(i), q(i)>> : i \in Mask(w)}
  BY <1>2, PlainPair, PairsFacts
<1>6. R!Wildcard(Abstract(a), Abstract(b)) =
        IF \E t \in P2 : t[1] \in R!Known /\ t[1] # t[2] THEN R!One("0")
        ELSE IF \E t \in P2 : t[1] \notin R!Known THEN R!One("x") ELSE R!One("1")
  BY DEF R!Wildcard
<1>7. R!Known = Known
  BY DEF Known, R!Known
<1> HIDE DEF p, q, w, P
<1>8. (\E t \in P2 : t[1] \in R!Known /\ t[1] # t[2]) <=> decided
  <2>1. ASSUME NEW t \in P, t[2] \in Known, t[1] \in Known, t[1] # t[2] PROVE decided
    <3>1. PICK i \in Mask(w) : t = <<p(i), q(i)>>
      BY <1>5
    <3> QED
      BY <2>1, <3>1
  <2>2. ASSUME NEW i \in Mask(w), q(i) \in Known, p(i) \in Known, p(i) # q(i)
        PROVE  \E t \in P2 : t[1] \in R!Known /\ t[1] # t[2]
    <3>1. <<p(i), q(i)>> \in P
      BY <1>5
    <3> QED
      BY <1>7, <2>2, <3>1
  <2> QED
    BY <1>7, <2>1, <2>2
<1>9. (\E t \in P2 : t[1] \notin R!Known) <=> open
  <2>1. ASSUME NEW t \in P, t[2] \in Known, t[1] \notin Known PROVE open
    <3>1. PICK i \in Mask(w) : t = <<p(i), q(i)>>
      BY <1>5
    <3> QED
      BY <2>1, <3>1
  <2>2. ASSUME NEW i \in Mask(w), q(i) \in Known, p(i) \notin Known
        PROVE  \E t \in P2 : t[1] \notin R!Known
    <3>1. <<p(i), q(i)>> \in P
      BY <1>5
    <3> QED
      BY <1>7, <2>2, <3>1
  <2> QED
    BY <1>7, <2>1, <2>2
<1> HIDE DEF decided, open, P2
<1>10. WildcardBit(a, b) \in LogicBit
  BY <1>3 DEF LogicBit
<1> QED
  BY <1>3, <1>4, <1>6, <1>8, <1>9, <1>10

\* A negated bit, as a value of one bit.
LEMMA OneNot ==
  ASSUME NEW bit \in LogicBit
  PROVE  R!Not(R!One(bit)) = R!One(NotBit(bit)) /\ NotBit(bit) \in LogicBit
<1>1. R!NotB(bit) = NotBit(bit) /\ NotBit(bit) \in LogicBit
  BY NotTable
<1> DEFINE f == [i \in R!Positions(1) |-> bit]
<1>2. R!One(bit) = Bits(1, FALSE, f)
  BY DEF R!One, R!All, R!Vector, Bits
<1>3. R!Not(R!One(bit)) = Bits(1, FALSE, [i \in R!Positions(1) |-> R!NotB(f[i])])
  BY <1>2 DEF R!Not, R!Vector, Bits
<1>4. [i \in R!Positions(1) |-> R!NotB(f[i])] = [i \in R!Positions(1) |-> NotBit(bit)]
  BY <1>1
<1>5. R!One(NotBit(bit)) = Bits(1, FALSE, [i \in R!Positions(1) |-> NotBit(bit)])
  BY DEF R!One, R!All, R!Vector, Bits
<1> QED
  BY <1>1, <1>3, <1>4, <1>5

\* A result of one bit agrees with that bit.
LEMMA ScalarAgrees ==
  ASSUME NEW bit \in LogicBit
  PROVE  Agrees(Scalar(bit), R!One(bit)) /\ GetBit(Scalar(bit), 0) = bit
BY ScalarFacts DEF Agrees, Ready

\* wildcard_eq and wildcard_ne are the operators of the language.
LEMMA WildcardFacts ==
  ASSUME NEW a, Operand(a), ~a.is_fill, NEW b, Operand(b), ~b.is_fill
  PROVE  /\ Agrees(WildcardEq(a, b), R!Wildcard(Abstract(a), Abstract(b)))
         /\ Agrees(WildcardNe(a, b), R!Not(R!Wildcard(Abstract(a), Abstract(b))))
<1> DEFINE bit == WildcardBit(a, b)
<1>1. bit \in LogicBit /\ WildcardEq(a, b) = Scalar(bit) /\ R!Wildcard(Abstract(a), Abstract(b)) = R!One(bit)
  BY WildcardEqFacts
<1> HIDE DEF bit
<1>2. GetBit(WildcardEq(a, b), 0) = bit
  BY <1>1, ScalarAgrees
<1>3. WildcardNe(a, b) = Scalar(NotBit(bit))
  BY <1>2 DEF WildcardNe
<1> QED
  BY <1>1, <1>3, OneNot, ScalarAgrees

(* Truth *)

\* is_nonzero, as a choice.
LEMMA NonzeroBit ==
  ASSUME NEW a
  PROVE  IsNonzero(a) = IF a.val \ a.xz # {} THEN "1" ELSE IF a.xz # {} THEN "x" ELSE "0"
<1>1. CASE a.val \ a.xz # {}
  <2>1. a.val # {}
    BY <1>1
  <2> QED
    BY <1>1, <2>1 DEF IsNonzero
<1>2. CASE a.val \ a.xz = {} /\ a.xz # {}
  BY <1>2 DEF IsNonzero
<1>3. CASE a.val \ a.xz = {} /\ a.xz = {}
  <2>1. a.val = {}
    BY <1>3
  <2> QED
    BY <1>3, <2>1 DEF IsNonzero
<1> QED
  BY <1>1, <1>2, <1>3

\* is_nonzero is what the unknown bits leave open.
LEMMA NonzeroFacts ==
  ASSUME NEW a, Canon(a)
  PROVE  R!Nonzero(Abstract(a)) = IsNonzero(a) /\ IsNonzero(a) \in LogicBit
<1> DEFINE A == Abstract(a)
           M == Mask(a.width)
<1>1. a.width \in Nat /\ a.val \subseteq M /\ a.xz \subseteq M
  BY CanonFacts
<1>2. A.width = a.width /\ \A i \in M : A.bit[i] = PlaneBit(a.val, a.xz, i)
  BY AbstractFacts
<1>3. R!Positions(A.width) = M
  BY <1>1, <1>2 DEF R!Positions, Mask
<1> HIDE DEF A, M
<1>4. \A i \in M : (A.bit[i] = "1" <=> i \in a.val \ a.xz) /\ (A.bit[i] \notin R!Known <=> i \in a.xz)
  <2> SUFFICES ASSUME NEW i \in M
               PROVE  (A.bit[i] = "1" <=> i \in a.val \ a.xz) /\ (A.bit[i] \notin R!Known <=> i \in a.xz)
    OBVIOUS
  <2> DEFINE p == PlaneBit(a.val, a.xz, i)
  <2>1. p = IF i \in a.xz THEN (IF i \in a.val THEN "z" ELSE "x") ELSE (IF i \in a.val THEN "1" ELSE "0")
    BY BitFacts
  <2>2. A.bit[i] = p
    BY <1>2
  <2> HIDE DEF p
  <2> QED
    BY <2>1, <2>2 DEF R!Known
<1>5. (\E i \in M : A.bit[i] = "1") <=> a.val \ a.xz # {}
  BY <1>1, <1>4
<1>6. R!Unknown(A) <=> a.xz # {}
  BY <1>1, <1>3, <1>4 DEF R!Unknown
<1>7. R!Nonzero(A) = IF a.val \ a.xz # {} THEN "1" ELSE IF a.xz # {} THEN "x" ELSE "0"
  BY <1>3, <1>5, <1>6 DEF R!Nonzero
<1>8. IsNonzero(a) = IF a.val \ a.xz # {} THEN "1" ELSE IF a.xz # {} THEN "x" ELSE "0"
  BY NonzeroBit
<1>9. IsNonzero(a) \in LogicBit
  BY <1>8 DEF LogicBit
<1> QED
  BY <1>7, <1>8, <1>9 DEF A

\* The logical operators are those of the language, on the truth of their
\* operands.
LEMMA LogicFacts ==
  ASSUME NEW a, Canon(a), NEW b, Canon(b), NEW p, p = R!Nonzero(Abstract(a)), NEW q, q = R!Nonzero(Abstract(b))
  PROVE  /\ Agrees(LogicAnd(a, b), R!One(R!AndB(p, q)))
         /\ Agrees(LogicOr(a, b), R!One(R!OrB(p, q)))
         /\ Agrees(LogicImpl(a, b), R!One(R!OrB(R!NotB(p), q)))
         /\ Agrees(LogicEquiv(a, b), R!One(R!NotB(R!XorB(p, q))))
         /\ Agrees(LogicNot(a), R!One(R!NotB(p)))
<1>1. p = IsNonzero(a) /\ q = IsNonzero(b) /\ p \in LogicBit /\ q \in LogicBit
  BY NonzeroFacts
<1>2. Agrees(LogicAnd(a, b), R!One(R!AndB(p, q)))
  BY <1>1, AndTable, ScalarAgrees DEF LogicAnd
<1>3. Agrees(LogicOr(a, b), R!One(R!OrB(p, q)))
  BY <1>1, OrTable, ScalarAgrees DEF LogicOr
<1>4. Agrees(LogicImpl(a, b), R!One(R!OrB(R!NotB(p), q)))
  BY <1>1, NotTable, OrTable, ScalarAgrees DEF LogicImpl
<1>5. Agrees(LogicEquiv(a, b), R!One(R!NotB(R!XorB(p, q))))
  BY <1>1, NotTable, XorTable, ScalarAgrees DEF LogicEquiv
<1>6. Agrees(LogicNot(a), R!One(R!NotB(p)))
  BY <1>1, NotTable, ScalarAgrees DEF LogicNot
<1> QED
  BY <1>2, <1>3, <1>4, <1>5, <1>6

\* The live bits of a value are those of its width.
Live(a) == IF IsInline(a) THEN Mask(a.width) ELSE MaskTop(WordBits(a.width), a.width)

\* The bits that the reductions look at are those of the width.
LEMMA LiveFacts ==
  ASSUME NEW a, Ready(a)
  PROVE  Live(a) = Mask(a.width) /\ Mask(a.width) \subseteq WordBits(a.width)
<1>1. a.width \in Nat /\ (IsInline(a) <=> a.width <= W) /\ W \in Nat
  BY ReadyFacts, ValueAssumption
<1>2. ~IsInline(a) => a.width \in Nat \ {0}
  BY <1>1
<1> QED
  BY <1>1, <1>2, MaskTopFacts, WordBitsFacts DEF Live

\* reduce_and and reduce_or are the operators of the language.
LEMMA ReduceFacts ==
  ASSUME NEW a, Ready(a)
  PROVE  /\ Agrees(ReduceAnd(a), R!ReduceAnd(Abstract(a)))
         /\ Agrees(ReduceOr(a), R!One(R!Nonzero(Abstract(a))))
<1> DEFINE A == Abstract(a)
           M == Mask(a.width)
           zeros == ((WordBits(a.width) \ a.val) \ a.xz) \cap M
<1>1. Canon(a) /\ a.val \subseteq M /\ a.xz \subseteq M /\ M \subseteq WordBits(a.width) /\ Live(a) = M
  BY ReadyFacts, LiveFacts
<1>2. A.width = a.width /\ R!Positions(a.width) = M /\ \A i \in M : A.bit[i] = PlaneBit(a.val, a.xz, i)
  BY VectorFacts
<1>3. R!Nonzero(A) = IsNonzero(a) /\ IsNonzero(a) \in LogicBit
  BY <1>1, NonzeroFacts
<1>4. ReduceAnd(a) = Scalar(IF zeros # {} THEN "0" ELSE IF a.xz \cap M # {} THEN "x" ELSE "1")
  BY <1>1 DEF ReduceAnd, Live
<1>5. ReduceOr(a) = Scalar(IF (a.val \ a.xz) \cap M # {} THEN "1" ELSE IF a.xz \cap M # {} THEN "x" ELSE "0")
  BY <1>1 DEF ReduceOr, Live
<1> HIDE DEF A, M
<1>6. \A i \in M : (A.bit[i] = "0" <=> i \in zeros) /\ (A.bit[i] \notin R!Known <=> i \in a.xz)
  <2> SUFFICES ASSUME NEW i \in M
               PROVE  (A.bit[i] = "0" <=> i \in zeros) /\ (A.bit[i] \notin R!Known <=> i \in a.xz)
    OBVIOUS
  <2> DEFINE p == PlaneBit(a.val, a.xz, i)
  <2>1. p = IF i \in a.xz THEN (IF i \in a.val THEN "z" ELSE "x") ELSE (IF i \in a.val THEN "1" ELSE "0")
    BY BitFacts
  <2>2. A.bit[i] = p
    BY <1>2
  <2>3. i \in zeros <=> i \notin a.val /\ i \notin a.xz
    BY <1>1
  <2> HIDE DEF p, zeros
  <2> QED
    BY <2>1, <2>2, <2>3 DEF R!Known
<1>7. (\E i \in M : A.bit[i] = "0") <=> zeros # {}
  <2>1. zeros \subseteq M
    OBVIOUS
  <2> HIDE DEF zeros
  <2> QED
    BY <1>6, <2>1
<1>8. (R!Unknown(A) <=> a.xz # {}) /\ a.xz \cap M = a.xz /\ (a.val \ a.xz) \cap M = a.val \ a.xz
  <2>1. R!Unknown(A) <=> \E i \in M : A.bit[i] \notin R!Known
    BY <1>2 DEF R!Unknown
  <2> QED
    BY <1>1, <1>6, <2>1
<1> HIDE DEF zeros
<1>9. Agrees(ReduceAnd(a), R!ReduceAnd(A))
  <2> DEFINE bit == IF zeros # {} THEN "0" ELSE IF a.xz # {} THEN "x" ELSE "1"
  <2>1. R!ReduceAnd(A) = R!One(bit)
    BY <1>2, <1>7, <1>8 DEF R!ReduceAnd
  <2>2. ReduceAnd(a) = Scalar(bit)
    BY <1>4, <1>8
  <2>3. bit \in LogicBit
    BY DEF LogicBit
  <2> HIDE DEF bit
  <2> QED
    BY <2>1, <2>2, <2>3, ScalarAgrees
<1>10. Agrees(ReduceOr(a), R!One(R!Nonzero(A)))
  <2>1. IsNonzero(a) = IF a.val \ a.xz # {} THEN "1" ELSE IF a.xz # {} THEN "x" ELSE "0"
    BY <1>1, <1>3, NonzeroBit
  <2>2. ReduceOr(a) = Scalar(IsNonzero(a))
    BY <1>5, <1>8, <2>1
  <2> QED
    BY <1>3, <2>2, ScalarAgrees
<1> QED
  BY <1>9, <1>10 DEF A

\* The fold by parity counts a set modulo 2.
LEMMA ParityFacts ==
  ASSUME NEW S, IsFiniteSet(S)
  PROVE  MapThenFoldSet(LAMBDA m, n : (m + n) % 2, 0, LAMBDA i : 1, LAMBDA T : CHOOSE i \in T : TRUE, S) =
           Cardinality(S) % 2
<1> DEFINE Go(g, T) == IF T = {} THEN 0 ELSE (1 + g[T \ {CHOOSE i \in T : TRUE}]) % 2
           Eq(g) == g = [T \in SUBSET S |-> Go(g, T)]
           iter == CHOOSE g : Eq(g)
           F == [T \in SUBSET S |-> Cardinality(T) % 2]
<1>1. MapThenFoldSet(LAMBDA m, n : (m + n) % 2, 0, LAMBDA i : 1, LAMBDA T : CHOOSE i \in T : TRUE, S) = iter[S]
  BY Zenon DEF MapThenFoldSet
<1>2. ASSUME NEW T \in SUBSET S, T # {}
      PROVE  LET x == CHOOSE i \in T : TRUE
             IN x \in T /\ T \ {x} \in SUBSET S /\ Cardinality(T) \in Nat /\ Cardinality(T \ {x}) \in Nat
                /\ Cardinality(T \ {x}) = Cardinality(T) - 1
  <2> DEFINE x == CHOOSE i \in T : TRUE
  <2>1. x \in T
    BY <1>2
  <2>2. IsFiniteSet(T)
    BY FS_Subset
  <2> HIDE DEF x
  <2>3. Cardinality(T \ {x}) = Cardinality(T) - 1 /\ IsFiniteSet(T \ {x})
    BY <2>1, <2>2, FS_RemoveElement
  <2>4. Cardinality(T) \in Nat /\ Cardinality(T \ {x}) \in Nat
    BY <2>2, <2>3, FS_CardinalityType
  <2> QED
    BY <2>1, <2>3, <2>4 DEF x
<1>3. \A T \in SUBSET S : F[T] = Go(F, T)
  <2> SUFFICES ASSUME NEW T \in SUBSET S PROVE F[T] = Go(F, T)
    OBVIOUS
  <2>1. CASE T = {}
    <3>1. Cardinality(T) = 0
      BY <2>1, FS_EmptySet
    <3> QED
      BY <2>1, <3>1
  <2>2. CASE T # {}
    <3> DEFINE x == CHOOSE i \in T : TRUE
               n == Cardinality(T)
               m == Cardinality(T \ {x})
    <3>1. T \ {x} \in SUBSET S /\ n \in Nat /\ m \in Nat /\ m = n - 1
      BY <1>2, <2>2
    <3>2. F[T] = n % 2 /\ F[T \ {x}] = m % 2
      BY <3>1
    <3>3. Go(F, T) = (1 + F[T \ {x}]) % 2
      BY <2>2
    <3> HIDE DEF n, m, x, F, Go
    <3> QED
      BY <3>1, <3>2, <3>3
  <2> QED
    BY <2>1, <2>2
<1>4. Eq(F)
  <2>1. F = [T \in SUBSET S |-> F[T]]
    OBVIOUS
  <2> HIDE DEF F, Go
  <2> QED
    BY <1>3, <2>1
<1>5. Eq(iter)
  <2> HIDE DEF Eq
  <2> QED
    BY <1>4
<1> HIDE DEF iter
<1>6. \A T \in SUBSET S : iter[T] = Go(iter, T)
  BY <1>5, Zenon
<1> DEFINE N == {n \in Nat : \A T \in SUBSET S : Cardinality(T) = n => iter[T] = F[T]}
<1> HIDE DEF F
<1>7. 0 \in N
  <2> SUFFICES ASSUME NEW T \in SUBSET S, Cardinality(T) = 0 PROVE iter[T] = F[T]
    OBVIOUS
  <2>1. T = {}
    BY FS_Subset, FS_EmptySet
  <2> QED
    BY <1>3, <1>6, <2>1
<1>8. ASSUME NEW n \in Nat, n \in N PROVE n + 1 \in N
  <2> SUFFICES ASSUME NEW T \in SUBSET S, Cardinality(T) = n + 1 PROVE iter[T] = F[T]
    OBVIOUS
  <2> DEFINE x == CHOOSE i \in T : TRUE
  <2>1. T # {}
    BY FS_EmptySet
  <2>2. T \ {x} \in SUBSET S /\ Cardinality(T \ {x}) = n
    BY <1>2, <2>1
  <2>3. iter[T \ {x}] = F[T \ {x}]
    BY <1>8, <2>2
  <2>4. iter[T] = (1 + iter[T \ {x}]) % 2 /\ F[T] = (1 + F[T \ {x}]) % 2
    BY <1>3, <1>6, <2>1
  <2> QED
    BY <2>3, <2>4
<1>9. Nat \subseteq N
  <2> HIDE DEF N
  <2> QED
    BY <1>7, <1>8, SetInduction
<1>10. iter[S] = F[S]
  <2>1. Cardinality(S) \in N
    BY <1>9, FS_CardinalityType
  <2> QED
    BY <2>1
<1> QED
  BY <1>1, <1>10 DEF F

\* reduce_xor is the parity of the language.
LEMMA ReduceXorFacts ==
  ASSUME NEW a, Ready(a)
  PROVE  Agrees(ReduceXor(a), R!ReduceXor(Abstract(a)))
<1> DEFINE A == Abstract(a)
           M == Mask(a.width)
           ones == {i \in M : A.bit[i] = "1"}
           odd == MapThenFoldSet(LAMBDA m, n : (m + n) % 2, 0, LAMBDA i : 1, LAMBDA T : CHOOSE i \in T : TRUE,
                    a.val \cap M) = 1
<1>1. Canon(a) /\ a.width \in Nat /\ a.val \subseteq M /\ a.xz \subseteq M /\ Live(a) = M
  BY ReadyFacts, LiveFacts
<1>2. A.width = a.width /\ R!Positions(a.width) = M /\ \A i \in M : A.bit[i] = PlaneBit(a.val, a.xz, i)
  BY VectorFacts
<1>3. ReduceXor(a) = Scalar(IF a.xz \cap M # {} THEN "x" ELSE IF odd THEN "1" ELSE "0")
  BY <1>1 DEF ReduceXor, Live
<1>4. R!ReduceXor(A) = R!One(IF R!Unknown(A) THEN "x" ELSE IF R!Cardinality(ones) % 2 = 1 THEN "1" ELSE "0")
  BY <1>2 DEF R!ReduceXor, R!Quantify
<1>5. R!Cardinality(ones) = Cardinality(ones)
  BY DEF R!Cardinality, Cardinality
<1>6. IsFiniteSet(a.val \cap M)
  <2>1. IsFiniteSet(M)
    BY <1>1, FS_Interval DEF Mask
  <2> QED
    BY <2>1, FS_Subset
<1>7. odd <=> Cardinality(a.val \cap M) % 2 = 1
  BY <1>6, ParityFacts
<1> HIDE DEF A, M, odd
<1>8. \A i \in M : (A.bit[i] = "1" <=> i \in a.val /\ i \notin a.xz) /\ (A.bit[i] \notin R!Known <=> i \in a.xz)
  <2> SUFFICES ASSUME NEW i \in M
               PROVE  (A.bit[i] = "1" <=> i \in a.val /\ i \notin a.xz) /\ (A.bit[i] \notin R!Known <=> i \in a.xz)
    OBVIOUS
  <2> DEFINE p == PlaneBit(a.val, a.xz, i)
  <2>1. p = IF i \in a.xz THEN (IF i \in a.val THEN "z" ELSE "x") ELSE (IF i \in a.val THEN "1" ELSE "0")
    BY BitFacts
  <2>2. A.bit[i] = p
    BY <1>2
  <2> HIDE DEF p
  <2> QED
    BY <2>1, <2>2 DEF R!Known
<1>9. (R!Unknown(A) <=> a.xz # {}) /\ a.xz \cap M = a.xz
  <2>1. R!Unknown(A) <=> \E i \in M : A.bit[i] \notin R!Known
    BY <1>2 DEF R!Unknown
  <2> QED
    BY <1>1, <1>8, <2>1
<1>10. CASE a.xz # {}
  <2>1. ReduceXor(a) = Scalar("x") /\ R!ReduceXor(A) = R!One("x")
    BY <1>3, <1>4, <1>9, <1>10
  <2>2. "x" \in LogicBit
    BY DEF LogicBit
  <2> QED
    BY <2>1, <2>2, ScalarAgrees DEF A
<1>11. CASE a.xz = {}
  <2>1. ones = a.val \cap M
    BY <1>8, <1>11
  <2> DEFINE bit == IF Cardinality(a.val \cap M) % 2 = 1 THEN "1" ELSE "0"
  <2> HIDE DEF ones
  <2>2. ReduceXor(a) = Scalar(bit) /\ R!ReduceXor(A) = R!One(bit)
    BY <1>3, <1>4, <1>5, <1>7, <1>9, <1>11, <2>1
  <2>3. bit \in LogicBit
    BY DEF LogicBit
  <2> HIDE DEF bit
  <2> QED
    BY <2>2, <2>3, ScalarAgrees DEF A
<1> QED
  BY <1>10, <1>11

-----------------------------------------------------------------------------
(* Shifts *)

(* Moving bits *)

\* Agreement where the type of the result is not claimed.
AgreesUntyped(v, r) == Ready(v) /\ Abstract(v) = [r EXCEPT !.is_signed = v.is_signed]

\* Shown bits agree with a result of another type, where no type is claimed.
LEMMA ShowsUntyped ==
  ASSUME NEW v, NEW n, NEW s, NEW t, NEW f, NEW r, f = [i \in Mask(n) |-> f[i]], Shows(v, n, s, f), r = Bits(n, t, f)
  PROVE  AgreesUntyped(v, r)
<1>1. Ready(v) /\ Abstract(v) = Bits(n, s, f) /\ v.is_signed = s
  BY ShowsFacts DEF Agrees, Shows
<1>2. [r EXCEPT !.is_signed = s] = Bits(n, s, f)
  BY Retyped, Zenon
<1> QED
  BY <1>1, <1>2 DEF AgreesUntyped

\* A type put on a value changes nothing else.
LEMMA TypeFacts ==
  ASSUME NEW v, Ready(v), NEW s \in BOOLEAN, NEW u, u = [v EXCEPT !.is_signed = s]
  PROVE  Ready(u) /\ u.width = v.width /\ u.is_signed = s /\ u.val = v.val /\ u.xz = v.xz
<1>1. v \in Values /\ v.is_fill = FALSE /\ Clear(v)
  BY DEF Ready, Canon
<1>2. u \in Values /\ u.width = v.width /\ u.is_signed = s /\ u.val = v.val /\ u.xz = v.xz /\ u.is_fill = v.is_fill
  BY <1>1 DEF Values
<1> QED
  BY <1>1, <1>2 DEF Ready, Canon, Clear

\* A value of one bit throughout, as the language has it.
LEMMA AllFacts ==
  ASSUME NEW n, NEW bit
  PROVE  R!All(n, bit) = Bits(n, FALSE, [i \in Mask(n) |-> bit])
BY DEF R!All, R!Vector, R!Positions, Mask, Bits

\* A value of one bit throughout, of either type.
LEMMA FilledShows ==
  ASSUME NEW n \in Nat, NEW bit \in LogicBit, NEW s \in BOOLEAN, NEW f, f = [i \in Mask(n) |-> bit]
  PROVE  Shows(Filled(n, bit), n, FALSE, f) /\ Shows([Filled(n, bit) EXCEPT !.is_signed = s], n, s, f)
<1> DEFINE v == Filled(n, bit)
           u == [v EXCEPT !.is_signed = s]
<1>1. Ready(v) /\ v.width = n /\ v.is_signed = FALSE /\ \A i \in Mask(n) : PlaneBit(v.val, v.xz, i) = bit
  BY FilledValue DEF Ready
<1> HIDE DEF v
<1>2. Ready(u) /\ u.width = n /\ u.is_signed = s /\ u.val = v.val /\ u.xz = v.xz
  BY <1>1, TypeFacts
<1> HIDE DEF u
<1>3. Shows(v, n, FALSE, f) /\ Shows(u, n, s, f)
  BY <1>1, <1>2 DEF Shows
<1> QED
  BY <1>3 DEF u, v

\* No value here is so wide that new and zero would cap it.
LEMMA NarrowFacts ==
  ASSUME NEW n \in Nat, n <= Widest
  PROVE  NewX(n) = Filled(n, "x") /\ Zero(n) = Filled(n, "0") /\ "x" \in LogicBit /\ "0" \in LogicBit
<1>1. n <= MaxWidth
  BY ValueAssumption, OpsAssumption
<1> QED
  BY <1>1, CapFacts DEF NewX, Zero, LogicBit

\* has_xz finds an unknown bit exactly where there is one.
LEMMA UnknownFacts ==
  ASSUME NEW a, Canon(a)
  PROVE  R!Unknown(Abstract(a)) <=> HasXZ(a)
<1>1. a.width \in Nat /\ a.xz \subseteq Mask(a.width)
  BY CanonFacts
<1>2. Abstract(a).width = a.width /\ \A i \in Mask(a.width) : Abstract(a).bit[i] = PlaneBit(a.val, a.xz, i)
  BY AbstractFacts
<1>3. R!Positions(a.width) = Mask(a.width)
  BY DEF R!Positions, Mask
<1>4. \A i : PlaneBit(a.val, a.xz, i) \notin R!Known <=> i \in a.xz
  <2> SUFFICES ASSUME NEW i PROVE PlaneBit(a.val, a.xz, i) \notin R!Known <=> i \in a.xz
    OBVIOUS
  <2>1. PlaneBit(a.val, a.xz, i) = IF i \in a.xz THEN (IF i \in a.val THEN "z" ELSE "x")
          ELSE (IF i \in a.val THEN "1" ELSE "0")
    BY BitFacts
  <2> QED
    BY <2>1 DEF R!Known
<1> QED
  BY <1>1, <1>2, <1>3, <1>4 DEF R!Unknown, HasXZ

\* copy_bits_from into a value that is no literal.
LEMMA CopyShows ==
  ASSUME NEW a, Ready(a), NEW b, Canon(b), NEW d \in Nat, NEW s \in Nat, NEW count \in Nat, NEW f,
         \A i \in Mask(a.width) : f[i] = CopiedBit(a, d, b, s, count, i)
  PROVE  Shows(CopyBitsFrom(a, d, b, s, count), a.width, a.is_signed, f)
<1>1. Canon(a) /\ a.is_fill = FALSE
  BY DEF Ready
<1> DEFINE v == CopyBitsFrom(a, d, b, s, count)
<1>2. Canon(v) /\ v.width = a.width /\ v.is_signed = a.is_signed /\ v.is_fill = a.is_fill
  BY <1>1, CopyFacts
<1>3. \A i \in Mask(a.width) : PlaneBit(v.val, v.xz, i) = CopiedBit(a, d, b, s, count, i)
  BY <1>1, CopyFacts
<1> HIDE DEF v
<1>4. Ready(v) /\ \A i \in Mask(a.width) : PlaneBit(v.val, v.xz, i) = f[i]
  BY <1>1, <1>2, <1>3 DEF Ready
<1>5. Shows(v, a.width, a.is_signed, f)
  BY <1>2, <1>4 DEF Shows
<1> QED
  BY <1>5 DEF v

\* shift_left by an amount that fits the word it is narrowed to.
LEMMA ShiftLeftFacts ==
  ASSUME NEW a, Ready(a), a.width <= Widest, NEW b, Operand(b),
         HasXZ(b) \/ (Amount(b) \in Nat /\ Amount(b) = R!Num(Abstract(b)))
  PROVE  AgreesUntyped(ShiftLeft(a, b), R!ShiftUp(Abstract(a), Abstract(b)))
<1> DEFINE A == Abstract(a)
           amt == Amount(b)
           w == a.width
           v == ShiftLeft(a, b)
<1>1. w \in Nat /\ a.is_signed \in BOOLEAN /\ W \in Nat \ {0} /\ a.val \in SUBSET Nat /\ a.xz \in SUBSET Nat
      /\ a.val \subseteq Mask(w) /\ a.xz \subseteq Mask(w) /\ (IsInline(a) <=> w <= W)
  BY ReadyFacts, ValueAssumption
<1>2. A.width = w /\ A.is_signed = a.is_signed /\ R!Positions(w) = Mask(w) /\ Mask(w) \subseteq Nat
      /\ \A i \in Mask(w) : A.bit[i] = PlaneBit(a.val, a.xz, i)
  BY VectorFacts
<1>3. NewX(w) = Filled(w, "x") /\ Zero(w) = Filled(w, "0") /\ "x" \in LogicBit /\ "0" \in LogicBit
  BY <1>1, NarrowFacts
<1>4. CASE HasXZ(b)
  <2> DEFINE f == [i \in Mask(w) |-> "x"]
  <2>1. v = Filled(w, "x")
    BY <1>3, <1>4 DEF ShiftLeft
  <2>2. R!ShiftUp(A, Abstract(b)) = Bits(w, FALSE, f)
    BY <1>2, <1>4, OperandFacts, UnknownFacts, AllFacts DEF R!ShiftUp
  <2>3. Shows(v, w, FALSE, f)
    BY <1>1, <1>3, <2>1, FilledShows
  <2>4. f = [i \in Mask(w) |-> f[i]]
    OBVIOUS
  <2> HIDE DEF v, f, w
  <2> QED
    BY <2>2, <2>3, <2>4, ShowsUntyped DEF v, A
<1>5. CASE ~HasXZ(b)
  <2> DEFINE f == [i \in Mask(w) |-> IF i >= amt THEN A.bit[i - amt] ELSE "0"]
  <2>1. amt \in Nat /\ amt = R!Num(Abstract(b)) /\ ~R!Unknown(Abstract(b))
    BY <1>5, OperandFacts, UnknownFacts
  <2>2. R!ShiftUp(A, Abstract(b)) = Bits(w, a.is_signed, f)
    BY <1>2, <2>1 DEF R!ShiftUp, R!Vector, Bits
  <2> HIDE DEF amt, A, w
  <2>3. \A i \in Mask(w) : f[i] = IF i >= amt THEN PlaneBit(a.val, a.xz, i - amt) ELSE "0"
    <3> SUFFICES ASSUME NEW i \in Mask(w), i >= amt PROVE A.bit[i - amt] = PlaneBit(a.val, a.xz, i - amt)
      OBVIOUS
    <3>1. i - amt \in Mask(w)
      BY <1>1, <2>1 DEF Mask
    <3> QED
      BY <1>2, <3>1
  <2>4. f = [i \in Mask(w) |-> f[i]]
    OBVIOUS
  <2> HIDE DEF f
  <2>5. ASSUME IsInline(a), amt >= w PROVE v = Filled(w, "0") /\ Shows(v, w, FALSE, f)
    <3>1. v = Filled(w, "0")
      BY <1>3, <1>5, <2>5 DEF ShiftLeft, Overshift, w, amt
    <3>2. \A i \in Mask(w) : ~(i >= amt)
      BY <1>1, <2>1, <2>5 DEF Mask
    <3>3. f = [i \in Mask(w) |-> "0"]
      BY <2>3, <2>4, <3>2
    <3> QED
      BY <1>1, <1>3, <3>1, <3>3, FilledShows
  <2>6. ASSUME IsInline(a), ~(amt >= w) PROVE Shows(v, w, a.is_signed, f)
    <3> DEFINE val == Shl(a.val, amt) \cap Mask(w)
               xz == Shl(a.xz, amt) \cap Mask(w)
    <3>1. v = Plain(val, xz, w, a.is_signed)
      BY <1>5, <2>6 DEF ShiftLeft, Overshift, w, amt
    <3>2. amt \in 0 .. W-1 /\ Mask(w) \subseteq 0 .. W-1
      BY <1>1, <2>1, <2>6 DEF Mask
    <3>3. Shl(a.val, amt) = {i \in 0 .. W-1 : i - amt \in a.val}
            /\ Shl(a.xz, amt) = {i \in 0 .. W-1 : i - amt \in a.xz}
      BY <1>1, <3>2, ShlFacts
    <3>4. \A i \in Mask(w) : (i \in val <=> i - amt \in a.val) /\ (i \in xz <=> i - amt \in a.xz)
      BY <3>2, <3>3
    <3>5. \A i \in Mask(w) : ~(i >= amt) => i - amt \notin a.val /\ i - amt \notin a.xz
      BY <1>1, <1>2, <2>1
    <3> HIDE DEF v, val, xz
    <3>6. ASSUME NEW i \in Mask(w)
          PROVE  f[i] \in LogicBit /\ (i \in val <=> f[i] \in {"1", "z"}) /\ (i \in xz <=> f[i] \in {"x", "z"})
      <4>1. CASE i >= amt
        BY <2>3, <3>4, <4>1, BitFacts
      <4>2. CASE ~(i >= amt)
        BY <2>3, <3>4, <3>5, <4>2 DEF LogicBit
      <4> QED
        BY <4>1, <4>2
    <3>7. val \subseteq Mask(w) /\ xz \subseteq Mask(w)
      BY DEF val, xz
    <3> QED
      BY <1>1, <3>1, <3>6, <3>7, PlainShows
  <2>7. ASSUME ~IsInline(a) PROVE Shows(v, w, a.is_signed, f)
    <3> DEFINE z == [Filled(w, "0") EXCEPT !.is_signed = a.is_signed]
               n == Larger(w - amt, 0)
    <3>1. v = CopyBitsFrom(z, amt, a, 0, n)
      BY <1>3, <1>5, <2>7 DEF ShiftLeft, w, amt
    <3>2. Shows(z, w, a.is_signed, [i \in Mask(w) |-> "0"])
      BY <1>1, <1>3, FilledShows
    <3> HIDE DEF z
    <3>3. Canon(z) /\ z.width = w /\ z.is_signed = a.is_signed /\ z.is_fill = FALSE
          /\ \A i \in Mask(w) : PlaneBit(z.val, z.xz, i) = "0"
      BY <3>2 DEF Shows, Ready
    <3>4. n \in Nat /\ \A i \in Mask(w) : amt <= i /\ i < amt + n /\ 0 + (i - amt) < w <=> i >= amt
      BY <1>1, <2>1 DEF Larger, Mask
    <3> HIDE DEF n
    <3>5. Canon(a) /\ a.width = w
      BY ReadyFacts DEF w
    <3>6. \A i \in Mask(z.width) : f[i] = CopiedBit(z, amt, a, 0, n, i)
      <4> SUFFICES ASSUME NEW i \in Mask(w) PROVE f[i] = CopiedBit(z, amt, a, 0, n, i)
        BY <3>3
      <4>1. 0 + (i - amt) = i - amt
        BY <1>2, <2>1
      <4> QED
        BY <2>3, <3>3, <3>4, <3>5, <4>1 DEF CopiedBit
    <3>7. Ready(z) /\ Ready(a) /\ Canon(a) /\ 0 \in Nat
      BY <3>3, <3>5 DEF Ready
    <3>8. Shows(v, z.width, z.is_signed, f)
      BY <2>1, <3>1, <3>4, <3>6, <3>7, CopyShows
    <3> QED
      BY <3>3, <3>8
  <2>8. \E s : Shows(v, w, s, f)
    BY <2>5, <2>6, <2>7
  <2> HIDE DEF v
  <2> QED
    BY <2>2, <2>4, <2>8, ShowsUntyped DEF v, A
<1> QED
  BY <1>4, <1>5

\* The bits of a value shifted down.
LEMMA DownBits ==
  ASSUME NEW a, Ready(a), NEW amt \in Nat, NEW sext \in BOOLEAN
  PROVE  \A i \in Mask(a.width) : R!ExtBit(Abstract(a), sext, i + amt) =
           IF i + amt < a.width \/ ~sext THEN PlaneBit(a.val, a.xz, i + amt) ELSE TopBit(a)
<1>1. a.width \in Nat /\ Abstract(a).width = a.width /\ R!Top(Abstract(a)) = TopBit(a)
  BY ReadyFacts, TopFacts, AbstractFacts
<1> SUFFICES ASSUME NEW i \in Mask(a.width)
             PROVE  R!ExtBit(Abstract(a), sext, i + amt) =
                      IF i + amt < a.width \/ ~sext THEN PlaneBit(a.val, a.xz, i + amt) ELSE TopBit(a)
  OBVIOUS
<1>2. i + amt \in Nat
  BY <1>1 DEF Mask
<1> DEFINE j == i + amt
<1> HIDE DEF j
<1>3. j \in Nat
  BY <1>2 DEF j
<1>4. R!ExtBit(Abstract(a), FALSE, j) = PlaneBit(a.val, a.xz, j)
  BY <1>3, ExtBitFacts
<1>5. CASE ~sext
  BY <1>4, <1>5 DEF j
<1>6. CASE sext /\ j < a.width
  <2>1. R!ExtBit(Abstract(a), sext, j) = R!ExtBit(Abstract(a), FALSE, j)
    BY <1>1, <1>6 DEF R!ExtBit
  <2> QED
    BY <1>4, <1>6, <2>1 DEF j
<1>7. CASE sext /\ ~(j < a.width)
  BY <1>1, <1>7 DEF R!ExtBit, j
<1> QED
  BY <1>5, <1>6, <1>7

\* A shift down by an unknown amount.
LEMMA DownUnknown ==
  ASSUME NEW a, Ready(a), a.width <= Widest, NEW s \in BOOLEAN, NEW t \in BOOLEAN, NEW b, R!Unknown(b)
  PROVE  /\ AgreesUntyped([Filled(a.width, "x") EXCEPT !.is_signed = s], R!ShiftDown(Abstract(a), b, t))
         /\ AgreesUntyped(Filled(a.width, "x"), R!ShiftDown(Abstract(a), b, t))
<1> DEFINE w == a.width
           f == [i \in Mask(w) |-> "x"]
           u == [Filled(w, "x") EXCEPT !.is_signed = s]
           v == Filled(w, "x")
           r == R!ShiftDown(Abstract(a), b, t)
<1>1. w \in Nat /\ Abstract(a).width = w /\ "x" \in LogicBit
  BY ReadyFacts, AbstractFacts DEF LogicBit
<1>2. Shows(v, w, FALSE, f) /\ Shows(u, w, s, f)
  BY <1>1, FilledShows
<1>3. r = [Bits(w, FALSE, f) EXCEPT !.is_signed = t]
  BY <1>1, AllFacts DEF R!ShiftDown
<1>4. r = Bits(w, t, f)
  BY <1>3, Retyped, Zenon
<1>5. f = [i \in Mask(w) |-> f[i]]
  OBVIOUS
<1> HIDE DEF f, u, v, r, w
<1>6. AgreesUntyped(u, r) /\ AgreesUntyped(v, r)
  BY <1>2, <1>4, <1>5, ShowsUntyped
<1> QED
  BY <1>6 DEF u, v, r, w

\* What a shift down by a known amount shows.
LEMMA DownKnown ==
  ASSUME NEW a, Ready(a), NEW amt \in Nat, NEW b, ~R!Unknown(b), R!Num(b) = amt, NEW t \in BOOLEAN,
         NEW v, NEW s, NEW f,
         f = [i \in Mask(a.width) |-> IF i + amt < a.width \/ ~t THEN PlaneBit(a.val, a.xz, i + amt) ELSE TopBit(a)],
         Shows(v, a.width, s, f)
  PROVE  AgreesUntyped(v, R!ShiftDown(Abstract(a), b, t))
<1> DEFINE g == [i \in Mask(a.width) |-> R!ExtBit(Abstract(a), t, i + amt)]
<1>1. Abstract(a).width = a.width /\ Abstract(a).is_signed = a.is_signed /\ R!Positions(a.width) = Mask(a.width)
  BY ReadyFacts, AbstractFacts DEF R!Positions, Mask
<1>2. R!ShiftDown(Abstract(a), b, t) = Bits(a.width, a.is_signed, g)
  BY <1>1 DEF R!ShiftDown, R!Vector, Bits
<1>3. g = f
  BY DownBits
<1>4. f = [i \in Mask(a.width) |-> f[i]]
  OBVIOUS
<1> HIDE DEF g
<1> QED
  BY <1>2, <1>3, <1>4, ShowsUntyped

\* shift_right shifts in 0.
LEMMA ShiftRightFacts ==
  ASSUME NEW a, Ready(a), a.width <= Widest, NEW b, Operand(b),
         HasXZ(b) \/ (Amount(b) \in Nat /\ Amount(b) = R!Num(Abstract(b)))
  PROVE  AgreesUntyped(ShiftRight(a, b), R!ShiftDown(Abstract(a), Abstract(b), FALSE))
<1> DEFINE amt == Amount(b)
           w == a.width
           v == ShiftRight(a, b)
<1>1. w \in Nat /\ a.is_signed \in BOOLEAN /\ W \in Nat \ {0} /\ a.val \in SUBSET Nat /\ a.xz \in SUBSET Nat
      /\ a.val \subseteq Mask(w) /\ a.xz \subseteq Mask(w) /\ (IsInline(a) <=> w <= W)
  BY ReadyFacts, ValueAssumption
<1>2. Mask(w) \subseteq Nat
  BY <1>1 DEF Mask
<1>3. NewX(w) = Filled(w, "x") /\ Zero(w) = Filled(w, "0") /\ "x" \in LogicBit /\ "0" \in LogicBit
  BY <1>1, NarrowFacts
<1>4. CASE HasXZ(b)
  <2>1. v = Filled(w, "x")
    BY <1>3, <1>4 DEF ShiftRight
  <2>2. R!Unknown(Abstract(b))
    BY <1>4, OperandFacts, UnknownFacts
  <2> QED
    BY <2>1, <2>2, DownUnknown
<1>5. CASE ~HasXZ(b)
  <2> DEFINE f == [i \in Mask(w) |-> PlaneBit(a.val, a.xz, i + amt)]
  <2>1. amt \in Nat /\ amt = R!Num(Abstract(b)) /\ ~R!Unknown(Abstract(b))
    BY <1>5, OperandFacts, UnknownFacts
  <2> HIDE DEF amt
  <2>2. \A i \in Mask(w) : f[i] \in LogicBit /\ (i + amt >= w => f[i] = "0") /\ i + amt \in Nat
    <3> SUFFICES ASSUME NEW i \in Mask(w)
                 PROVE  f[i] \in LogicBit /\ (i + amt >= w => f[i] = "0") /\ i + amt \in Nat
      OBVIOUS
    <3>1. i + amt \in Nat
      BY <1>2, <2>1
    <3>2. f[i] = PlaneBit(a.val, a.xz, i + amt)
      OBVIOUS
    <3> DEFINE j == i + amt
    <3> HIDE DEF j, f
    <3>3. j >= w => PlaneBit(a.val, a.xz, j) = "0"
      BY <3>1, ReadyFacts, GetBitFacts DEF j
    <3>4. PlaneBit(a.val, a.xz, j) \in LogicBit
      BY BitFacts
    <3> QED
      BY <3>1, <3>2, <3>3, <3>4 DEF j
  <2>3. ASSUME IsInline(a), amt >= w PROVE v = Filled(w, "0") /\ Shows(v, w, FALSE, f)
    <3>1. v = Filled(w, "0")
      BY <1>3, <1>5, <2>3 DEF ShiftRight, Overshift, amt
    <3>2. \A i \in Mask(w) : i + amt >= w
      BY <1>1, <1>2, <2>1, <2>3
    <3>3. f = [i \in Mask(w) |-> "0"]
      BY <2>2, <3>2
    <3> QED
      BY <1>1, <1>3, <3>1, <3>3, FilledShows
  <2>4. ASSUME IsInline(a), ~(amt >= w) PROVE Shows(v, w, a.is_signed, f)
    <3> DEFINE val == Shr(a.val, amt)
               xz == Shr(a.xz, amt)
    <3>1. v = Plain(val, xz, w, a.is_signed)
      BY <1>5, <2>4 DEF ShiftRight, Overshift, amt
    <3>2. amt \in 0 .. W-1
      BY <1>1, <2>1, <2>4
    <3>3. val = {i \in Nat : i + amt \in a.val} /\ xz = {i \in Nat : i + amt \in a.xz}
      BY <1>1, <3>2, ShrFacts
    <3>4. val \subseteq Mask(w) /\ xz \subseteq Mask(w)
      BY <1>1, <2>1, <3>3 DEF Mask
    <3> HIDE DEF val, xz, v
    <3>5. ASSUME NEW i \in Mask(w)
          PROVE  f[i] \in LogicBit /\ (i \in val <=> f[i] \in {"1", "z"}) /\ (i \in xz <=> f[i] \in {"x", "z"})
      <4>1. f[i] = PlaneBit(a.val, a.xz, i + amt) /\ (i \in val <=> i + amt \in a.val)
              /\ (i \in xz <=> i + amt \in a.xz)
        BY <1>2, <3>3
      <4> HIDE DEF f
      <4> QED
        BY <4>1, BitFacts
    <3> HIDE DEF f
    <3> QED
      BY <1>1, <3>1, <3>4, <3>5, PlainShows
  <2>5. ASSUME ~IsInline(a) PROVE Shows(v, w, a.is_signed, f)
    <3> DEFINE z == [Filled(w, "0") EXCEPT !.is_signed = a.is_signed]
               n == Larger(w - amt, 0)
    <3>1. v = CopyBitsFrom(z, 0, a, amt, n)
      BY <1>3, <1>5, <2>5 DEF ShiftRight, amt
    <3>2. Shows(z, w, a.is_signed, [i \in Mask(w) |-> "0"])
      BY <1>1, <1>3, FilledShows
    <3> HIDE DEF z
    <3>3. Ready(z) /\ z.width = w /\ z.is_signed = a.is_signed /\ \A i \in Mask(w) : PlaneBit(z.val, z.xz, i) = "0"
      BY <3>2 DEF Shows
    <3>4. n \in Nat /\ \A i \in Mask(w) : /\ amt + (i - 0) = i + amt
                                          /\ 0 <= i /\ i < 0 + n /\ i + amt < w <=> ~(i + amt >= w)
      <4>1. w \in Nat
        BY <1>1
      <4> HIDE DEF w
      <4> QED
        BY <2>1, <4>1 DEF Larger, Mask
    <3> HIDE DEF n
    <3>5. \A i \in Mask(z.width) : f[i] = CopiedBit(z, 0, a, amt, n, i)
      <4> SUFFICES ASSUME NEW i \in Mask(w) PROVE f[i] = CopiedBit(z, 0, a, amt, n, i)
        BY <3>3
      <4>1. f[i] = PlaneBit(a.val, a.xz, i + amt)
        OBVIOUS
      <4> HIDE DEF f
      <4> QED
        BY <2>2, <3>3, <3>4, <4>1 DEF CopiedBit
    <3> HIDE DEF f
    <3> HIDE DEF v, w
    <3>7. Canon(a) /\ 0 \in Nat
      BY ReadyFacts
    <3>6. Shows(v, z.width, z.is_signed, f)
      BY <2>1, <3>1, <3>3, <3>4, <3>5, <3>7, CopyShows
    <3> QED
      BY <3>3, <3>6
  <2>6. \E s : Shows(v, w, s, f)
    BY <2>3, <2>4, <2>5
  <2> HIDE DEF v
  <2>7. f = [i \in Mask(w) |-> IF i + amt < w \/ ~FALSE THEN PlaneBit(a.val, a.xz, i + amt) ELSE TopBit(a)]
    OBVIOUS
  <2> HIDE DEF f
  <2> QED
    BY <2>1, <2>6, <2>7, DownKnown DEF v
<1> QED
  BY <1>4, <1>5

\* arith_shift_right shifts in the sign of a signed value.
LEMMA ArithShiftRightFacts ==
  ASSUME NEW a, Ready(a), a.width <= Widest, NEW b, Operand(b),
         HasXZ(b) \/ (Amount(b) \in Nat /\ Amount(b) = R!Num(Abstract(b)))
  PROVE  AgreesUntyped(ArithShiftRight(a, b), R!ShiftDown(Abstract(a), Abstract(b), a.is_signed))
<1> DEFINE amt == Amount(b)
           w == a.width
           sign == TopBit(a)
           v == ArithShiftRight(a, b)
<1>1. w \in Nat /\ a.is_signed \in BOOLEAN /\ W \in Nat \ {0} /\ a.val \in SUBSET Nat /\ a.xz \in SUBSET Nat
      /\ a.val \subseteq Mask(w) /\ a.xz \subseteq Mask(w) /\ (IsInline(a) <=> w <= W)
  BY ReadyFacts, ValueAssumption
<1>2. Mask(w) \subseteq Nat
  BY <1>1 DEF Mask
<1>3. NewX(w) = Filled(w, "x") /\ "x" \in LogicBit /\ sign \in LogicBit /\ TRUE \in BOOLEAN
  BY <1>1, NarrowFacts, TopFacts
<1>4. CASE ~a.is_signed
  <2>1. v = ShiftRight(a, b)
    BY <1>4 DEF ArithShiftRight
  <2>2. a.is_signed = FALSE
    BY <1>1, <1>4
  <2> QED
    BY <2>1, <2>2, ShiftRightFacts
<1>5. CASE a.is_signed /\ HasXZ(b)
  <2>1. v = [Filled(w, "x") EXCEPT !.is_signed = TRUE]
    BY <1>3, <1>5 DEF ArithShiftRight
  <2>2. R!Unknown(Abstract(b))
    BY <1>5, OperandFacts, UnknownFacts
  <2> QED
    BY <1>1, <2>1, <2>2, DownUnknown
<1>6. CASE a.is_signed /\ ~HasXZ(b)
  <2> DEFINE f == [i \in Mask(w) |-> IF i + amt < w \/ ~TRUE THEN PlaneBit(a.val, a.xz, i + amt) ELSE sign]
  <2>1. amt \in Nat /\ amt = R!Num(Abstract(b)) /\ ~R!Unknown(Abstract(b))
    BY <1>6, OperandFacts, UnknownFacts
  <2> HIDE DEF amt, sign
  <2>2. \A i \in Mask(w) : /\ f[i] \in LogicBit /\ i + amt \in Nat /\ i \in Nat
                           /\ f[i] = IF i + amt < w THEN PlaneBit(a.val, a.xz, i + amt) ELSE sign
    <3> SUFFICES ASSUME NEW i \in Mask(w)
                 PROVE  /\ f[i] \in LogicBit /\ i + amt \in Nat /\ i \in Nat
                        /\ f[i] = IF i + amt < w THEN PlaneBit(a.val, a.xz, i + amt) ELSE sign
      OBVIOUS
    <3>1. i + amt \in Nat /\ i \in Nat
      BY <1>2, <2>1
    <3>2. f[i] = IF i + amt < w THEN PlaneBit(a.val, a.xz, i + amt) ELSE sign
      OBVIOUS
    <3> DEFINE j == i + amt
    <3> HIDE DEF j, f
    <3>4. PlaneBit(a.val, a.xz, j) \in LogicBit
      BY BitFacts
    <3> QED
      BY <1>3, <3>1, <3>2, <3>4 DEF j
  <2>3. ASSUME IsInline(a), amt >= w PROVE Shows(v, w, TRUE, f)
    <3>1. v = [Filled(w, sign) EXCEPT !.is_signed = TRUE]
      BY <1>6, <2>3 DEF ArithShiftRight, Overshift, amt, sign
    <3>2. \A i \in Mask(w) : ~(i + amt < w)
      BY <1>1, <1>2, <2>1, <2>3
    <3>3. f = [i \in Mask(w) |-> sign]
      BY <2>2, <3>2
    <3> HIDE DEF f, v, w
    <3> QED
      BY <1>1, <1>3, <3>1, <3>3, FilledShows
  <2>4. ASSUME IsInline(a), ~(amt >= w) PROVE Shows(v, w, TRUE, f)
    <3> DEFINE ext == Mask(w) \ Mask(w - amt)
               val == Shr(a.val, amt) \cup (IF sign \in {"1", "z"} THEN ext ELSE {})
               xz == Shr(a.xz, amt) \cup (IF sign \in Known THEN {} ELSE ext)
    <3>1. v = Plain(val, xz, w, TRUE)
      BY <1>6, <2>4 DEF ArithShiftRight, Overshift, amt, sign
    <3>2. amt \in 0 .. W-1
      BY <1>1, <2>1, <2>4
    <3>3. Shr(a.val, amt) = {i \in Nat : i + amt \in a.val} /\ Shr(a.xz, amt) = {i \in Nat : i + amt \in a.xz}
      BY <1>1, <3>2, ShrFacts
    <3>4. \A i \in Mask(w) : i \in ext <=> ~(i + amt < w)
      <4>1. w \in Nat
        BY <1>1
      <4> HIDE DEF w
      <4> QED
        BY <2>1, <4>1 DEF Mask
    <3>5. ext \subseteq Mask(w) /\ Shr(a.val, amt) \subseteq Mask(w) /\ Shr(a.xz, amt) \subseteq Mask(w)
      <4>1. w \in Nat
        BY <1>1
      <4>2. a.val \subseteq Mask(w) /\ a.xz \subseteq Mask(w)
        BY <1>1
      <4> HIDE DEF w
      <4> QED
        BY <2>1, <3>3, <4>1, <4>2 DEF Mask
    <3>6. val \subseteq Mask(w) /\ xz \subseteq Mask(w)
      BY <3>5
    <3>7. ASSUME NEW i \in Mask(w)
          PROVE  f[i] \in LogicBit /\ (i \in val <=> f[i] \in {"1", "z"}) /\ (i \in xz <=> f[i] \in {"x", "z"})
      <4> DEFINE p == PlaneBit(a.val, a.xz, i + amt)
      <4>1. f[i] \in LogicBit /\ f[i] = IF i + amt < w THEN p ELSE sign
        BY <2>2
      <4>2. /\ i \in val <=> i + amt \in a.val \/ (~(i + amt < w) /\ sign \in {"1", "z"})
            /\ i \in xz <=> i + amt \in a.xz \/ (~(i + amt < w) /\ sign \notin Known)
        BY <2>2, <3>3, <3>4
      <4>3. (i + amt \in a.val <=> p \in {"1", "z"}) /\ (i + amt \in a.xz <=> p \in {"x", "z"})
        BY BitFacts
      <4>4. ~(i + amt < w) => i + amt \notin a.val /\ i + amt \notin a.xz
        <5>1. w \in Nat
          BY <1>1
        <5>2. a.val \subseteq Mask(w) /\ a.xz \subseteq Mask(w)
          BY <1>1
        <5> HIDE DEF w
        <5> QED
          BY <2>1, <2>2, <5>1, <5>2 DEF Mask
      <4>5. sign \notin Known <=> sign \in {"x", "z"}
        BY <1>3 DEF LogicBit, Known
      <4> HIDE DEF p, f, val, xz
      <4>6. CASE i + amt < w
        BY <4>1, <4>2, <4>3, <4>6
      <4>7. CASE ~(i + amt < w)
        BY <4>1, <4>2, <4>4, <4>5, <4>7
      <4> QED
        BY <4>6, <4>7
    <3> HIDE DEF f, val, xz, v
    <3> QED
      BY <1>1, <1>3, <3>1, <3>6, <3>7, PlainShows
  <2>5. ASSUME ~IsInline(a) PROVE Shows(v, w, TRUE, f)
    <3>1. v = FromBits(w, TRUE, LAMBDA i : IF i + amt < w THEN GetBit(a, i + amt) ELSE sign)
      BY <1>6, <2>5 DEF ArithShiftRight, amt, sign
    <3>2. \A i \in Mask(w) : (IF i + amt < w THEN GetBit(a, i + amt) ELSE sign) = f[i]
      BY <2>2, ExtBitFacts
    <3> DEFINE val == {i \in Mask(w) : f[i] \in {"1", "z"}}
               xz == {i \in Mask(w) : f[i] \in {"x", "z"}}
    <3> HIDE DEF v, f
    <3>3. v = Plain(val, xz, w, TRUE)
      BY <3>1, <3>2 DEF FromBits
    <3>4. val \subseteq Mask(w) /\ xz \subseteq Mask(w)
      OBVIOUS
    <3>5. \A i \in Mask(w) : f[i] \in LogicBit /\ (i \in val <=> f[i] \in {"1", "z"})
            /\ (i \in xz <=> f[i] \in {"x", "z"})
      BY <2>2
    <3> HIDE DEF val, xz
    <3> QED
      BY <1>1, <1>3, <3>3, <3>4, <3>5, PlainShows
  <2>6. Shows(v, w, TRUE, f)
    BY <2>3, <2>4, <2>5
  <2>7. a.is_signed = TRUE
    BY <1>1, <1>6
  <2>8. f = [i \in Mask(w) |-> IF i + amt < w \/ ~TRUE THEN PlaneBit(a.val, a.xz, i + amt) ELSE TopBit(a)]
    BY DEF sign
  <2> HIDE DEF v, f
  <2> QED
    BY <1>3, <2>1, <2>6, <2>7, <2>8, DownKnown DEF v
<1> QED
  BY <1>1, <1>4, <1>5, <1>6

-----------------------------------------------------------------------------
(* Selects *)

\* The bits that a select yields.
SelectBits(a, hi, lo) ==
  [i \in Mask(R!MaxOf(hi - lo + 1, 0)) |-> IF lo + i \in Mask(a.width) THEN PlaneBit(a.val, a.xz, lo + i) ELSE "x"]

\* What a select should yield.
LEMMA SelectFacts ==
  ASSUME NEW a, Ready(a), NEW hi \in Int, NEW lo \in Int
  PROVE  R!Select(Abstract(a), hi, lo) = Bits(R!MaxOf(hi - lo + 1, 0), FALSE, SelectBits(a, hi, lo))
<1> DEFINE n == R!MaxOf(hi - lo + 1, 0)
           A == Abstract(a)
           g == [i \in Mask(n) |-> IF lo + i \in Mask(a.width) THEN A.bit[lo + i] ELSE "x"]
<1>1. A.width = a.width /\ A.is_fill = FALSE /\ \A i \in Mask(a.width) : A.bit[i] = PlaneBit(a.val, a.xz, i)
  BY ReadyFacts, AbstractFacts
<1>2. R!Positions(n) = Mask(n) /\ R!Positions(a.width) = Mask(a.width)
  BY DEF R!Positions, Mask
<1> HIDE DEF A
<1>3. R!Select(A, hi, lo) = Bits(n, FALSE, g)
  BY <1>1, <1>2 DEF R!Select, R!Vector, Bits
<1>4. g = SelectBits(a, hi, lo)
  BY <1>1 DEF SelectBits
<1> QED
  BY <1>3, <1>4 DEF A

\* What shows the bits of a select is the select.
LEMMA SelectAgrees ==
  ASSUME NEW a, Ready(a), NEW hi \in Int, NEW lo \in Int, NEW v,
         Shows(v, R!MaxOf(hi - lo + 1, 0), FALSE, SelectBits(a, hi, lo))
  PROVE  Agrees(v, R!Select(Abstract(a), hi, lo))
<1> DEFINE n == R!MaxOf(hi - lo + 1, 0)
           f == SelectBits(a, hi, lo)
<1>1. f = [i \in Mask(n) |-> f[i]]
  BY DEF SelectBits
<1>2. R!Select(Abstract(a), hi, lo) = Bits(n, FALSE, f)
  BY SelectFacts
<1>3. Shows(v, n, FALSE, f)
  OBVIOUS
<1> HIDE DEF n, f
<1>4. Agrees(v, Bits(n, FALSE, f))
  BY <1>1, <1>3, ShowsFacts
<1> QED
  BY <1>2, <1>4

\* bit_select is the select of one bit.
LEMMA BitSelectFacts ==
  ASSUME NEW a, Ready(a), NEW i \in Nat, i % 2^IndexBits = i
  PROVE  Agrees(BitSelect(a, i), R!Select(Abstract(a), i, i))
<1> DEFINE v == BitSelect(a, i)
           bit == IF i < a.width THEN PlaneBit(a.val, a.xz, i) ELSE "x"
           f == SelectBits(a, i, i)
           one == R!MaxOf(i - i + 1, 0)
<1>1. a.width \in Nat /\ a.is_fill = FALSE /\ Canon(a)
  BY ReadyFacts
<1>2. bit \in LogicBit
  <2> DEFINE p == PlaneBit(a.val, a.xz, i)
  <2>1. p \in LogicBit
    BY BitFacts
  <2>2. bit = IF i < a.width THEN p ELSE "x"
    OBVIOUS
  <2> HIDE DEF p, bit
  <2> QED
    BY <2>1, <2>2 DEF LogicBit
<1>3. CapWidth(1) = 1
  <2>1. 1 <= MaxWidth
    BY ValueAssumption
  <2> QED
    BY <2>1, CapFacts
<1>4. v = Filled(1, bit)
  <2>1. CASE i < a.width
    <3>1. ~(i >= a.width)
      BY <1>1, <2>1
    <3>2. GetBit(a, i) = PlaneBit(a.val, a.xz, i)
      BY ExtBitFacts
    <3>3. v = Scalar(GetBit(a, i))
      BY <2>1, <3>1 DEF BitSelect
    <3> QED
      BY <2>1, <3>2, <3>3 DEF Scalar
  <2>2. CASE ~(i < a.width)
    <3>1. i >= a.width
      BY <1>1, <2>2
    <3>2. v = NewX(1)
      BY <1>1, <2>2, <3>1 DEF BitSelect
    <3> QED
      BY <1>3, <2>2, <3>2 DEF NewX
  <2> QED
    BY <2>1, <2>2
<1>5. one = 1
  BY DEF R!MaxOf
<1>6. f = [j \in Mask(1) |-> bit]
  <2>1. Mask(1) = {0}
    BY DEF Mask
  <2>2. i + 0 = i /\ (i \in Mask(a.width) <=> i < a.width)
    BY <1>1 DEF Mask
  <2>3. f = [j \in Mask(1) |-> IF i + j \in Mask(a.width) THEN PlaneBit(a.val, a.xz, i + j) ELSE "x"]
    BY <1>5 DEF SelectBits
  <2> QED
    BY <2>1, <2>2, <2>3
<1> HIDE DEF f, bit, v, one
<1>7. Shows(v, 1, FALSE, f)
  BY <1>2, <1>4, <1>6, FilledShows
<1>8. i \in Int
  OBVIOUS
<1>9. Shows(v, R!MaxOf(i - i + 1, 0), FALSE, SelectBits(a, i, i))
  BY <1>5, <1>7 DEF f, one
<1> QED
  BY <1>8, <1>9, SelectAgrees DEF v

\* Both planes of a value, moved down.
LEMMA DownShows ==
  ASSUME NEW a, Ready(a), NEW lo \in Nat, NEW n \in Nat, NEW s \in BOOLEAN, NEW val, NEW xz,
         val = {i \in Mask(n) : lo + i \in a.val}, xz = {i \in Mask(n) : lo + i \in a.xz},
         NEW f, \A i \in Mask(n) : f[i] = PlaneBit(a.val, a.xz, lo + i)
  PROVE  Shows(Plain(val, xz, n, s), n, s, f)
<1>1. val \subseteq Mask(n) /\ xz \subseteq Mask(n)
  OBVIOUS
<1>2. ASSUME NEW i \in Mask(n)
      PROVE  f[i] \in LogicBit /\ (i \in val <=> f[i] \in {"1", "z"}) /\ (i \in xz <=> f[i] \in {"x", "z"})
  <2>1. (i \in val <=> lo + i \in a.val) /\ (i \in xz <=> lo + i \in a.xz) /\ f[i] = PlaneBit(a.val, a.xz, lo + i)
    OBVIOUS
  <2> QED
    BY <2>1, BitFacts
<1> QED
  BY <1>1, <1>2, PlainShows

\* A position below the end of the words is in one of them.
LEMMA WordOf ==
  ASSUME NEW n \in Nat, NEW i \in WordBits(n)
  PROVE  i \in Nat /\ i \div W \in 0 .. NWords(n) - 1 /\ i % W \in 0 .. W-1 /\ i = (i \div W) * W + (i % W)
<1> DEFINE N == NWords(n)
           k == i \div W
           y == i % W
<1>1. N \in Nat \ {0} /\ i \in Nat /\ W \in Nat \ {0}
  BY NWordsFacts, ValueAssumption, WordBitsFacts
<1>2. k \in Nat /\ y \in 0 .. W-1 /\ i = k * W + y
  BY <1>1, InWord
<1>3. i < N * W
  <2>1. N * W \in Nat
    BY <1>1
  <2> QED
    BY <1>1, <2>1 DEF WordBits
<1> HIDE DEF N, k, y
<1>4. k < N
  <2>1. k * W \in Nat /\ N * W \in Nat
    BY <1>1, <1>2
  <2>2. ASSUME N < k PROVE FALSE
    <3>1. N * W + W <= k * W
      BY <1>1, <1>2, <2>2, WordsApart
    <3> DEFINE p == k * W
               q == N * W
    <3> HIDE DEF p, q
    <3>2. p \in Nat /\ q \in Nat /\ q + W <= p /\ i = p + y /\ i < q
      BY <1>2, <1>3, <2>1, <3>1 DEF p, q
    <3> QED
      BY <1>1, <1>2, <3>2
  <2>3. ASSUME N = k PROVE FALSE
    <3> DEFINE p == k * W
    <3> HIDE DEF p
    <3>1. p \in Nat /\ i = p + y /\ i < p
      BY <1>2, <1>3, <2>1, <2>3 DEF p
    <3> QED
      BY <1>2, <3>1
  <2> QED
    BY <1>1, <1>2, <2>2, <2>3
<1> QED
  BY <1>1, <1>2, <1>4 DEF N, k, y

\* A bit of one of the words is below their end.
LEMMA WordIn ==
  ASSUME NEW n \in Nat, NEW k \in 0 .. NWords(n) - 1, NEW b \in 0 .. W-1
  PROVE  k * W + b \in WordBits(n)
<1> DEFINE N == NWords(n)
           p == k * W
           q == N * W
<1>1. N \in Nat \ {0} /\ k \in Nat /\ W \in Nat \ {0} /\ k < N
  BY NWordsFacts, ValueAssumption
<1> HIDE DEF N
<1>2. p + W <= q /\ p \in Nat /\ q \in Nat
  BY <1>1, WordsApart
<1> HIDE DEF p, q
<1>3. p + b \in 0 .. q - 1
  BY <1>1, <1>2
<1> QED
  BY <1>3 DEF WordBits, p, q, N

\* The words of a select, gathered one at a time.
LEMMA GatherFacts ==
  ASSUME NEW plane \in SUBSET Nat, NEW lo \in Nat, NEW n \in Nat
  PROVE  UNION {{k * W + b : b \in Extract64(plane, lo + k * W, W)} : k \in 0 .. NWords(n) - 1} =
           {i \in WordBits(n) : lo + i \in plane}
<1> DEFINE ks == 0 .. NWords(n) - 1
           Part(k) == {k * W + b : b \in Extract64(plane, lo + k * W, W)}
           gathered == {i \in WordBits(n) : lo + i \in plane}
<1>1. W \in Nat \ {0} /\ NWords(n) \in Nat /\ WordBits(n) \subseteq Nat
  BY ValueAssumption, NWordsFacts, WordBitsFacts
<1>2. \A k \in ks : k \in Nat /\ k * W \in Nat
  BY <1>1
<1>3. ASSUME NEW k \in ks
      PROVE  Extract64(plane, lo + k * W, W) = {b \in 0 .. W-1 : lo + (k * W + b) \in plane}
  <2> DEFINE p == k * W
  <2>1. p \in Nat
    BY <1>2
  <2> HIDE DEF p
  <2>2. Smaller(W, W) = W /\ Mask(W) = 0 .. W-1
    BY <1>1 DEF Smaller, Mask
  <2>3. lo + p \in Nat /\ \A b \in 0 .. W-1 : lo + p + b = lo + (p + b)
    BY <1>1, <2>1
  <2>4. Extract64(plane, lo + p, W) = {b \in 0 .. W-1 : lo + p + b \in plane}
    <3>1. W \in Nat /\ lo + p \in Nat
      BY <1>1, <2>3
    <3>2. Extract64(plane, lo + p, W) = {b \in Mask(Smaller(W, W)) : lo + p + b \in plane}
      BY <3>1, ExtractFacts
    <3> QED
      BY <2>2, <3>2
  <2>5. Extract64(plane, lo + p, W) = {b \in 0 .. W-1 : lo + (p + b) \in plane}
    BY <2>3, <2>4
  <2> QED
    BY <2>5 DEF p
<1>4. ASSUME NEW k \in ks, NEW i \in Part(k) PROVE i \in gathered
  <2>1. PICK b \in Extract64(plane, lo + k * W, W) : i = k * W + b
    OBVIOUS
  <2>2. b \in 0 .. W-1 /\ lo + (k * W + b) \in plane
    BY <1>3
  <2>3. k * W + b \in WordBits(n)
    BY <2>2, WordIn
  <2> QED
    BY <2>1, <2>2, <2>3
<1>5. ASSUME NEW i \in gathered PROVE \E k \in ks : i \in Part(k)
  <2> DEFINE k == i \div W
             b == i % W
  <2>1. k \in ks /\ b \in 0 .. W-1 /\ i = k * W + b
    BY WordOf
  <2> HIDE DEF k, b
  <2>2. b \in Extract64(plane, lo + k * W, W)
    BY <1>3, <2>1
  <2> QED
    BY <2>1, <2>2
<1> HIDE DEF Part, gathered, ks
<1>6. UNION {Part(k) : k \in ks} = gathered
  BY <1>4, <1>5
<1> QED
  BY <1>6 DEF Part, gathered, ks

\* range_select_zext: the bits from lo on, 0 beyond the value.
LEMMA ZextFacts ==
  ASSUME NEW a, Ready(a), NEW hi \in Int, NEW lo \in Nat, hi >= lo, hi - lo < MaxWidth,
         NEW f, f = [i \in Mask(hi - lo + 1) |-> PlaneBit(a.val, a.xz, lo + i)]
  PROVE  Shows(RangeSelectZext(a, hi, lo), hi - lo + 1, FALSE, f)
<1> DEFINE n == hi - lo + 1
           v == RangeSelectZext(a, hi, lo)
           val == {i \in Mask(n) : lo + i \in a.val}
           xz == {i \in Mask(n) : lo + i \in a.xz}
           Gather(plane) == UNION {{k * W + b : b \in Extract64(plane, lo + k * W, W)} : k \in 0 .. NWords(n) - 1}
<1>0. n \in Nat \ {0}
  OBVIOUS
<1>1. n \in Nat \ {0} /\ W \in Nat \ {0} /\ a.width \in Nat /\ (IsInline(a) <=> a.width <= W) /\ FALSE \in BOOLEAN
  <2> HIDE DEF n
  <2> QED
    BY <1>0, ReadyFacts, ValueAssumption
<1>2. a.val \in SUBSET Nat /\ a.xz \in SUBSET Nat /\ a.val \subseteq Mask(a.width) /\ a.xz \subseteq Mask(a.width)
  BY ReadyFacts
<1>3. v = Plain(val, xz, n, FALSE)
  <2>0. ~(n > MaxWidth) /\ n <= MaxWidth
    BY ValueAssumption
  <2>a. ASSUME IsInline(a), n <= W, lo < W
        PROVE v = Plain(Shr(a.val, lo) \cap Mask(n), Shr(a.xz, lo) \cap Mask(n), n, FALSE)
    BY <2>0, <2>a DEF RangeSelectZext
  <2>b. ASSUME ~IsInline(a), n > W
        PROVE v = Plain(MaskTop(Gather(a.val), n), MaskTop(Gather(a.xz), n), n, FALSE)
    <3>1. ~(n <= W)
      BY <1>0, <1>1, <2>b
    <3> QED
      BY <2>0, <2>b, <3>1 DEF RangeSelectZext
  <2>c. ASSUME ~IsInline(a), ~(n > W)
        PROVE v = Plain(Extract64(a.val, lo, n), Extract64(a.xz, lo, n), n, FALSE)
    <3>1. n <= W
      BY <1>0, <1>1, <2>c
    <3> QED
      BY <2>0, <2>c, <3>1 DEF RangeSelectZext
  <2>d. ASSUME IsInline(a), ~(n <= W /\ lo < W)
        PROVE v = FromBits(n, FALSE, LAMBDA i : GetBit(a, lo + i))
    BY <2>0, <2>d DEF RangeSelectZext
  <2> HIDE DEF n, v
  <2>1. CASE IsInline(a) /\ n <= W /\ lo < W
    <3>1. lo \in 0 .. W-1
      BY <1>1, <2>1
    <3>2. Shr(a.val, lo) = {i \in Nat : i + lo \in a.val} /\ Shr(a.xz, lo) = {i \in Nat : i + lo \in a.xz}
      BY <1>2, <3>1, ShrFacts
    <3>3. Mask(n) \subseteq Nat /\ \A i \in Nat : i + lo = lo + i
      BY <1>1 DEF Mask
    <3>4. Shr(a.val, lo) \cap Mask(n) = val /\ Shr(a.xz, lo) \cap Mask(n) = xz
      BY <3>2, <3>3
    <3> QED
      BY <2>a, <2>1, <3>4
  <2>2. CASE ~IsInline(a) /\ n > W
    <3>1. Gather(a.val) = {i \in WordBits(n) : lo + i \in a.val}
            /\ Gather(a.xz) = {i \in WordBits(n) : lo + i \in a.xz}
      BY <1>1, <1>2, GatherFacts
    <3>2. MaskTop({i \in WordBits(n) : lo + i \in a.val}, n) = val
            /\ MaskTop({i \in WordBits(n) : lo + i \in a.xz}, n) = xz
      BY <1>1, MaskTopFacts, WordBitsFacts
    <3>3. v = Plain(MaskTop(Gather(a.val), n), MaskTop(Gather(a.xz), n), n, FALSE)
      BY <2>b, <2>2
    <3> HIDE DEF Gather, val, xz, v
    <3> QED
      BY <3>1, <3>2, <3>3
  <2>3. CASE ~IsInline(a) /\ ~(n > W)
    <3>1. Smaller(n, W) = n
      BY <1>1, <2>3 DEF Smaller
    <3>2. Extract64(a.val, lo, n) = val /\ Extract64(a.xz, lo, n) = xz
      BY <1>1, <1>2, <3>1, ExtractFacts
    <3>3. v = Plain(Extract64(a.val, lo, n), Extract64(a.xz, lo, n), n, FALSE)
      BY <2>c, <2>3
    <3> QED
      BY <3>2, <3>3
  <2>4. CASE IsInline(a) /\ ~(n <= W /\ lo < W)
    <3>1. v = FromBits(n, FALSE, LAMBDA i : GetBit(a, lo + i))
      BY <2>d, <2>4
    <3>2. ASSUME NEW i \in Mask(n)
          PROVE  (GetBit(a, lo + i) \in {"1", "z"} <=> lo + i \in a.val)
                   /\ (GetBit(a, lo + i) \in {"x", "z"} <=> lo + i \in a.xz)
      <4>1. lo + i \in Nat
        BY <1>1 DEF Mask
      <4>2. GetBit(a, lo + i) = PlaneBit(a.val, a.xz, lo + i)
        BY <4>1, ExtBitFacts
      <4> QED
        BY <4>2, BitFacts
    <3>3. {i \in Mask(n) : GetBit(a, lo + i) \in {"1", "z"}} = val
            /\ {i \in Mask(n) : GetBit(a, lo + i) \in {"x", "z"}} = xz
      BY <3>2
    <3> HIDE DEF v, val, xz
    <3> QED
      BY <3>1, <3>3 DEF FromBits
  <2> QED
    BY <2>1, <2>2, <2>3, <2>4
<1>4. \A i \in Mask(n) : f[i] = PlaneBit(a.val, a.xz, lo + i)
  OBVIOUS
<1> HIDE DEF v, n
<1>5. Shows(Plain(val, xz, n, FALSE), n, FALSE, f)
  BY <1>1, <1>4, DownShows
<1> QED
  BY <1>3, <1>5 DEF v, n

\* range_select yields the bits of the select, in its inline arm and by words.
LEMMA RangeShows ==
  ASSUME NEW a, Ready(a), NEW hi \in Int, NEW lo \in Nat, hi >= lo, hi - lo < MaxWidth,
         NEW f, f = [i \in Mask(hi - lo + 1) |-> IF lo + i \in Mask(a.width) THEN PlaneBit(a.val, a.xz, lo + i)
           ELSE "x"]
  PROVE  Shows(RangeSelect(a, hi, lo), hi - lo + 1, FALSE, f)
<1> DEFINE n == hi - lo + 1
           r == RangeSelectZext(a, hi, lo)
           g == [i \in Mask(n) |-> PlaneBit(a.val, a.xz, lo + i)]
           v == RangeSelect(a, hi, lo)
           w == a.width
<1>0. n \in Nat \ {0} /\ n <= MaxWidth
  BY ValueAssumption
<1>a. f = [i \in Mask(n) |-> IF lo + i \in Mask(w) THEN PlaneBit(a.val, a.xz, lo + i) ELSE "x"]
  OBVIOUS
<1>1. w \in Nat /\ a.is_fill = FALSE /\ FALSE \in BOOLEAN /\ "x" \in LogicBit
  <2> HIDE DEF n
  <2> QED
    BY ReadyFacts DEF LogicBit
<1>2. Shows(r, n, FALSE, g)
  BY ZextFacts
<1>3. v = Overhang(a, lo, r)
  BY <1>1 DEF RangeSelect
<1> HIDE DEF r, v, w, n
<1>4. Ready(r) /\ r.width = n /\ r.is_signed = FALSE /\ \A i \in Mask(n) : PlaneBit(r.val, r.xz, i) = g[i]
  BY <1>2 DEF Shows
<1>5. CASE lo >= w
  <2>1. ~(lo < w)
    BY <1>1, <1>5
  <2>2. v = Filled(n, "x")
    <3>1. CapWidth(n) = n
      BY <1>0, CapFacts
    <3>2. v = NewX(r.width)
      BY <1>3, <1>5, <2>1 DEF Overhang, w
    <3> QED
      BY <1>4, <3>1, <3>2 DEF NewX
  <2>3. \A i \in Mask(n) : lo + i \notin Mask(w)
    BY <1>0, <1>1, <1>5 DEF Mask
  <2>4. f = [i \in Mask(n) |-> "x"]
    BY <1>a, <2>3
  <2> QED
    BY <1>0, <1>1, <2>2, <2>4, FilledShows DEF v, n
<1>6. CASE ~(lo >= w)
  <2> DEFINE beyond == {i \in Mask(n) : lo + i >= w}
             val == r.val \ beyond
             xz == r.xz \cup beyond
  <2>1. lo < w
    BY <1>1, <1>6
  <2>2. v = [r EXCEPT !.val = val, !.xz = xz]
    BY <1>3, <1>4, <1>6, <2>1 DEF Overhang, w
  <2>3. r = [val |-> r.val, xz |-> r.xz, width |-> n, is_signed |-> r.is_signed, is_fill |-> r.is_fill]
        /\ r.is_fill = FALSE /\ r.val \subseteq Mask(n) /\ r.xz \subseteq Mask(n)
    BY <1>4, ReadyFacts, CanonFacts
  <2> HIDE DEF val, xz
  <2>4. v = Plain(val, xz, n, FALSE)
    BY <1>4, <2>2, <2>3 DEF Plain
  <2>5. val \subseteq Mask(n) /\ xz \subseteq Mask(n)
    BY <2>3 DEF val, xz
  <2>6. ASSUME NEW i \in Mask(n)
        PROVE  f[i] \in LogicBit /\ (i \in val <=> f[i] \in {"1", "z"}) /\ (i \in xz <=> f[i] \in {"x", "z"})
    <3> DEFINE p == PlaneBit(a.val, a.xz, lo + i)
    <3>1. PlaneBit(r.val, r.xz, i) = p
      BY <1>4
    <3>2. p \in LogicBit /\ (i \in r.val <=> p \in {"1", "z"}) /\ (i \in r.xz <=> p \in {"x", "z"})
      BY <3>1, BitFacts
    <3>3. lo + i \in Mask(w) <=> ~(lo + i >= w)
      BY <1>0, <1>1 DEF Mask
    <3>4. f[i] = IF lo + i >= w THEN "x" ELSE p
      BY <1>a, <3>3
    <3>5. (i \in val <=> i \in r.val /\ ~(lo + i >= w)) /\ (i \in xz <=> i \in r.xz \/ lo + i >= w)
      BY DEF val, xz
    <3> HIDE DEF p
    <3> QED
      BY <1>1, <3>2, <3>4, <3>5
  <2>7. n \in Nat
    BY <1>0
  <2> HIDE DEF beyond
  <2>8. Shows(v, n, FALSE, f)
    BY <1>1, <2>4, <2>5, <2>6, <2>7, PlainShows
  <2> QED
    BY <2>8 DEF v, n
<1> QED
  BY <1>5, <1>6

\* range_select is the select of the language.
LEMMA RangeSelectFacts ==
  ASSUME NEW a, Ready(a), NEW hi \in Int, NEW lo \in Nat, hi >= lo, hi - lo < MaxWidth
  PROVE  Agrees(RangeSelect(a, hi, lo), R!Select(Abstract(a), hi, lo))
<1> DEFINE n == hi - lo + 1
           f == SelectBits(a, hi, lo)
<1>1. n <= MaxWidth /\ R!MaxOf(n, 0) = n
  BY ValueAssumption DEF R!MaxOf
<1>2. f = [i \in Mask(n) |-> IF lo + i \in Mask(a.width) THEN PlaneBit(a.val, a.xz, lo + i) ELSE "x"]
  BY <1>1 DEF SelectBits
<1>3. Shows(RangeSelect(a, hi, lo), n, FALSE, f)
  BY <1>1, <1>2, RangeShows
<1>4. Shows(RangeSelect(a, hi, lo), R!MaxOf(hi - lo + 1, 0), FALSE, SelectBits(a, hi, lo))
  <2>1. R!MaxOf(hi - lo + 1, 0) = n
    BY <1>1
  <2> HIDE DEF n, f
  <2>2. Shows(RangeSelect(a, hi, lo), R!MaxOf(hi - lo + 1, 0), FALSE, f)
    BY <1>3, <2>1
  <2> QED
    BY <2>2 DEF f
<1>5. lo \in Int
  OBVIOUS
<1> QED
  BY <1>4, <1>5, SelectAgrees

\* Whether position i of the result is set, in a plane of a part of a value.
InPart(i, from, count, lo, src, dst) ==
  IF from <= lo + i /\ lo + i < from + count THEN lo + i \in src ELSE i \in dst

\* The part of a plane under a select, spliced into another.
PartOf(n, dst, d, src, inline, from, count) ==
  IF n <= W THEN CopyInline(dst, d, src, inline, from, Smaller(count, n - d))
  ELSE CopyChunks(dst, n, d, src, inline, from, count)

\* What that part is, by positions.
LEMMA PartFacts ==
  ASSUME NEW n \in Nat, NEW d \in Nat, NEW count \in Nat \ {0}, d + count <= n,
         NEW from \in Nat, NEW lo \in Int, d + lo = from,
         NEW src \in SUBSET Nat, NEW inline \in BOOLEAN, inline => src \subseteq 0 .. W-1,
         NEW dst, dst \subseteq Mask(n)
  PROVE  PartOf(n, dst, d, src, inline, from, count) = {i \in Mask(n) : InPart(i, from, count, lo, src, dst)}
<1> DEFINE part == PartOf(n, dst, d, src, inline, from, count)
<1>0. part = IF n <= W THEN CopyInline(dst, d, src, inline, from, Smaller(count, n - d))
             ELSE CopyChunks(dst, n, d, src, inline, from, count)
  BY DEF PartOf
<1> HIDE DEF part
<1>1. Smaller(count, n - d) = count /\ W \in Nat
  BY ValueAssumption DEF Smaller
<1>2. Mask(n) \subseteq Nat /\ dst \in SUBSET Nat
  BY DEF Mask
<1>3. part = Spliced(dst, d, src, from, count)
  <2>1. CASE n <= W
    <3>1. d + count <= W
      BY <1>1, <2>1
    <3>2. part = CopyInline(dst, d, src, inline, from, count)
      BY <1>0, <1>1, <2>1
    <3> QED
      BY <1>2, <3>1, <3>2, CopyInlineFacts
  <2>2. CASE ~(n <= W)
    <3>1. part = CopyChunks(dst, n, d, src, inline, from, count) /\ count \in Nat
      BY <1>0, <2>2
    <3> QED
      BY <1>2, <3>1, CopyChunksFacts
  <2> QED
    BY <2>1, <2>2
<1>4. part = {i \in Nat : IF d <= i /\ i < d + count THEN from + (i - d) \in src ELSE i \in dst}
  BY <1>3 DEF Spliced
<1>5. \A i \in Nat : d <= i /\ i < d + count => i \in Mask(n)
  BY DEF Mask
<1>6. part \subseteq Mask(n)
  BY <1>4, <1>5
<1>7. ASSUME NEW i \in Mask(n)
      PROVE  i \in part <=> InPart(i, from, count, lo, src, dst)
  <2>1. i \in Nat /\ from + (i - d) = lo + i /\ (d <= i <=> from <= lo + i)
          /\ (i < d + count <=> lo + i < from + count)
    BY <1>2
  <2>2. i \in part <=> IF d <= i /\ i < d + count THEN from + (i - d) \in src ELSE i \in dst
    BY <1>4, <2>1
  <2> QED
    BY <2>1, <2>2 DEF InPart
<1>8. part = {i \in Mask(n) : InPart(i, from, count, lo, src, dst)}
  BY <1>6, <1>7
<1> QED
  BY <1>8 DEF part

\* range_select_signed, whose bounds may be negative, is the select of the
\* language.
LEMMA SignedSelectFacts ==
  ASSUME NEW a, Ready(a), NEW hi \in Int, NEW lo \in Int, hi - lo < MaxWidth
  PROVE  Agrees(RangeSelectSigned(a, hi, lo), R!Select(Abstract(a), hi, lo))
<1> DEFINE v == RangeSelectSigned(a, hi, lo)
           span == hi - lo + 1
           n == R!MaxOf(span, 0)
           f == SelectBits(a, hi, lo)
           w == a.width
           from == Larger(lo, 0)
           to == Smaller(hi, w - 1)
           count == to - from + 1
           d == from - lo
           Part(dst, src) ==
             IF span <= W THEN CopyInline(dst, d, src, IsInline(a), from, Smaller(count, span - d))
             ELSE CopyChunks(dst, span, d, src, IsInline(a), from, count)
           width == IF span > MaxWidth THEN Larger(w, 1) ELSE span
           Part0(dst, src) ==
             IF width <= W THEN CopyInline(dst, d, src, IsInline(a), from, Smaller(count, width - d))
             ELSE CopyChunks(dst, width, d, src, IsInline(a), from, count)
           Spliced0 == IF from > to \/ d >= width THEN NewX(width)
                       ELSE Plain(Part0({}, a.val), Part0(NewX(width).xz, a.xz), width, FALSE)
<1>1. w \in Nat /\ a.is_fill = FALSE /\ Canon(a)
  BY ReadyFacts
<1>2. span \in Int /\ span <= MaxWidth /\ ~(span > MaxWidth) /\ MaxWidth \in Nat
  BY ValueAssumption
<1>3. f = [i \in Mask(n) |-> IF lo + i \in Mask(w) THEN PlaneBit(a.val, a.xz, lo + i) ELSE "x"]
  BY DEF SelectBits
<1>4. FALSE \in BOOLEAN /\ "x" \in LogicBit /\ "0" \in LogicBit
  BY DEF LogicBit
<1>9. v = CASE span <= 0 -> Zero(0)
            [] span > 0 /\ a.is_fill -> FillAt(a, width)
            [] span > 0 /\ ~a.is_fill /\ lo >= 0 /\ hi < w -> RangeSelect(a, hi, lo)
            [] span > 0 /\ ~a.is_fill /\ ~(lo >= 0 /\ hi < w) -> Spliced0
  BY Zenon DEF RangeSelectSigned
<1> HIDE DEF v
<1>5. ASSUME span <= 0 PROVE Shows(v, n, FALSE, f)
  <2>1. v = Zero(0)
    <3>1. ~(span > 0)
      BY <1>5
    <3> QED
      BY <1>5, <1>9, <3>1
  <2>2. n = 0 /\ Mask(0) = {}
    BY <1>5 DEF R!MaxOf, Mask
  <2>3. CapWidth(0) = 0 /\ 0 \in Nat
    BY <1>2, CapFacts
  <2>4. v = Filled(0, "0")
    BY <2>1, <2>3 DEF Zero
  <2> DEFINE g == [i \in Mask(0) |-> "0"]
  <2> HIDE DEF v, n, f
  <2>5. Shows(v, 0, FALSE, g)
    BY <1>4, <2>3, <2>4, FilledShows
  <2> QED
    BY <2>2, <2>5 DEF Shows
<1>6. ASSUME ~(span <= 0), lo >= 0 /\ hi < w PROVE Agrees(v, R!Select(Abstract(a), hi, lo))
  <2>1. v = RangeSelect(a, hi, lo)
    <3>1. span > 0
      BY <1>6
    <3> QED
      BY <1>1, <1>6, <1>9, <3>1
  <2>2. lo \in Nat /\ hi >= lo
    BY <1>6
  <2> QED
    BY <2>1, <2>2, RangeSelectFacts
<1>7. ASSUME ~(span <= 0), ~(lo >= 0 /\ hi < w) PROVE Shows(v, n, FALSE, f)
  <2>1. v = IF from > to \/ d >= span THEN NewX(span)
            ELSE Plain(Part({}, a.val), Part(NewX(span).xz, a.xz), span, FALSE)
    <3>1. span > 0
      BY <1>7
    <3>2. v = Spliced0
      BY <1>1, <1>7, <1>9, <3>1
    <3>3. width = span
      BY <1>2
    <3> HIDE DEF v, span, from, to, w, width, count, d
    <3> QED
      BY <3>2, <3>3
  <2>2. n = span /\ span \in Nat \ {0}
    BY <1>7 DEF R!MaxOf
  <2>3. from \in Nat /\ to \in Int /\ d \in Nat /\ (lo < 0 => d = -lo /\ from = 0) /\ (lo >= 0 => d = 0 /\ from = lo)
        /\ to <= hi /\ to <= w - 1 /\ (to = hi \/ to = w - 1)
    BY <1>1 DEF Larger, Smaller
  <2> HIDE DEF v, f, from, to, w, n
  <2>4. \A i \in Mask(n) : /\ i \in Nat /\ i < span
                           /\ lo + i \in Mask(w) <=> from <= lo + i /\ lo + i <= to
    <3> SUFFICES ASSUME NEW i \in Mask(n)
                 PROVE  i \in Nat /\ i < span /\ (lo + i \in Mask(w) <=> from <= lo + i /\ lo + i <= to)
      OBVIOUS
    <3>1. i \in Nat /\ i < span
      BY <2>2 DEF Mask
    <3>2. lo + i \in Mask(w) <=> 0 <= lo + i /\ lo + i <= w - 1
      BY <1>1, <3>1 DEF Mask
    <3>3. lo + i <= hi /\ lo <= lo + i
      BY <3>1
    <3> QED
      BY <1>1, <2>3, <3>1, <3>2, <3>3
  <2>5. NewX(span) = Filled(span, "x")
    BY <1>2, <2>2, CapFacts DEF NewX
  <2>6. CASE from > to \/ d >= span
    <3>1. v = Filled(n, "x")
      BY <2>1, <2>2, <2>5, <2>6
    <3>2. \A i \in Mask(n) : lo + i \notin Mask(w)
      BY <2>3, <2>4, <2>6
    <3>3. f = [i \in Mask(n) |-> "x"]
      BY <1>3, <3>2
    <3> QED
      BY <1>4, <2>2, <3>1, <3>3, FilledShows
  <2>7. CASE ~(from > to \/ d >= span)
    <3> DEFINE full == Mask(span)
               val == Part({}, a.val)
               xz == Part(full, a.xz)
    <3>1. NewX(span).xz = full
      BY <2>2, <2>5, FilledFacts DEF Plain
    <3>2. v = Plain(val, xz, n, FALSE)
      BY <2>1, <2>2, <2>7, <3>1
    <3>3. count \in Nat \ {0} /\ d + count <= span /\ from + count = to + 1
      BY <2>3, <2>7
    <3>4. a.val \in SUBSET Nat /\ a.xz \in SUBSET Nat /\ IsInline(a) \in BOOLEAN
          /\ (IsInline(a) => a.val \subseteq 0 .. W-1 /\ a.xz \subseteq 0 .. W-1)
      BY <1>1, CanonFacts
    <3>5. ASSUME NEW dst, dst \subseteq full, NEW src \in SUBSET Nat, IsInline(a) => src \subseteq 0 .. W-1
          PROVE  Part(dst, src) \subseteq full /\ \A i \in full :
                   i \in Part(dst, src) <=> InPart(i, from, count, lo, src, dst)
      <4>1. d + lo = from
        BY <2>3
      <4> HIDE DEF d, count
      <4>2. Part(dst, src) = IF span <= W THEN CopyInline(dst, d, src, IsInline(a), from, Smaller(count, span - d))
                             ELSE CopyChunks(dst, span, d, src, IsInline(a), from, count)
        OBVIOUS
      <4>3. span \in Nat /\ d \in Nat /\ from \in Nat /\ count \in Nat \ {0} /\ d + count <= span
        BY <2>2, <2>3, <3>3
      <4> DEFINE part == Part(dst, src)
      <4>4. part = IF span <= W THEN CopyInline(dst, d, src, IsInline(a), from, Smaller(count, span - d))
                   ELSE CopyChunks(dst, span, d, src, IsInline(a), from, count)
        BY <4>2
      <4>6. dst \subseteq Mask(span) /\ lo \in Int /\ src \in SUBSET Nat
        BY <3>5
      <4> DEFINE inl == IsInline(a)
      <4>7. inl \in BOOLEAN /\ (inl => src \subseteq 0 .. W-1)
        BY <3>4, <3>5
      <4>8. part = PartOf(span, dst, d, src, inl, from, count)
        BY <4>4 DEF PartOf
      <4> HIDE DEF span, part, inl
      <4>5. part = {i \in Mask(span) : InPart(i, from, count, lo, src, dst)}
        BY <4>1, <4>3, <4>6, <4>7, <4>8, PartFacts
      <4> QED
        BY <4>5 DEF part
    <3>6. /\ val \subseteq full /\ \A i \in full : i \in val <=> from <= lo + i /\ lo + i < from + count
               /\ lo + i \in a.val
          /\ xz \subseteq full /\ \A i \in full : i \in xz <=>
               (from <= lo + i /\ lo + i < from + count => lo + i \in a.xz)
      <4>1. {} \subseteq full /\ full \subseteq full
        OBVIOUS
      <4> HIDE DEF Part, full, count
      <4> QED
        BY <3>4, <3>5, <4>1 DEF InPart
    <3> HIDE DEF val, xz
    <3>7. full = Mask(n) /\ \A i \in Mask(n) : lo + i \in Mask(w) <=> from <= lo + i /\ lo + i < from + count
      BY <2>2, <2>3, <2>4, <3>3
    <3>8. ASSUME NEW i \in Mask(n)
          PROVE  f[i] \in LogicBit /\ (i \in val <=> f[i] \in {"1", "z"}) /\ (i \in xz <=> f[i] \in {"x", "z"})
      <4> DEFINE p == PlaneBit(a.val, a.xz, lo + i)
      <4>1. f[i] = IF lo + i \in Mask(w) THEN p ELSE "x"
        BY <1>3
      <4>2. p \in LogicBit /\ (lo + i \in a.val <=> p \in {"1", "z"}) /\ (lo + i \in a.xz <=> p \in {"x", "z"})
        BY BitFacts
      <4>3. (i \in val <=> lo + i \in Mask(w) /\ lo + i \in a.val)
              /\ (i \in xz <=> (lo + i \in Mask(w) => lo + i \in a.xz))
        BY <3>6, <3>7
      <4> HIDE DEF p
      <4> QED
        BY <1>4, <4>1, <4>2, <4>3
    <3>9. n \in Nat /\ val \subseteq Mask(n) /\ xz \subseteq Mask(n)
      BY <2>2, <3>6, <3>7
    <3> HIDE DEF full, count, d, span
    <3> QED
      BY <1>4, <3>2, <3>8, <3>9, PlainShows
  <2> QED
    BY <2>6, <2>7
<1>8. ASSUME Shows(v, n, FALSE, f) PROVE Agrees(v, R!Select(Abstract(a), hi, lo))
  <2>1. Shows(v, R!MaxOf(hi - lo + 1, 0), FALSE, SelectBits(a, hi, lo))
    BY <1>8
  <2> HIDE DEF v
  <2> QED
    BY <2>1, SelectAgrees
<1> QED
  BY <1>5, <1>6, <1>7, <1>8 DEF v

-----------------------------------------------------------------------------
(* Concatenation *)

\* A plane laid above another one of `low` bits.
Joined(above, below, low) == {i \in Nat : IF i < low THEN i \in below ELSE i - low \in above}

\* The two ways planes are joined: in numbers, and by splicing.
LEMMA JoinFacts ==
  ASSUME NEW high \in Nat, NEW low \in Nat, NEW above, above \subseteq Mask(high), NEW below,
           below \subseteq Mask(low)
  PROVE  /\ below \cup {i + low : i \in above} = Joined(above, below, low)
         /\ Spliced(Spliced({}, 0, below, 0, low), low, above, 0, high) = Joined(above, below, low)
         /\ Joined(above, below, low) \subseteq Mask(high + low)
<1>1. above \subseteq Nat /\ below \subseteq Nat /\ (\A i \in below : i < low) /\ (\A i \in above : i < high)
  BY DEF Mask
<1>2. ASSUME NEW i \in Nat PROVE i \in Joined(above, below, low) <=> IF i < low THEN i \in below
        ELSE i - low \in above
  BY DEF Joined
<1>3. below \cup {i + low : i \in above} = Joined(above, below, low)
  <2>1. ASSUME NEW i \in below PROVE i \in Joined(above, below, low)
    BY <1>1, <1>2
  <2>2. ASSUME NEW i \in above PROVE i + low \in Joined(above, below, low)
    <3>1. i + low \in Nat /\ ~(i + low < low) /\ (i + low) - low = i
      BY <1>1
    <3> QED
      BY <1>2, <3>1
  <2>3. ASSUME NEW i \in Joined(above, below, low) PROVE i \in below \cup {j + low : j \in above}
    <3>1. i \in Nat
      BY DEF Joined
    <3>2. CASE i < low
      BY <1>2, <3>1, <3>2
    <3>3. CASE ~(i < low)
      <4>1. i - low \in above /\ i = (i - low) + low
        BY <1>2, <3>1, <3>3
      <4> QED
        BY <4>1
    <3> QED
      BY <3>2, <3>3
  <2> QED
    BY <2>1, <2>2, <2>3
<1>4. Spliced(Spliced({}, 0, below, 0, low), low, above, 0, high) = Joined(above, below, low)
  <2> DEFINE inner == Spliced({}, 0, below, 0, low)
  <2>1. inner = {i \in Nat : IF 0 <= i /\ i < 0 + low THEN 0 + (i - 0) \in below ELSE i \in {}}
    BY DEF Spliced
  <2>2. \A i \in Nat : i \in inner <=> i < low /\ i \in below
    <3> SUFFICES ASSUME NEW i \in Nat PROVE i \in inner <=> i < low /\ i \in below
      OBVIOUS
    <3>1. 0 + (i - 0) = i /\ 0 <= i /\ 0 + low = low
      OBVIOUS
    <3> HIDE DEF inner
    <3> QED
      BY <2>1, <3>1
  <2> HIDE DEF inner
  <2>3. Spliced(inner, low, above, 0, high) =
          {i \in Nat : IF low <= i /\ i < low + high THEN 0 + (i - low) \in above ELSE i \in inner}
    BY DEF Spliced
  <2>4. ASSUME NEW i \in Nat
        PROVE  (IF low <= i /\ i < low + high THEN 0 + (i - low) \in above ELSE i \in inner) <=>
               i \in Joined(above, below, low)
    <3>1. CASE i < low
      BY <1>2, <2>2, <3>1
    <3>2. CASE ~(i < low) /\ i < low + high
      <4>1. low <= i /\ 0 + (i - low) = i - low
        BY <3>2
      <4> QED
        BY <1>2, <3>2, <4>1
    <3>3. CASE ~(i < low) /\ ~(i < low + high)
      <4>1. i - low \notin above
        BY <1>1, <3>3
      <4> QED
        BY <1>2, <2>2, <3>3, <4>1
    <3> QED
      BY <3>1, <3>2, <3>3
  <2>5. Joined(above, below, low) \subseteq Nat
    BY DEF Joined
  <2> QED
    BY <2>3, <2>4, <2>5 DEF inner
<1>5. ASSUME NEW i \in Joined(above, below, low) PROVE i \in Mask(high + low)
  <2>1. i \in Nat
    BY DEF Joined
  <2>2. i < high + low
    BY <1>1, <1>2, <2>1
  <2> QED
    BY <2>1, <2>2 DEF Mask
<1> QED
  BY <1>3, <1>4, <1>5

\* The width of a concatenation.
LEMMA ConcatWidth ==
  ASSUME NEW a, NEW b, a.width \in Nat, b.width \in Nat
  PROVE  /\ Concat(a, b).width = CapWidth(a.width + b.width) /\ Concat(a, b).width \in Nat
         /\ Concat(a, b).width <= Widest => Concat(a, b).width = a.width + b.width
<1> DEFINE total == a.width + b.width
           v == Concat(a, b)
<1>1. total \in Nat /\ W \in Nat \ {0} /\ MaxWidth \in Nat /\ MaxWidth > 2 * W
  BY ValueAssumption
<1>2. v.width = total \/ v.width = CapWidth(total)
  <2>1. CASE total <= W
    <3>1. ~(total > W) /\ ~(total > 2 * W)
      BY <1>1, <2>1
    <3> QED
      BY <2>1, <3>1 DEF Concat, Plain
  <2>2. CASE total > W /\ total <= 2 * W
    <3>1. ~(total <= W) /\ ~(total > 2 * W)
      BY <1>1, <2>2
    <3> QED
      BY <2>2, <3>1 DEF Concat, Plain
  <2>3. CASE total > 2 * W
    <3>1. ~(total <= W) /\ ~(total <= 2 * W)
      BY <1>1, <2>3
    <3> QED
      BY <2>3, <3>1 DEF Concat, Plain
  <2> QED
    BY <1>1, <2>1, <2>2, <2>3
<1>3. v.width = CapWidth(total)
  <2>1. CASE total <= 2 * W
    <3>1. total <= MaxWidth
      BY <1>1, <2>1
    <3> QED
      BY <1>1, <1>2, <3>1, CapFacts
  <2>2. CASE ~(total <= 2 * W)
    <3>1. ~(total <= W) /\ ~(total <= 2 * W) /\ total > 2 * W
      BY <1>1, <2>2
    <3> QED
      BY <2>2, <3>1 DEF Concat, Plain
  <2> QED
    BY <2>1, <2>2
<1> HIDE DEF v, total
<1>4. v.width \in Nat /\ (v.width <= Widest => v.width = total)
  BY <1>1, <1>3, CapFacts
<1> QED
  BY <1>3, <1>4 DEF v, total

\* concat joins two operands, literals of one bit included.
LEMMA ConcatFacts ==
  ASSUME NEW a, Canon(a), NEW b, Canon(b), Concat(a, b).width <= Widest
  PROVE  Agrees(Concat(a, b), R!Concat(Abstract(a), Abstract(b)))
<1> DEFINE v == Concat(a, b)
           high == a.width
           low == b.width
           n == a.width + b.width
           val == Joined(a.val, b.val, low)
           xz == Joined(a.xz, b.xz, low)
           A == Abstract(a)
           C == Abstract(b)
           f == [i \in Mask(n) |-> IF i < low THEN C.bit[i] ELSE A.bit[i - low]]
<1>1. /\ high \in Nat /\ a.val \in SUBSET Nat /\ a.xz \in SUBSET Nat /\ a.val \subseteq Mask(high)
           /\ a.xz \subseteq Mask(high)
      /\ IsInline(a) \in BOOLEAN /\ (IsInline(a) => a.val \subseteq 0 .. W-1 /\ a.xz \subseteq 0 .. W-1)
  BY CanonFacts
<1>2. /\ low \in Nat /\ b.val \in SUBSET Nat /\ b.xz \in SUBSET Nat /\ b.val \subseteq Mask(low)
           /\ b.xz \subseteq Mask(low)
      /\ IsInline(b) \in BOOLEAN /\ (IsInline(b) => b.val \subseteq 0 .. W-1 /\ b.xz \subseteq 0 .. W-1)
  BY CanonFacts
<1>3. n \in Nat /\ W \in Nat \ {0} /\ FALSE \in BOOLEAN /\ CapWidth(n) = n
  <2>1. n \in Nat
    BY <1>1, <1>2
  <2>2. v.width = CapWidth(n) /\ v.width = n
    BY <1>1, <1>2, ConcatWidth
  <2> HIDE DEF v, n
  <2> QED
    BY <2>1, <2>2, ValueAssumption
<1>4. v = Plain(val, xz, n, FALSE)
  <2>1. CASE n <= 2 * W
    <3> DEFINE Up(plane) == {i + low : i \in plane}
    <3>1. v = Plain(b.val \cup Up(a.val), b.xz \cup Up(a.xz), n, FALSE)
      <4>1. b.val \cap Mask(low) = b.val /\ b.xz \cap Mask(low) = b.xz /\ a.val \cap Mask(high) = a.val
              /\ a.xz \cap Mask(high) = a.xz
        BY <1>1, <1>2
      <4>2. CASE n <= W
        <5>1. ~(n > W) /\ ~(n > 2 * W)
          BY <1>3, <4>2
        <5>2. v = Plain((b.val \cap Mask(low)) \cup Up(a.val \cap Mask(high)),
                (b.xz \cap Mask(low)) \cup Up(a.xz \cap Mask(high)), n, FALSE)
          BY <4>2, <5>1 DEF Concat
        <5> HIDE DEF v, Up
        <5> QED
          BY <4>1, <5>2
      <4>3. CASE ~(n <= W)
        <5>1. n > W /\ ~(n > 2 * W)
          BY <1>3, <2>1, <4>3
        <5>2. v = Plain(Bits128(b.val, low) \cup Up(Bits128(a.val, high)),
                Bits128(b.xz, low) \cup Up(Bits128(a.xz, high)), n, FALSE)
          BY <2>1, <4>3, <5>1 DEF Concat
        <5>3. Smaller(low, 2 * W) = low /\ Smaller(high, 2 * W) = high
          BY <1>1, <1>2, <1>3, <2>1 DEF Smaller
        <5> HIDE DEF v, Up
        <5> QED
          BY <4>1, <5>2, <5>3 DEF Bits128
      <4> QED
        BY <4>2, <4>3
    <3>2. b.val \cup Up(a.val) = val /\ b.xz \cup Up(a.xz) = xz
      BY <1>1, <1>2, JoinFacts
    <3> HIDE DEF Up, v, val, xz
    <3> QED
      BY <3>1, <3>2
  <2>2. CASE ~(n <= 2 * W)
    <3> DEFINE Splices(below, above) ==
                 CopyChunks(CopyChunks({}, n, 0, below, IsInline(b), 0, low), n, low, above, IsInline(a), 0, high)
    <3>1. ~(n <= W) /\ n > 2 * W
      BY <1>3, <2>2
    <3>2. Smaller(high, n - low) = high
      BY <1>1, <1>2 DEF Smaller
    <3>3. v = Plain(Splices(b.val, a.val), Splices(b.xz, a.xz), n, FALSE)
      BY <1>3, <2>2, <3>1, <3>2 DEF Concat
    <3>4. ASSUME NEW above \in SUBSET Nat, above \subseteq Mask(high), IsInline(a) => above \subseteq 0 .. W-1,
                 NEW below \in SUBSET Nat, below \subseteq Mask(low), IsInline(b) => below \subseteq 0 .. W-1
          PROVE  Splices(below, above) = Joined(above, below, low)
      <4> DEFINE inner == CopyChunks({}, n, 0, below, IsInline(b), 0, low)
      <4>1. {} \in SUBSET Nat /\ 0 \in Nat /\ 0 + low <= n /\ low + high <= n
        BY <1>1, <1>2
      <4>2. inner = Spliced({}, 0, below, 0, low)
        BY <1>2, <1>3, <3>4, <4>1, CopyChunksFacts
      <4>3. inner \in SUBSET Nat
        BY <4>2 DEF Spliced
      <4> HIDE DEF inner, n
      <4>4. CopyChunks(inner, n, low, above, IsInline(a), 0, high) = Spliced(inner, low, above, 0, high)
        BY <1>1, <1>2, <1>3, <3>4, <4>1, <4>3, CopyChunksFacts
      <4>5. Splices(below, above) = CopyChunks(inner, n, low, above, IsInline(a), 0, high)
        BY DEF inner
      <4>6. Spliced(inner, low, above, 0, high) = Joined(above, below, low)
        <5>1. Spliced(Spliced({}, 0, below, 0, low), low, above, 0, high) = Joined(above, below, low)
          BY <1>1, <1>2, <3>4, JoinFacts
        <5> QED
          BY <4>2, <5>1
      <4> HIDE DEF Splices
      <4> QED
        BY <4>4, <4>5, <4>6
    <3> HIDE DEF Splices
    <3>5. Splices(b.val, a.val) = val /\ Splices(b.xz, a.xz) = xz
      BY <1>1, <1>2, <3>4
    <3> HIDE DEF v, val, xz
    <3> QED
      BY <3>3, <3>5
  <2> QED
    BY <2>1, <2>2
<1>5. val \subseteq Mask(n) /\ xz \subseteq Mask(n)
  BY <1>1, <1>2, JoinFacts
<1>6. R!Concat(A, C) = Bits(n, FALSE, f)
  <2>1. A.width = high /\ C.width = low /\ R!Positions(n) = Mask(n)
    BY AbstractFacts DEF R!Positions, Mask
  <2> HIDE DEF A, C, high, low
  <2> QED
    BY <2>1 DEF R!Concat, R!Vector, Bits, high, low
<1>7. ASSUME NEW i \in Mask(n)
      PROVE  f[i] \in LogicBit /\ (i \in val <=> f[i] \in {"1", "z"}) /\ (i \in xz <=> f[i] \in {"x", "z"})
  <2>1. i \in Nat /\ (i < low => i \in Mask(low)) /\ (~(i < low) => i - low \in Mask(high))
    BY <1>1, <1>2 DEF Mask
  <2>2. (i < low => C.bit[i] = PlaneBit(b.val, b.xz, i))
          /\ (~(i < low) => A.bit[i - low] = PlaneBit(a.val, a.xz, i - low))
    BY <2>1, AbstractFacts
  <2>3. f[i] = IF i < low THEN PlaneBit(b.val, b.xz, i) ELSE PlaneBit(a.val, a.xz, i - low)
    BY <2>2
  <2>4. /\ i \in val <=> IF i < low THEN i \in b.val ELSE i - low \in a.val
        /\ i \in xz <=> IF i < low THEN i \in b.xz ELSE i - low \in a.xz
    BY <2>1 DEF Joined
  <2> HIDE DEF f, val, xz
  <2>5. CASE i < low
    BY <2>3, <2>4, <2>5, BitFacts
  <2>6. CASE ~(i < low)
    BY <2>3, <2>4, <2>6, BitFacts
  <2> QED
    BY <2>5, <2>6
<1>8. f = [i \in Mask(n) |-> f[i]]
  OBVIOUS
<1> HIDE DEF v, f, val, xz, n, A, C
<1>9. Shows(v, n, FALSE, f)
  BY <1>3, <1>4, <1>5, <1>7, PlainShows
<1>10. Agrees(v, Bits(n, FALSE, f))
  BY <1>8, <1>9, ShowsFacts
<1> QED
  BY <1>6, <1>10 DEF v, A, C

-----------------------------------------------------------------------------
(* Width changes *)

\* A bit of a value extended by its sign, or by 0.
LEMMA ExtendFacts ==
  ASSUME NEW a, Ready(a), NEW sext \in BOOLEAN, NEW i \in Nat
  PROVE  R!ExtBit(Abstract(a), sext, i) = IF i < a.width \/ ~sext THEN PlaneBit(a.val, a.xz, i) ELSE TopBit(a)
<1>1. a.width \in Nat /\ Abstract(a).width = a.width /\ R!Top(Abstract(a)) = TopBit(a)
  BY ReadyFacts, TopFacts, AbstractFacts
<1>2. R!ExtBit(Abstract(a), FALSE, i) = PlaneBit(a.val, a.xz, i)
  BY ExtBitFacts
<1>3. CASE i < a.width
  <2>1. R!ExtBit(Abstract(a), sext, i) = R!ExtBit(Abstract(a), FALSE, i)
    BY <1>1, <1>3 DEF R!ExtBit
  <2> QED
    BY <1>2, <1>3, <2>1
<1>4. CASE ~(i < a.width) /\ sext
  BY <1>1, <1>4 DEF R!ExtBit
<1>5. CASE ~(i < a.width) /\ ~sext
  <2>1. sext = FALSE
    BY <1>5
  <2> QED
    BY <1>2, <1>5, <2>1
<1> QED
  BY <1>3, <1>4, <1>5

\* A value at another width, its bits above those of a being `top`.
Stretched(a, n, top) == [i \in Mask(n) |-> IF i < a.width THEN PlaneBit(a.val, a.xz, i) ELSE top]

\* resize, for a target of some width.
LEMMA ResizeShows ==
  ASSUME NEW a, Ready(a), NEW n \in Nat \ {0}
  PROVE  Shows(Resize(a, n), n, a.is_signed, Stretched(a, n, IF a.is_signed /\ TopBit(a) = "1" THEN "1" ELSE "0"))
<1> DEFINE w == a.width
           sgn == a.is_signed /\ TopBit(a) = "1"
           top == IF sgn THEN "1" ELSE "0"
           f == Stretched(a, n, top)
           v == Resize(a, n)
<1>1. w \in Nat /\ a.is_signed \in BOOLEAN /\ a.is_fill = FALSE /\ W \in Nat \ {0} /\ a.val \in SUBSET Nat
        /\ a.xz \in SUBSET Nat
      /\ a.val \subseteq Mask(w) /\ a.xz \subseteq Mask(w) /\ (IsInline(a) <=> w <= W) /\ Canon(a)
  BY ReadyFacts, ValueAssumption
<1>2. n # 0 /\ n \in Nat /\ Mask(n) \subseteq Nat
  BY DEF Mask
<1>3. top \in {"0", "1"} /\ top \in LogicBit
  BY DEF LogicBit
<1>4. \A i \in Mask(n) : f[i] = IF i < w THEN PlaneBit(a.val, a.xz, i) ELSE top
  BY DEF Stretched
<1>5. CASE IsInline(a) /\ n <= W
  <2> DEFINE val == IF n < w THEN a.val \cap Mask(n) ELSE IF sgn THEN a.val \cup (Mask(n) \ Mask(w)) ELSE a.val
             xz == IF n < w THEN a.xz \cap Mask(n) ELSE a.xz
  <2>1. v = Plain(val, xz, n, a.is_signed)
    <3>1. v = ResizeInline(a, n)
      BY <1>1, <1>2, <1>5 DEF Resize
    <3> QED
      BY <3>1 DEF ResizeInline
  <2>2. \A i \in Mask(n) : i \in Mask(w) <=> i < w
    BY <1>1, <1>2 DEF Mask
  <2>3. val \subseteq Mask(n) /\ xz \subseteq Mask(n)
    <3>1. ~(n < w) => Mask(w) \subseteq Mask(n)
      BY <1>1, <1>2 DEF Mask
    <3> QED
      BY <1>1, <3>1
  <2>4. ASSUME NEW i \in Mask(n)
        PROVE  f[i] \in LogicBit /\ (i \in val <=> f[i] \in {"1", "z"}) /\ (i \in xz <=> f[i] \in {"x", "z"})
    <3> DEFINE p == PlaneBit(a.val, a.xz, i)
    <3>1. f[i] = IF i < w THEN p ELSE top
      BY <1>4
    <3>2. p \in LogicBit /\ (i \in a.val <=> p \in {"1", "z"}) /\ (i \in a.xz <=> p \in {"x", "z"})
      BY BitFacts
    <3>3. i \notin Mask(w) => i \notin a.val /\ i \notin a.xz
      BY <1>1
    <3>4. n < w => i < w
      BY <1>1, <1>2 DEF Mask
    <3>5. (i \in val <=> i \in a.val \/ (sgn /\ ~(i < w))) /\ (i \in xz <=> i \in a.xz)
      BY <2>2, <3>4
    <3>6. top = "1" <=> sgn
      OBVIOUS
    <3> HIDE DEF p, f, val, xz, sgn, top
    <3>7. CASE i < w
      BY <3>1, <3>2, <3>5, <3>7
    <3>8. CASE ~(i < w)
      BY <1>3, <2>2, <3>1, <3>3, <3>5, <3>6, <3>8
    <3> QED
      BY <3>7, <3>8
  <2> HIDE DEF f, val, xz, v, top
  <2> QED
    BY <1>1, <1>2, <2>1, <2>3, <2>4, PlainShows DEF v, f, top
<1>6. CASE ~(IsInline(a) /\ n <= W) /\ n = w
  <2>1. v = a
    BY <1>1, <1>2, <1>6 DEF Resize
  <2>2. \A i \in Mask(n) : f[i] = PlaneBit(a.val, a.xz, i)
    BY <1>1, <1>4, <1>6 DEF Mask
  <2> HIDE DEF f, v, top
  <2> QED
    BY <1>6, <2>1, <2>2 DEF Shows, v, f, top
<1>7. CASE ~(IsInline(a) /\ n <= W) /\ n # w
  <2> DEFINE z == [Filled(n, top) EXCEPT !.is_signed = a.is_signed]
             m == Smaller(w, n)
  <2>1. v = CopyBitsFrom(z, 0, a, 0, m)
    <3>1. v = ResizeCopy(a, n)
      BY <1>1, <1>2, <1>7 DEF Resize
    <3> QED
      BY <3>1 DEF ResizeCopy
  <2> HIDE DEF v, f, top
  <2>2. Shows(z, n, a.is_signed, [i \in Mask(n) |-> top])
    BY <1>1, <1>2, <1>3, FilledShows
  <2> HIDE DEF z
  <2>3. Ready(z) /\ z.width = n /\ z.is_signed = a.is_signed /\ \A i \in Mask(n) : PlaneBit(z.val, z.xz, i) = top
    BY <2>2 DEF Shows
  <2>4. m \in Nat /\ \A i \in Mask(n) : 0 + (i - 0) = i /\ (0 <= i /\ i < 0 + m /\ i < w <=> i < w)
    BY <1>1, <1>2 DEF Smaller, Mask
  <2> HIDE DEF m
  <2>5. \A i \in Mask(z.width) : f[i] = CopiedBit(z, 0, a, 0, m, i)
    <3> SUFFICES ASSUME NEW i \in Mask(n) PROVE f[i] = CopiedBit(z, 0, a, 0, m, i)
      BY <2>3
    <3> QED
      BY <1>4, <2>3, <2>4 DEF CopiedBit
  <2>6. 0 \in Nat
    OBVIOUS
  <2>7. Shows(v, z.width, z.is_signed, f)
    BY <1>1, <2>1, <2>3, <2>4, <2>5, <2>6, CopyShows
  <2> QED
    BY <2>3, <2>7 DEF v, f, top
<1> QED
  BY <1>5, <1>6, <1>7

\* What a width change should yield.
LEMMA StretchedFacts ==
  ASSUME NEW a, Ready(a), NEW n \in Nat \ {0}, NEW sext \in BOOLEAN
  PROVE  R!Vector(n, a.is_signed, LAMBDA i : R!ExtBit(Abstract(a), sext, i)) =
           Bits(n, a.is_signed, Stretched(a, n, IF sext THEN TopBit(a) ELSE "0"))
<1> DEFINE f == Stretched(a, n, IF sext THEN TopBit(a) ELSE "0")
           g == [i \in Mask(n) |-> R!ExtBit(Abstract(a), sext, i)]
<1>1. R!Positions(n) = Mask(n) /\ Mask(n) \subseteq Nat /\ a.width \in Nat /\ Canon(a) /\ a.is_fill = FALSE
  <2>1. R!Positions(n) = Mask(n) /\ Mask(n) \subseteq Nat
    BY DEF R!Positions, Mask
  <2> QED
    BY <2>1, ReadyFacts
<1>2. ASSUME NEW i \in Mask(n)
      PROVE  R!ExtBit(Abstract(a), sext, i) = IF i < a.width THEN PlaneBit(a.val, a.xz, i)
               ELSE IF sext THEN TopBit(a) ELSE "0"
  <2>1. i \in Nat
    BY <1>1
  <2>2. R!ExtBit(Abstract(a), sext, i) = IF i < a.width \/ ~sext THEN PlaneBit(a.val, a.xz, i) ELSE TopBit(a)
    BY <2>1, ExtendFacts
  <2>3. ~(i < a.width) => PlaneBit(a.val, a.xz, i) = "0"
    <3>1. ~(i < a.width) => i >= a.width
      BY <1>1, <2>1
    <3> QED
      BY <1>1, <2>1, <3>1, GetBitFacts
  <2> QED
    BY <2>2, <2>3
<1>3. g = f
  BY <1>2 DEF Stretched
<1> HIDE DEF f
<1>4. R!Vector(n, a.is_signed, LAMBDA i : R!ExtBit(Abstract(a), sext, i)) = Bits(n, a.is_signed, g)
  BY <1>1 DEF R!Vector, Bits
<1> QED
  BY <1>3, <1>4 DEF f

\* A resize to no width at all.
LEMMA ResizeNothing ==
  ASSUME NEW a, Ready(a)
  PROVE  Agrees(Resize(a, 0), R!All(0, "0"))
<1> DEFINE o == 0
           z == Filled(o, "0")
<1>1. Resize(a, o) = Zero(o)
  BY ReadyFacts DEF Resize
<1>2. o <= Widest /\ o \in Nat
  BY OpsAssumption
<1> HIDE DEF o
<1>3. Zero(o) = z /\ "0" \in LogicBit
  BY <1>2, NarrowFacts
<1>4. Canon(z) /\ z.is_fill = FALSE /\ Abstract(z) = R!All(o, "0")
  BY <1>2, <1>3, FilledValue
<1> HIDE DEF z
<1>5. Agrees(Resize(a, o), R!All(o, "0"))
  BY <1>1, <1>3, <1>4 DEF Agrees, Ready
<1> QED
  BY <1>5 DEF o

\* resize is the width change of an operand.
LEMMA ResizeFacts ==
  ASSUME NEW a, Ready(a), NEW n \in Nat
  PROVE  Agrees(Resize(a, n), R!Resize(Abstract(a), n))
<1> DEFINE A == Abstract(a)
           sgn == a.is_signed /\ TopBit(a) = "1"
           f == Stretched(a, n, IF sgn THEN "1" ELSE "0")
           v == Resize(a, n)
<1>1. A.is_fill = FALSE /\ A.is_signed = a.is_signed /\ R!Top(A) = TopBit(a) /\ a.is_signed \in BOOLEAN
  BY ReadyFacts, AbstractFacts, TopFacts
<1>2. CASE n = 0
  BY <1>1, <1>2, ResizeNothing DEF R!Resize
<1>3. CASE n # 0
  <2>1. R!Resize(A, n) = R!Vector(n, a.is_signed, LAMBDA i : R!ExtBit(A, sgn, i))
    BY <1>1, <1>3 DEF R!Resize
  <2>2. (IF sgn THEN TopBit(a) ELSE "0") = (IF sgn THEN "1" ELSE "0") /\ sgn \in BOOLEAN /\ n \in Nat \ {0}
    BY <1>1, <1>3
  <2>3. R!Vector(n, a.is_signed, LAMBDA i : R!ExtBit(A, sgn, i)) = Bits(n, a.is_signed, f)
    BY <2>2, StretchedFacts
  <2>4. Shows(v, n, a.is_signed, f)
    BY <2>2, ResizeShows
  <2>5. f = [i \in Mask(n) |-> f[i]]
    BY DEF Stretched
  <2> HIDE DEF f, v
  <2>6. Agrees(v, Bits(n, a.is_signed, f))
    BY <2>4, <2>5, ShowsFacts
  <2> QED
    BY <2>1, <2>3, <2>6 DEF v
<1> QED
  BY <1>2, <1>3

\* resize_for_assign is the width change of an assignment, an unknown sign bit
\* included.
LEMMA AssignFacts ==
  ASSUME NEW a, Ready(a), NEW n \in Nat
  PROVE  Agrees(ResizeForAssign(a, n), R!ResizeForAssign(Abstract(a), n))
<1> DEFINE A == Abstract(a)
           w == a.width
           top == TopBit(a)
           v == ResizeForAssign(a, n)
           plain == ~a.is_signed \/ n <= w \/ top \in Known
<1>1. A.is_fill = FALSE /\ A.is_signed = a.is_signed /\ R!Top(A) = top /\ a.is_signed \in BOOLEAN
      /\ w \in Nat /\ a.is_fill = FALSE /\ top \in LogicBit
  BY ReadyFacts, AbstractFacts, TopFacts
<1>2. CASE n = 0
  <2>1. plain /\ ~(n > w)
    BY <1>1, <1>2
  <2>2. v = Resize(a, 0)
    BY <1>1, <1>2, <2>1 DEF ResizeForAssign
  <2> QED
    BY <1>1, <1>2, <2>2, ResizeNothing DEF R!ResizeForAssign
<1> DEFINE f == Stretched(a, n, IF a.is_signed THEN top ELSE "0")
<1>3. ASSUME n # 0, plain PROVE Shows(v, n, a.is_signed, f)
  <2> DEFINE g == Stretched(a, n, IF a.is_signed /\ top = "1" THEN "1" ELSE "0")
  <2>1. v = Resize(a, n)
    <3>1. n <= w => ~(n > w)
      BY <1>1
    <3> QED
      BY <1>1, <1>3, <3>1 DEF ResizeForAssign
  <2>2. n \in Nat \ {0}
    BY <1>3
  <2>3. Shows(v, n, a.is_signed, g)
    BY <2>1, <2>2, ResizeShows
  <2>4. CASE n <= w
    <3>1. \A i \in Mask(n) : i < w
      BY <1>1, <2>4 DEF Mask
    <3>2. f = g
      BY <3>1 DEF Stretched
    <3> HIDE DEF f, g, v
    <3> QED
      BY <2>3, <3>2
  <2>5. CASE ~(n <= w)
    <3>1. (IF a.is_signed THEN top ELSE "0") = (IF a.is_signed /\ top = "1" THEN "1" ELSE "0")
      BY <1>3, <2>5 DEF Known
    <3> QED
      BY <2>3, <3>1
  <2> QED
    BY <2>4, <2>5
<1>4. ASSUME n # 0, ~plain PROVE Shows(v, n, a.is_signed, f)
  <2> DEFINE ext == Mask(n) \ Mask(w)
             r == IF IsInline(a) /\ n <= W THEN [a EXCEPT !.width = n] ELSE Resize(a, n)
             val == IF top = "z" THEN r.val \cup ext ELSE r.val \ ext
             xz == r.xz \cup ext
  <2>1. n > w /\ n \in Nat \ {0} /\ top \in {"x", "z"} /\ a.is_signed = TRUE
    BY <1>1, <1>4 DEF Known, LogicBit
  <2>2. v = [r EXCEPT !.val = val, !.xz = xz]
    BY <1>1, <1>4, <2>1 DEF ResizeForAssign
  <2> HIDE DEF v, top
  <2>3. Ready(r) /\ r.width = n /\ r.is_signed = a.is_signed
        /\ \A i \in Mask(n) : i < w => PlaneBit(r.val, r.xz, i) = PlaneBit(a.val, a.xz, i)
    <3>1. CASE IsInline(a) /\ n <= W
      <4>1. r = [a EXCEPT !.width = n]
        BY <3>1
      <4>2. a \in Values /\ Clear(a) /\ Mask(w) \subseteq Mask(n)
        BY <1>1, <2>1 DEF Ready, Canon, Mask
      <4> HIDE DEF r
      <4>3. r \in Values /\ r.width = n /\ r.is_signed = a.is_signed /\ r.val = a.val /\ r.xz = a.xz
              /\ r.is_fill = a.is_fill
        BY <4>1, <4>2 DEF Values
      <4>4. Clear(r)
        BY <4>2, <4>3 DEF Clear
      <4>5. Ready(r)
        BY <1>1, <4>3, <4>4 DEF Ready, Canon
      <4> QED
        BY <4>3, <4>5
    <3>2. CASE ~(IsInline(a) /\ n <= W)
      <4> DEFINE g == Stretched(a, n, IF a.is_signed /\ TopBit(a) = "1" THEN "1" ELSE "0")
      <4>1. r = Resize(a, n)
        BY <3>2
      <4>2. \A i \in Mask(n) : i < w => g[i] = PlaneBit(a.val, a.xz, i)
        BY DEF Stretched
      <4> HIDE DEF r
      <4>3. Shows(r, n, a.is_signed, g)
        BY <2>1, <4>1, ResizeShows
      <4> HIDE DEF g
      <4> QED
        BY <4>2, <4>3 DEF Shows
    <3> QED
      BY <3>1, <3>2
  <2> HIDE DEF r
  <2>4. r = [val |-> r.val, xz |-> r.xz, width |-> n, is_signed |-> r.is_signed, is_fill |-> r.is_fill]
        /\ r.is_fill = FALSE /\ r.val \subseteq Mask(n) /\ r.xz \subseteq Mask(n)
    BY <2>3, ReadyFacts, CanonFacts
  <2>5. val \subseteq Mask(n) /\ xz \subseteq Mask(n)
    BY <2>4
  <2>6. \A i \in Mask(n) : i \in ext <=> ~(i < w)
    BY <1>1, <2>1 DEF Mask
  <2>7. \A i \in Mask(n) : (i \in val <=> IF i < w THEN i \in r.val ELSE top = "z")
          /\ (i \in xz <=> i \in r.xz \/ ~(i < w))
    BY <2>6
  <2> HIDE DEF val, xz, ext
  <2>8. v = Plain(val, xz, n, a.is_signed)
    BY <2>2, <2>3, <2>4 DEF Plain
  <2>9. \A i \in Mask(n) : f[i] = IF i < w THEN PlaneBit(r.val, r.xz, i) ELSE top
    BY <2>1, <2>3 DEF Stretched
  <2> HIDE DEF f
  <2>10. ASSUME NEW i \in Mask(n)
         PROVE  f[i] \in LogicBit /\ (i \in val <=> f[i] \in {"1", "z"}) /\ (i \in xz <=> f[i] \in {"x", "z"})
    <3>1. CASE i < w
      BY <2>7, <2>9, <3>1, BitFacts
    <3>2. CASE ~(i < w)
      BY <1>1, <2>1, <2>7, <2>9, <3>2
    <3> QED
      BY <3>1, <3>2
  <2> QED
    BY <1>1, <2>1, <2>5, <2>8, <2>10, PlainShows
<1>5. CASE n # 0
  <2>1. R!ResizeForAssign(A, n) = R!Vector(n, a.is_signed, LAMBDA i : R!ExtBit(A, a.is_signed, i))
    BY <1>1, <1>5 DEF R!ResizeForAssign
  <2>2. R!Vector(n, a.is_signed, LAMBDA i : R!ExtBit(A, a.is_signed, i)) = Bits(n, a.is_signed, f)
    <3>1. n \in Nat \ {0}
      BY <1>5
    <3> QED
      BY <1>1, <3>1, StretchedFacts
  <2>3. Shows(v, n, a.is_signed, f)
    BY <1>3, <1>4, <1>5
  <2>5. f = [i \in Mask(n) |-> f[i]]
    BY DEF Stretched
  <2> HIDE DEF f, v
  <2>6. Agrees(v, Bits(n, a.is_signed, f))
    BY <2>3, <2>5, ShowsFacts
  <2> QED
    BY <2>1, <2>2, <2>6 DEF v
<1> QED
  BY <1>2, <1>5

\* to_two_state reads unknown bits as 0.
LEMMA TwoStateFacts ==
  ASSUME NEW a, Ready(a)
  PROVE  Agrees(ToTwoState(a), R!TwoState(Abstract(a)))
<1> DEFINE A == Abstract(a)
           w == a.width
           v == ToTwoState(a)
           f == [i \in Mask(w) |-> IF A.bit[i] = "1" THEN "1" ELSE "0"]
           val == a.val \ a.xz
           none == {i \in Nat : FALSE}
<1>1. /\ w \in Nat /\ a.is_fill = FALSE /\ a.is_signed \in BOOLEAN /\ a.val \subseteq Mask(w)
           /\ a.xz \subseteq Mask(w)
      /\ a = [val |-> a.val, xz |-> a.xz, width |-> w, is_signed |-> a.is_signed, is_fill |-> a.is_fill]
  BY ReadyFacts, CanonFacts
<1>2. A.width = w /\ A.is_signed = a.is_signed /\ R!Positions(w) = Mask(w)
      /\ \A i \in Mask(w) : A.bit[i] = PlaneBit(a.val, a.xz, i)
  BY ReadyFacts, AbstractFacts DEF R!Positions, Mask
<1>3. none = {}
  OBVIOUS
<1>4. v = Plain(val, none, w, a.is_signed)
  <2>1. CASE HasXZ(a)
    <3>1. v = [a EXCEPT !.val = val, !.xz = none, !.is_fill = FALSE]
      BY <1>1, <1>3, <2>1 DEF ToTwoState
    <3> HIDE DEF val, none, v
    <3> QED
      BY <1>1, <3>1 DEF Plain
  <2>2. CASE ~HasXZ(a)
    <3>1. v = a /\ val = a.val /\ a.xz = none
      BY <2>2 DEF ToTwoState, HasXZ
    <3> HIDE DEF val, none, v
    <3> QED
      BY <1>1, <3>1 DEF Plain
  <2> QED
    BY <2>1, <2>2
<1>5. R!TwoState(A) = Bits(w, a.is_signed, f)
  <2> HIDE DEF A
  <2> QED
    BY <1>2 DEF R!TwoState, R!Vector, Bits
<1>6. ASSUME NEW i \in Mask(w)
      PROVE  f[i] \in LogicBit /\ (i \in val <=> f[i] \in {"1", "z"}) /\ (i \in none <=> f[i] \in {"x", "z"})
  <2> DEFINE p == PlaneBit(a.val, a.xz, i)
  <2>1. f[i] = IF p = "1" THEN "1" ELSE "0"
    BY <1>2
  <2>2. (i \in a.val <=> p \in {"1", "z"}) /\ (i \in a.xz <=> p \in {"x", "z"})
    BY BitFacts
  <2> HIDE DEF p, f
  <2> QED
    BY <2>1, <2>2 DEF LogicBit
<1>7. f = [i \in Mask(w) |-> f[i]]
  OBVIOUS
<1>8. val \subseteq Mask(w) /\ none \subseteq Mask(w)
  BY <1>1
<1> HIDE DEF f, v, val, none, A
<1>9. Shows(v, w, a.is_signed, f)
  BY <1>1, <1>4, <1>6, <1>8, PlainShows
<1> HIDE DEF w
<1>10. Agrees(v, Bits(w, a.is_signed, f))
  BY <1>7, <1>9, ShowsFacts
<1> QED
  BY <1>5, <1>10 DEF v, A

-----------------------------------------------------------------------------
(* Replication *)

\* Division by any width.
LEMMA InUnit ==
  ASSUME NEW w \in Nat \ {0}, NEW p \in Nat
  PROVE  p \div w \in Nat /\ p % w \in 0 .. w-1 /\ p = (p \div w) * w + (p % w)
OBVIOUS

\* A position below a number of copies belongs to one of them.
LEMMA AtUnit ==
  ASSUME NEW w \in Nat \ {0}, NEW k \in Nat, NEW b \in 0 .. w-1
  PROVE  k * w + b \in Nat /\ (k * w + b) \div w = k /\ (k * w + b) % w = b
OBVIOUS

\* A position one width higher has the same remainder.
LEMMA NextUnit ==
  ASSUME NEW w \in Nat \ {0}, NEW i \in Nat, i >= w
  PROVE  (i - w) % w = i % w
<1> DEFINE k == (i - w) \div w
           b == (i - w) % w
<1>1. i - w \in Nat
  OBVIOUS
<1>2. k \in Nat /\ b \in 0 .. w-1 /\ i - w = k * w + b
  BY <1>1, InUnit
<1> HIDE DEF k, b
<1>3. i = (k + 1) * w + b
  <2>1. (k + 1) * w = k * w + w
    BY <1>2
  <2> DEFINE p == k * w
  <2>2. p \in Nat /\ i - w = p + b
    BY <1>2
  <2> HIDE DEF p
  <2>3. i = p + w + b
    BY <1>2, <2>2
  <2> QED
    BY <2>1, <2>3 DEF p
<1>4. i % w = b
  BY <1>2, <1>3, AtUnit
<1> QED
  BY <1>4 DEF b

\* A width that divides a word divides the position of every word.
LEMMA WholeUnits ==
  ASSUME NEW w \in Nat \ {0}, W % w = 0, NEW i \in Nat
  PROVE  (i % W) % w = i % w
<1> DEFINE c == W \div w
           k == i \div W
           y == i % W
           j == y \div w
           b == y % w
<1>1. W \in Nat \ {0}
  BY ValueAssumption
<1>2. c \in Nat /\ W = c * w
  <2>1. c \in Nat /\ W = c * w + (W % w)
    BY <1>1, InUnit
  <2> HIDE DEF c
  <2>2. c * w \in Nat
    BY <2>1
  <2> DEFINE p == c * w
  <2> HIDE DEF p
  <2>3. W = p + 0 /\ p \in Nat
    BY <2>1, <2>2 DEF p
  <2> QED
    BY <1>1, <2>1, <2>3 DEF p
<1>3. k \in Nat /\ y \in Nat /\ i = k * W + y
  BY <1>1, InWord
<1>4. j \in Nat /\ b \in 0 .. w-1 /\ y = j * w + b
  BY <1>3, InUnit
<1> HIDE DEF c, k, y, j, b
<1>5. i = (k * c + j) * w + b /\ k * c + j \in Nat
  <2>1. k * W = (k * c) * w
    BY <1>2, <1>3
  <2>2. k * c \in Nat
    BY <1>2, <1>3
  <2> DEFINE u == k * c
  <2> HIDE DEF u
  <2>3. u \in Nat /\ k * W = u * w
    BY <2>1, <2>2 DEF u
  <2>4. (u + j) * w = u * w + j * w
    BY <1>4, <2>3
  <2>5. u * w \in Nat /\ j * w \in Nat
    BY <1>4, <2>3
  <2> DEFINE p == u * w
             q == j * w
  <2> HIDE DEF p, q
  <2>6. p \in Nat /\ q \in Nat /\ i = p + y /\ y = q + b
    BY <1>3, <1>4, <2>3, <2>5 DEF p, q
  <2>7. i = p + q + b
    BY <1>4, <2>6
  <2> QED
    BY <1>4, <2>3, <2>4, <2>7 DEF u, p, q
<1>6. i % w = b
  BY <1>4, <1>5, AtUnit
<1> QED
  BY <1>6 DEF b, y

\* The copies of a word that divides words, laid down in every word.
LEMMA RepeatedFacts ==
  ASSUME NEW w \in Nat \ {0}, W % w = 0, NEW plane, NEW n \in Nat
  PROVE  RepeatedWords(plane, w, n) \cap Mask(n) = {i \in Mask(n) : i % w \in plane}
<1>1. WordBits(n) \subseteq Nat /\ Mask(n) \subseteq WordBits(n)
  BY WordBitsFacts
<1>2. \A i \in WordBits(n) : (i % W) % w = i % w
  BY <1>1, WholeUnits
<1> QED
  BY <1>1, <1>2 DEF RepeatedWords

\* The copies that overlap each word.
LEMMA OverlapFacts ==
  ASSUME NEW w \in Nat \ {0}, w <= W, NEW plane, plane \subseteq Mask(w), NEW n \in Nat
  PROVE  OverlapWords(plane, w, n) \cap Mask(n) = {i \in Mask(n) : i % w \in plane}
<1> DEFINE end(base) == Smaller(base + W, n)
           Cs(base) == {c \in 0 .. n : c >= base \div w /\ c * w < end(base)}
           Copy(c, base) == IF c * w >= base THEN Shl(plane, c * w - base) ELSE Shr(plane, base - c * w)
           WordAt(k) == UNION {Copy(c, k * W) : c \in Cs(k * W)}
           ks == 0 .. NWords(n) - 1
<1>1. OverlapWords(plane, w, n) = UNION {{k * W + b : b \in WordAt(k)} : k \in ks}
  BY DEF OverlapWords
<1>2. W \in Nat \ {0} /\ plane \in SUBSET Nat /\ (\A r \in plane : r \in 0 .. w-1) /\ ks \subseteq Nat
  <2>1. NWords(n) \in Nat
    BY NWordsFacts
  <2> QED
    BY <2>1, ValueAssumption DEF Mask
<1>3. ASSUME NEW base \in Nat, NEW c \in Cs(base)
      PROVE  Copy(c, base) = {b \in 0 .. W-1 : b + base - c * w \in plane}
  <2> DEFINE p == c * w
  <2>1. c \in Nat /\ p \in Nat /\ c >= base \div w /\ p < end(base)
    BY <1>2
  <2>2. CASE p >= base
    <3>1. p - base \in 0 .. W-1
      <4> HIDE DEF p
      <4> QED
        BY <1>2, <2>1, <2>2 DEF Smaller
    <3>2. Shl(plane, p - base) = {b \in 0 .. W-1 : b - (p - base) \in plane}
      BY <1>2, <3>1, ShlFacts
    <3>3. \A b \in 0 .. W-1 : b - (p - base) = b + base - p
      BY <1>2, <2>1
    <3>4. Copy(c, base) = Shl(plane, p - base)
      BY <2>2
    <3> HIDE DEF p, Copy
    <3> QED
      BY <3>2, <3>3, <3>4 DEF p
  <2>3. CASE ~(p >= base)
    <3> DEFINE q == base \div w
               r == base % w
    <3>1. q \in Nat /\ r \in 0 .. w-1 /\ base = q * w + r
      BY InUnit
    <3> HIDE DEF q, r
    <3>2. c >= q
      BY <2>1 DEF q
    <3>3. c * w >= q * w
      <4>1. c - q \in Nat
        BY <2>1, <3>1, <3>2
      <4>2. (c - q) * w \in Nat /\ c * w = q * w + (c - q) * w
        BY <2>1, <3>1, <4>1
      <4> DEFINE x == (c - q) * w
                 y == q * w
      <4>3. x \in Nat /\ y \in Nat /\ c * w = y + x
        BY <3>1, <4>2
      <4> HIDE DEF x, y
      <4> QED
        BY <4>3 DEF y
    <3>4. base - p \in 0 .. W-1
      <4> DEFINE y == q * w
      <4>1. y \in Nat /\ p >= y /\ base = y + r
        BY <3>1, <3>3
      <4> HIDE DEF y, p
      <4> QED
        BY <1>2, <2>1, <2>3, <3>1, <4>1
    <3>5. Shr(plane, base - p) = {b \in Nat : b + (base - p) \in plane}
      BY <1>2, <3>4, ShrFacts
    <3>6. ASSUME NEW b \in Nat PROVE b + (base - p) \in plane <=> b \in 0 .. W-1 /\ b + base - p \in plane
      <4> HIDE DEF p
      <4>1. b + (base - p) = b + base - p
        BY <2>1
      <4>2. b + (base - p) \in plane => b \in 0 .. W-1
        BY <1>2, <2>1, <3>4
      <4> QED
        BY <4>1, <4>2
    <3>7. Copy(c, base) = Shr(plane, base - p)
      BY <2>3
    <3> HIDE DEF p, Copy
    <3>8. Copy(c, base) = {b \in 0 .. W-1 : b + base - p \in plane}
      BY <1>2, <3>5, <3>6, <3>7
    <3> QED
      BY <3>8 DEF p
  <2> QED
    BY <2>2, <2>3
<1> HIDE DEF Copy
<1>4. ASSUME NEW k \in ks, NEW b \in WordAt(k)
      PROVE  (k * W + b) % w \in plane
  <2> DEFINE base == k * W
  <2>1. base \in Nat
    BY <1>2
  <2>2. PICK c \in Cs(base) : b \in Copy(c, base)
    OBVIOUS
  <2> DEFINE p == c * w
             r == b + base - p
  <2>3. c \in Nat /\ p \in Nat
    BY <1>2
  <2> HIDE DEF base
  <2>4. b \in 0 .. W-1 /\ r \in plane
    BY <1>3, <2>1, <2>2
  <2>5. r \in 0 .. w-1
    BY <1>2, <2>4
  <2> HIDE DEF p
  <2>6. base + b = p + r
    BY <2>1, <2>3, <2>4
  <2> HIDE DEF r
  <2>7. (p + r) % w = r
    BY <2>3, <2>5, AtUnit DEF p
  <2> QED
    BY <2>4, <2>6, <2>7 DEF base
<1>5. ASSUME NEW i \in Mask(n), i % w \in plane
      PROVE  \E k \in ks : \E b \in WordAt(k) : i = k * W + b
  <2> DEFINE k == i \div W
             b == i % W
             c == i \div w
             r == i % w
             base == k * W
             p == c * w
  <2>1. i \in WordBits(n) /\ i \in Nat /\ i < n
    BY WordBitsFacts DEF Mask
  <2>2. k \in ks /\ b \in 0 .. W-1 /\ i = base + b
    BY <2>1, WordOf
  <2>3. c \in Nat /\ r \in 0 .. w-1 /\ i = p + r
    BY <2>1, InUnit
  <2>4. base \in Nat /\ p \in Nat
    BY <1>2, <2>2, <2>3
  <2>5. c <= p
    <3> HIDE DEF c
    <3> QED
      BY <2>3
  <2>6. c >= base \div w
    <3> DEFINE q == base \div w
               y == q * w
    <3>1. q \in Nat /\ base = y + (base % w) /\ base % w \in 0 .. w-1
      BY <2>4, InUnit
    <3> HIDE DEF q, c, base
    <3>2. y \in Nat /\ y <= base
      BY <2>4, <3>1
    <3>3. ASSUME c < q PROVE FALSE
      <4>1. q - c - 1 \in Nat /\ y = (q - c - 1) * w + p + w
        BY <2>3, <3>1, <3>3
      <4>2. (q - c - 1) * w \in Nat
        BY <4>1
      <4> DEFINE z == (q - c - 1) * w
      <4> HIDE DEF z, p, y
      <4>3. z \in Nat /\ y = z + p + w
        BY <4>1, <4>2 DEF z
      <4> QED
        BY <2>2, <2>3, <2>4, <3>2, <4>3
    <3> QED
      BY <2>3, <3>1, <3>3 DEF q, base
  <2>7. p < end(base)
    <3> HIDE DEF base, p
    <3> QED
      BY <1>2, <2>1, <2>2, <2>3, <2>4 DEF Smaller
  <2>8. c \in 0 .. n
    <3> HIDE DEF p, c
    <3> QED
      BY <2>1, <2>3, <2>4, <2>5
  <2>9. c \in Cs(base)
    BY <2>6, <2>7, <2>8
  <2>10. b + base - p = r
    <3> HIDE DEF base, p, r, b
    <3> QED
      BY <2>2, <2>3, <2>4
  <2>11. b \in Copy(c, base)
    <3> HIDE DEF base, c, b, r, Cs
    <3>1. Copy(c, base) = {d \in 0 .. W-1 : d + base - c * w \in plane}
      BY <1>3, <2>4, <2>9
    <3> QED
      BY <1>5, <2>2, <2>10, <3>1 DEF r
  <2> HIDE DEF c, Cs, b, k
  <2>12. b \in WordAt(k)
    BY <2>9, <2>11
  <2> QED
    BY <2>2, <2>12
<1> HIDE DEF WordAt, ks
<1> QED
  BY <1>1, <1>4, <1>5

\* Copies of a made in turn, from a first one on.
Copies(g, n, first, a) == g = [k \in 1 .. n |-> IF k = 1 THEN first ELSE Concat(g[k-1], a)]

\* The copies that replicate makes in turn exist.
LEMMA CopiesExist ==
  ASSUME NEW a, NEW first, NEW n \in Nat
  PROVE  \E g : Copies(g, n, first, a)
<1> DEFINE Eq(m, g) == g = [k \in 1 .. m |-> IF k = 1 THEN first ELSE Concat(g[k-1], a)]
           T == {m \in Nat : \E g : Eq(m, g)}
<1>1. 0 \in T
  <2>1. Eq(0, [k \in 1 .. 0 |-> first])
    OBVIOUS
  <2> QED
    BY <2>1
<1>2. ASSUME NEW m \in Nat, m \in T PROVE m + 1 \in T
  <2>1. PICK g : Eq(m, g)
    BY <1>2
  <2> DEFINE last == IF m = 0 THEN first ELSE Concat(g[m], a)
             h == [k \in 1 .. m + 1 |-> IF k <= m THEN g[k] ELSE last]
  <2>2. \A k \in 1 .. m : h[k] = g[k]
    OBVIOUS
  <2>3. h[m + 1] = last
    OBVIOUS
  <2>4. ASSUME NEW k \in 1 .. m + 1 PROVE h[k] = IF k = 1 THEN first ELSE Concat(h[k-1], a)
    <3> HIDE DEF h
    <3>1. CASE k <= m
      <4>1. k \in 1 .. m /\ (k # 1 => k - 1 \in 1 .. m)
        BY <3>1
      <4>2. g[k] = IF k = 1 THEN first ELSE Concat(g[k-1], a)
        BY <2>1, <4>1
      <4> QED
        BY <2>2, <4>1, <4>2
    <3>2. CASE ~(k <= m)
      <4>1. k = m + 1 /\ (k # 1 => m # 0 /\ k - 1 = m /\ m \in 1 .. m) /\ (k = 1 => m = 0)
        BY <3>2
      <4> QED
        BY <2>2, <2>3, <4>1
    <3> QED
      BY <3>1, <3>2
  <2>5. h = [k \in 1 .. m + 1 |-> h[k]]
    OBVIOUS
  <2> HIDE DEF h
  <2>6. Eq(m + 1, h)
    BY <2>4, <2>5
  <2> QED
    BY <2>6
<1> HIDE DEF T
<1>3. Nat \subseteq T
  BY <1>1, <1>2, SetInduction
<1> QED
  BY <1>3 DEF T, Copies

\* One more copy of a value.
LEMMA OneMore ==
  ASSUME NEW a, Ready(a), a.width # 0, NEW n \in Nat
  PROVE  R!Concat(R!Replicate(Abstract(a), n), Abstract(a)) = R!Replicate(Abstract(a), n + 1)
<1> DEFINE A == Abstract(a)
           w == a.width
           f == [i \in Mask(w * n) |-> A.bit[i % w]]
           g == [i \in Mask(w * (n + 1)) |-> A.bit[i % w]]
           h == [i \in Mask(w * n + w) |-> IF i < w THEN A.bit[i] ELSE f[i - w]]
<1>1. w \in Nat \ {0} /\ A.width = w
  BY ReadyFacts, AbstractFacts
<1>2. R!Replicate(A, n) = Bits(w * n, FALSE, f) /\ R!Replicate(A, n + 1) = Bits(w * (n + 1), FALSE, g)
  <2> HIDE DEF A, w
  <2> QED
    BY <1>1 DEF R!Replicate, R!Vector, R!Positions, Bits, Mask
<1>3. Bits(w * n, FALSE, f).width = w * n /\ Bits(w * n, FALSE, f).bit = f
  <2> HIDE DEF f
  <2> QED
    BY DEF Bits
<1>4. R!Concat(Bits(w * n, FALSE, f), A) = Bits(w * n + w, FALSE, h)
  <2> HIDE DEF A, w, f
  <2> QED
    BY <1>1, <1>3 DEF R!Concat, R!Vector, R!Positions, Bits, Mask
<1>5. w * (n + 1) = w * n + w /\ w * n \in Nat
  BY <1>1
<1>6. h = g
  <2> DEFINE t == w * n
  <2> HIDE DEF t
  <2>1. t \in Nat /\ w * n = t
    BY <1>5 DEF t
  <2>2. ASSUME NEW i \in Mask(t + w)
        PROVE  (IF i < w THEN A.bit[i] ELSE f[i - w]) = A.bit[i % w]
    <3>1. i \in Nat /\ i < t + w
      BY <1>1, <2>1 DEF Mask
    <3>2. CASE i < w
      <4>1. i % w = i
        BY <1>1, <3>1, <3>2
      <4> QED
        BY <3>2, <4>1
    <3>3. CASE ~(i < w)
      <4>1. i - w \in Mask(t) /\ i >= w
        BY <1>1, <2>1, <3>1, <3>3 DEF Mask
      <4>2. (i - w) % w = i % w
        BY <1>1, <3>1, <4>1, NextUnit
      <4>3. f[i - w] = A.bit[(i - w) % w]
        BY <2>1, <4>1
      <4> QED
        BY <3>3, <4>2, <4>3
    <3> QED
      BY <3>2, <3>3
  <2>3. Mask(w * (n + 1)) = Mask(t + w) /\ Mask(w * n + w) = Mask(t + w)
    BY <1>5, <2>1
  <2> HIDE DEF f
  <2> QED
    BY <2>2, <2>3
<1> QED
  BY <1>2, <1>4, <1>5, <1>6

\* Copies joined in turn are the replicated value.
LEMMA CopiesFacts ==
  ASSUME NEW a, Ready(a), a.width # 0, NEW n \in Nat \ {0},
         NEW g, g = [k \in 1 .. n |-> IF k = 1 THEN Concat(Zero(0), a) ELSE Concat(g[k-1], a)],
         g[n].width <= Widest
  PROVE  Agrees(g[n], R!Replicate(Abstract(a), n))
<1> DEFINE A == Abstract(a)
           Good(k) == g[k].width \in Nat /\ (g[k].width <= Widest => Agrees(g[k], R!Replicate(A, k)))
           T == {m \in Nat : m < n => Good(m + 1)}
<1>1. a.width \in Nat \ {0} /\ Canon(a) /\ Widest \in Nat
  BY ReadyFacts, OpsAssumption
<1>2. \A k \in 1 .. n : g[k] = IF k = 1 THEN Concat(Zero(0), a) ELSE Concat(g[k-1], a)
  OBVIOUS
<1>3. Agrees(Zero(0), R!Replicate(A, 0)) /\ Zero(0).width = 0
  <2> DEFINE o == 0
             z == Filled(o, "0")
             f == [i \in Mask(o) |-> "0"]
             h == [i \in Mask(o) |-> A.bit[i % a.width]]
  <2>1. o \in Nat /\ o <= Widest /\ Mask(o) = {} /\ a.width * o = o
    BY <1>1 DEF Mask
  <2>2. A.width = a.width
    BY <1>1, AbstractFacts
  <2> HIDE DEF o
  <2>3. Zero(o) = z /\ "0" \in LogicBit
    BY <2>1, NarrowFacts
  <2>4. Shows(z, o, FALSE, f)
    BY <2>1, <2>3, FilledShows
  <2>5. h = [i \in Mask(o) |-> h[i]]
    OBVIOUS
  <2> HIDE DEF z
  <2>6. Shows(z, o, FALSE, h)
    BY <2>1, <2>4 DEF Shows
  <2>7. R!Replicate(A, o) = Bits(o, FALSE, h)
    <3> HIDE DEF A
    <3> QED
      BY <2>1, <2>2 DEF R!Replicate, R!Vector, R!Positions, Bits, Mask
  <2> HIDE DEF h
  <2>8. Agrees(z, Bits(o, FALSE, h)) /\ z.width = o
    BY <2>5, <2>6, ShowsFacts DEF Shows
  <2> QED
    BY <2>3, <2>7, <2>8 DEF o
<1> HIDE DEF A
<1>4. ASSUME NEW u, NEW m \in Nat, u.width \in Nat, u.width <= Widest => Agrees(u, R!Replicate(A, m))
      PROVE  /\ Concat(u, a).width \in Nat
             /\ Concat(u, a).width <= Widest => Agrees(Concat(u, a), R!Replicate(A, m + 1))
  <2>1. Concat(u, a).width \in Nat /\ (Concat(u, a).width <= Widest => Concat(u, a).width = u.width + a.width)
    BY <1>1, <1>4, ConcatWidth
  <2>2. ASSUME Concat(u, a).width <= Widest PROVE Agrees(Concat(u, a), R!Replicate(A, m + 1))
    <3>1. u.width <= Widest
      BY <1>1, <1>4, <2>1, <2>2
    <3>2. Canon(u) /\ Abstract(u) = R!Replicate(A, m)
      BY <1>4, <3>1 DEF Agrees, Ready
    <3>3. Agrees(Concat(u, a), R!Concat(R!Replicate(A, m), A))
      BY <1>1, <2>2, <3>2, ConcatFacts DEF A
    <3> QED
      BY <3>3, OneMore DEF A
  <2> QED
    BY <2>1, <2>2
<1>5. 0 \in T
  <2>1. 1 \in 1 .. n
    OBVIOUS
  <2>2. g[1] = Concat(Zero(0), a)
    BY <1>2, <2>1
  <2>3. Zero(0).width \in Nat
    BY <1>3
  <2>4. Good(0 + 1)
    BY <1>3, <1>4, <2>2, <2>3
  <2> HIDE DEF Good
  <2> QED
    BY <2>4
<1>6. ASSUME NEW m \in Nat, m \in T PROVE m + 1 \in T
  <2>1. ASSUME m + 1 < n PROVE Good(m + 1 + 1)
    <3>1. m < n /\ m + 1 + 1 \in 1 .. n /\ m + 1 + 1 # 1 /\ (m + 1 + 1) - 1 = m + 1 /\ m + 1 \in Nat
      BY <2>1
    <3>2. g[m + 1 + 1] = Concat(g[m + 1], a)
      BY <1>2, <3>1
    <3>3. Good(m + 1)
      BY <1>6, <3>1
    <3> QED
      BY <1>4, <3>1, <3>2, <3>3
  <2> HIDE DEF Good
  <2> QED
    BY <2>1
<1> HIDE DEF T
<1>7. Nat \subseteq T
  BY <1>5, <1>6, SetInduction
<1>8. Good(n)
  <2>1. n - 1 \in T /\ n - 1 \in Nat /\ n - 1 < n /\ (n - 1) + 1 = n
    BY <1>7
  <2> HIDE DEF Good
  <2> QED
    BY <2>1 DEF T
<1> QED
  BY <1>8 DEF A

\* replicate repeats the value, in each of its three ways.
LEMMA ReplicateFacts ==
  ASSUME NEW a, Ready(a), NEW n \in Nat, Replicate(a, n).width <= Widest
  PROVE  Agrees(Replicate(a, n), R!Replicate(Abstract(a), n))
<1> DEFINE A == Abstract(a)
           w == a.width
           v == Replicate(a, n)
           total == CapWidth(w * n)
           f == [i \in Mask(w * n) |-> A.bit[i % w]]
<1>1. w \in Nat /\ a.is_fill = FALSE /\ A.width = w /\ Canon(a) /\ (IsInline(a) <=> w <= W) /\ FALSE \in BOOLEAN
      /\ a.val \subseteq Mask(w) /\ a.xz \subseteq Mask(w) /\ \A i \in Mask(w) : A.bit[i] = PlaneBit(a.val, a.xz, i)
  BY ReadyFacts, AbstractFacts
<1>2. R!Replicate(A, n) = Bits(w * n, FALSE, f)
  <2> HIDE DEF A, w
  <2> QED
    BY <1>1 DEF R!Replicate, R!Vector, R!Positions, Bits, Mask
<1>3. f = [i \in Mask(w * n) |-> f[i]]
  OBVIOUS
<1>4. w * n \in Nat
  BY <1>1
<1>5. CASE w * n = 0
  <2>1. v = Zero(0)
    BY <1>5 DEF Replicate
  <2> DEFINE o == 0
             g == [i \in Mask(o) |-> "0"]
  <2>2. o \in Nat /\ o <= Widest /\ Mask(o) = {}
    BY OpsAssumption DEF Mask
  <2>3. w * n = o /\ v = Zero(o)
    BY <1>5, <2>1
  <2> HIDE DEF o
  <2>4. Zero(o) = Filled(o, "0") /\ "0" \in LogicBit
    BY <2>2, NarrowFacts
  <2> HIDE DEF v, f
  <2>5. Shows(v, o, FALSE, g)
    BY <2>2, <2>3, <2>4, FilledShows
  <2>6. Shows(v, w * n, FALSE, f)
    BY <2>2, <2>3, <2>5 DEF Shows
  <2>7. Agrees(v, Bits(w * n, FALSE, f))
    BY <1>3, <2>6, ShowsFacts
  <2> QED
    BY <1>2, <2>7 DEF v
<1>6. CASE w * n # 0 /\ IsInline(a)
  <2> DEFINE Words(plane) == IF W % w = 0 THEN RepeatedWords(plane, w, total) ELSE OverlapWords(plane, w, total)
             m == IF total <= W THEN Mask(total) ELSE MaskTop(WordBits(total), total)
             val == {i \in Mask(total) : i % w \in a.val}
             xz == {i \in Mask(total) : i % w \in a.xz}
  <2>0. w \in Nat \ {0}
    <3>1. CASE w = 0
      BY <1>6, <3>1
    <3> QED
      BY <1>1, <3>1
  <2>1. v = Plain(Words(a.val \cap Mask(w)) \cap m, Words(a.xz \cap Mask(w)) \cap m, total, FALSE)
    BY <1>1, <1>6, Zenon DEF Replicate
  <2>2. total = w * n
    <3>1. v.width = total
      BY <2>1 DEF Plain
    <3>2. total <= Widest
      BY <3>1
    <3> QED
      BY <1>4, <3>2, CapFacts
  <2>3. m = Mask(total)
    <3>1. CASE total <= W
      BY <3>1
    <3>2. CASE ~(total <= W)
      <4>1. total \in Nat /\ total # 0
        BY <1>4, <1>6, <2>2
      <4> HIDE DEF total
      <4>2. Mask(total) \subseteq WordBits(total)
        BY <4>1, WordBitsFacts
      <4>3. WordBits(total) \in SUBSET WordBits(total) /\ total \in Nat \ {0}
        BY <4>1
      <4>5. MaskTop(WordBits(total), total) = WordBits(total) \cap Mask(total)
        BY <4>3, MaskTopFacts, Zenon
      <4>4. MaskTop(WordBits(total), total) = Mask(total)
        BY <4>2, <4>5
      <4> QED
        BY <3>2, <4>4
    <3> QED
      BY <3>1, <3>2
  <2>4. ASSUME NEW plane, plane \subseteq Mask(w)
        PROVE  Words(plane \cap Mask(w)) \cap m = {i \in Mask(total) : i % w \in plane}
    <3>1. plane \cap Mask(w) = plane
      BY <2>4
    <3>2. total \in Nat /\ w <= W
      BY <1>1, <1>4, <1>6, <2>2
    <3> HIDE DEF total, m, w
    <3>3. Words(plane) \cap Mask(total) = {i \in Mask(total) : i % w \in plane}
      BY <2>0, <2>4, <3>2, RepeatedFacts, OverlapFacts
    <3> HIDE DEF Words
    <3> QED
      BY <2>3, <3>1, <3>3
  <2>5. v = Plain(val, xz, total, FALSE)
    <3>1. Words(a.val \cap Mask(w)) \cap m = val /\ Words(a.xz \cap Mask(w)) \cap m = xz
      BY <1>1, <2>4
    <3> HIDE DEF Words, m, val, xz, v
    <3> QED
      BY <2>1, <3>1
  <2>6. total \in Nat /\ Mask(total) = Mask(w * n)
    BY <1>4, <2>2
  <2> HIDE DEF total
  <2>7. ASSUME NEW i \in Mask(total)
        PROVE  f[i] \in LogicBit /\ (i \in val <=> f[i] \in {"1", "z"}) /\ (i \in xz <=> f[i] \in {"x", "z"})
    <3> DEFINE r == i % w
    <3>1. i \in Nat
      BY <2>6 DEF Mask
    <3>2. r \in Mask(w)
      BY <2>0, <3>1, InUnit DEF Mask
    <3>3. f[i] = A.bit[r]
      BY <2>6
    <3>4. f[i] = PlaneBit(a.val, a.xz, r)
      BY <1>1, <3>2, <3>3
    <3>5. (i \in val <=> r \in a.val) /\ (i \in xz <=> r \in a.xz)
      OBVIOUS
    <3> HIDE DEF f, val, xz, r
    <3> QED
      BY <3>4, <3>5, BitFacts
  <2>8. val \subseteq Mask(total) /\ xz \subseteq Mask(total)
    OBVIOUS
  <2> HIDE DEF f, val, xz, v
  <2>9. Shows(v, total, FALSE, f)
    BY <1>1, <2>5, <2>6, <2>7, <2>8, PlainShows
  <2>10. Agrees(v, Bits(w * n, FALSE, f))
    BY <1>3, <2>2, <2>9, ShowsFacts
  <2> QED
    BY <1>2, <2>10 DEF v
<1>7. CASE w * n # 0 /\ ~IsInline(a)
  <2> DEFINE Eq(g) == g = [k \in 1 .. n |-> IF k = 1 THEN Concat(Zero(0), a) ELSE Concat(g[k-1], a)]
             copies == CHOOSE g : Eq(g)
  <2>1. w # 0 /\ n \in Nat \ {0}
    <3>1. CASE w = 0
      BY <1>7, <3>1
    <3>2. CASE n = 0
      BY <1>1, <1>7, <3>2
    <3> QED
      BY <3>1, <3>2
  <2>2. v = copies[n]
    BY <1>1, <1>7 DEF Replicate
  <2>3. \E g : Eq(g)
    <3>1. \E g : Copies(g, n, Concat(Zero(0), a), a)
      BY <2>1, CopiesExist
    <3> QED
      BY <3>1, Zenon DEF Copies
  <2>4. Eq(copies)
    <3> HIDE DEF Eq
    <3> QED
      BY <2>3
  <2> HIDE DEF copies
  <2>5. copies[n].width <= Widest
    BY <2>2
  <2>6. Agrees(copies[n], R!Replicate(Abstract(a), n))
    BY <2>1, <2>4, <2>5, CopiesFacts
  <2> QED
    BY <2>2, <2>6
<1> QED
  BY <1>5, <1>6, <1>7

-----------------------------------------------------------------------------
(* Writing bits in place *)

\* Other bits under the same type.
LEMMA Rewritten ==
  ASSUME NEW n, NEW s, NEW f, NEW g
  PROVE  [Bits(n, s, f) EXCEPT !.bit = g] = Bits(n, s, g)
<1> DEFINE no == FALSE
<1>1. Bits(n, s, f) = [width |-> n, is_signed |-> s, is_fill |-> no, bit |-> f]
  BY DEF Bits
<1>2. Bits(n, s, g) = [width |-> n, is_signed |-> s, is_fill |-> no, bit |-> g]
  BY DEF Bits
<1> HIDE DEF no
<1> QED
  BY <1>1, <1>2

\* copy_bits_from writes the part that the language would.
LEMMA WriteFacts ==
  ASSUME NEW a, Ready(a), NEW b, Ready(b), NEW d \in Nat, NEW s \in Nat, NEW n \in Nat
  PROVE  Agrees(CopyBitsFrom(a, d, b, s, n), R!Write(Abstract(a), d, Abstract(b), s, n))
<1> DEFINE A == Abstract(a)
           C == Abstract(b)
           v == CopyBitsFrom(a, d, b, s, n)
           f == [i \in Mask(a.width) |-> IF i >= d /\ i < d + n /\ s + (i - d) < b.width THEN C.bit[s + (i - d)]
                  ELSE A.bit[i]]
<1>1. /\ Canon(a) /\ Canon(b) /\ a.width \in Nat /\ b.width \in Nat /\ a.is_fill = FALSE /\ b.is_fill = FALSE
  BY ReadyFacts, CanonFacts DEF Ready
<1>3. A = Bits(a.width, a.is_signed, A.bit) /\ C = Bits(b.width, b.is_signed, C.bit) /\ C.width = b.width
  BY <1>1, AbstractFacts
<1>4. R!Write(A, d, C, s, n) = Bits(a.width, a.is_signed, f)
  <2>1. [A EXCEPT !.bit = f] = Bits(a.width, a.is_signed, f) /\ A.width = a.width
    <3>1. Bits(a.width, a.is_signed, A.bit).width = a.width
      BY DEF Bits
    <3> DEFINE old == A.bit
    <3>2. A = Bits(a.width, a.is_signed, old)
      BY <1>3
    <3> HIDE DEF A, f, old
    <3>3. [Bits(a.width, a.is_signed, old) EXCEPT !.bit = f] = Bits(a.width, a.is_signed, f)
      BY Rewritten
    <3> QED
      BY <1>3, <3>1, <3>2, <3>3
  <2>2. R!Write(A, d, C, s, n) = [A EXCEPT !.bit = f]
    <3>1. R!Positions(A.width) = Mask(a.width)
      BY <2>1 DEF R!Positions, Mask
    <3> HIDE DEF A, C
    <3> QED
      BY <1>3, <3>1, Zenon DEF R!Write
  <2> QED
    BY <2>1, <2>2
<1>5. ASSUME NEW i \in Mask(a.width) PROVE CopiedBit(a, d, b, s, n, i) = f[i]
  <2>1. i \in Nat /\ f[i] = (IF i >= d /\ i < d + n /\ s + (i - d) < b.width THEN C.bit[s + (i - d)] ELSE A.bit[i])
    BY <1>1 DEF Mask
  <2>2. A.bit[i] = PlaneBit(a.val, a.xz, i)
    BY <1>1, AbstractFacts
  <2>3. CASE i >= d /\ i < d + n /\ s + (i - d) < b.width
    <3> DEFINE p == s + (i - d)
    <3>1. p \in Mask(b.width)
      BY <1>1, <2>1, <2>3 DEF Mask
    <3>2. C.bit[p] = PlaneBit(b.val, b.xz, p)
      <4> HIDE DEF p
      <4> QED
        BY <1>1, <3>1, AbstractFacts
    <3>3. f[i] = C.bit[p]
      BY <2>1, <2>3
    <3>4. CopiedBit(a, d, b, s, n, i) = PlaneBit(b.val, b.xz, p)
      BY <2>1, <2>3 DEF CopiedBit
    <3> QED
      BY <3>2, <3>3, <3>4
  <2>4. CASE ~(i >= d /\ i < d + n /\ s + (i - d) < b.width)
    <3>1. f[i] = A.bit[i]
      BY <2>1, <2>4
    <3>2. CopiedBit(a, d, b, s, n, i) = PlaneBit(a.val, a.xz, i)
      BY <2>1, <2>4 DEF CopiedBit
    <3> QED
      BY <2>2, <3>1, <3>2
  <2> QED
    BY <2>3, <2>4
<1> HIDE DEF v, f
<1>6. Shows(v, a.width, a.is_signed, f)
  BY <1>1, <1>5, CopyShows DEF v
<1>7. f = [i \in Mask(a.width) |-> f[i]]
  BY DEF f
<1>8. Agrees(v, Bits(a.width, a.is_signed, f))
  BY <1>6, <1>7, ShowsFacts
<1> QED
  BY <1>4, <1>8 DEF v

\* set_bit writes one bit, and nothing above the width.
LEMMA SetBitFacts ==
  ASSUME NEW a, Ready(a), NEW i \in Nat, NEW bit \in LogicBit
  PROVE  Agrees(SetBit(a, i, bit), R!Write(Abstract(a), i, R!One(bit), 0, 1))
<1> DEFINE A == Abstract(a)
           v == SetBit(a, i, bit)
           f == [j \in Mask(a.width) |-> IF j = i THEN bit ELSE A.bit[j]]
<1>1. /\ Canon(a) /\ a.width \in Nat /\ a.is_signed \in BOOLEAN /\ a.is_fill = FALSE
      /\ a.val \in SUBSET Nat /\ a.xz \in SUBSET Nat /\ a.val \subseteq Mask(a.width) /\ a.xz \subseteq Mask(a.width)
      /\ a = [val |-> a.val, xz |-> a.xz, width |-> a.width, is_signed |-> a.is_signed, is_fill |-> a.is_fill]
  BY ReadyFacts, CanonFacts DEF Ready
<1>2. A = Bits(a.width, a.is_signed, A.bit) /\ A.width = a.width
  BY <1>1, AbstractFacts
<1>3. R!Write(A, i, R!One(bit), 0, 1) = Bits(a.width, a.is_signed, f)
  <2> DEFINE one == R!One(bit)
             g == [j \in Mask(a.width) |-> IF j >= i /\ j < i + 1
                    /\ 0 + (j - i) < one.width THEN one.bit[0 + (j - i)] ELSE A.bit[j]]
  <2>1. one.width = 1 /\ one.bit = [j \in 0 .. 0 |-> bit]
    BY DEF R!One, R!All, R!Vector, R!Positions
  <2>2. g = f
    <3>1. ASSUME NEW j \in Mask(a.width) PROVE g[j] = f[j]
      <4>1. j \in Nat
        BY <1>1 DEF Mask
      <4>2. CASE j = i
        <5>1. j >= i /\ j < i + 1 /\ 0 + (j - i) = 0 /\ 0 + (j - i) < one.width
          BY <2>1, <4>1, <4>2
        <5>2. one.bit[0] = bit
          BY <2>1
        <5> HIDE DEF one
        <5> QED
          BY <4>2, <5>1, <5>2
      <4>3. CASE j # i
        <5>1. ~(j >= i /\ j < i + 1)
          BY <4>1, <4>3
        <5> QED
          BY <4>3, <5>1
      <4> QED
        BY <4>2, <4>3
    <3> QED
      BY <3>1, Zenon
  <2>3. R!Positions(A.width) = Mask(a.width)
    BY <1>2 DEF R!Positions, Mask
  <2>4. R!Write(A, i, one, 0, 1) = [A EXCEPT !.bit = g]
    <3> HIDE DEF A, one
    <3> QED
      BY <2>3, Zenon DEF R!Write
  <2>5. [A EXCEPT !.bit = f] = Bits(a.width, a.is_signed, f)
    <3> DEFINE old == A.bit
    <3>2. A = Bits(a.width, a.is_signed, old)
      BY <1>2
    <3> HIDE DEF A, f, old
    <3>3. [Bits(a.width, a.is_signed, old) EXCEPT !.bit = f] = Bits(a.width, a.is_signed, f)
      BY Rewritten
    <3> QED
      BY  <3>2, <3>3
  <2> QED
    BY <2>2, <2>4, <2>5
<1>4. CASE i >= a.width
  <2>1. v = a
    BY <1>4 DEF SetBit
  <2>2. f = A.bit
    <3>1. \A j \in Mask(a.width) : j # i
      BY <1>1, <1>4 DEF Mask
    <3>2. A.bit = [j \in Mask(a.width) |-> A.bit[j]]
      BY DEF Abstract
    <3> HIDE DEF A
    <3> QED
      BY <3>1, <3>2
  <2> HIDE DEF A, f, v
  <2> QED
    BY <1>2, <1>3, <2>1, <2>2 DEF Agrees, A, v
<1>5. CASE ~(i >= a.width)
  <2> DEFINE val == IF bit \in {"1", "z"} THEN a.val \cup {i} ELSE a.val \ {i}
             xz == IF bit \in {"x", "z"} THEN a.xz \cup {i} ELSE a.xz \ {i}
  <2>1. i \in Mask(a.width)
    BY <1>1, <1>5 DEF Mask
  <2>2. val \subseteq Mask(a.width) /\ xz \subseteq Mask(a.width)
    BY <1>1, <2>1
  <2>3. v = Plain(val, xz, a.width, a.is_signed)
    <3>1. v = [a EXCEPT !.val = val, !.xz = xz]
      BY <1>5, Zenon DEF SetBit
    <3> HIDE DEF v, val, xz
    <3> QED
      BY <1>1, <3>1 DEF Plain
  <2>4. ASSUME NEW j \in Mask(a.width)
        PROVE  f[j] \in LogicBit /\ (j \in val <=> f[j] \in {"1", "z"}) /\ (j \in xz <=> f[j] \in {"x", "z"})
    <3>1. CASE j = i
      <4>1. f[j] = bit
        BY <3>1
      <4>2. (j \in val <=> bit \in {"1", "z"}) /\ (j \in xz <=> bit \in {"x", "z"})
        BY <3>1
      <4> HIDE DEF f, val, xz
      <4> QED
        BY <4>1, <4>2
    <3>2. CASE j # i
      <4>1. f[j] = PlaneBit(a.val, a.xz, j)
        <5>1. A.bit[j] = PlaneBit(a.val, a.xz, j)
          BY <1>1, AbstractFacts
        <5> QED
          BY <3>2, <5>1
      <4>2. (j \in val <=> j \in a.val) /\ (j \in xz <=> j \in a.xz)
        BY <3>2
      <4> HIDE DEF f, val, xz
      <4> QED
        BY <4>1, <4>2, BitFacts
    <3> QED
      BY <3>1, <3>2
  <2> HIDE DEF v, f, val, xz
  <2>5. Shows(v, a.width, a.is_signed, f)
    BY <1>1, <2>2, <2>3, <2>4, PlainShows
  <2>6. f = [j \in Mask(a.width) |-> f[j]]
    BY DEF f
  <2>7. Agrees(v, Bits(a.width, a.is_signed, f))
    BY <2>5, <2>6, ShowsFacts
  <2> QED
    BY <1>3, <2>7 DEF v
<1> QED
  BY <1>4, <1>5

-----------------------------------------------------------------------------
(* Arithmetic *)

\* A type put on a value leaves its planes clear.
LEMMA TypedReady ==
  ASSUME NEW a, Ready(a), NEW s \in BOOLEAN
  PROVE  Ready([a EXCEPT !.is_signed = s])
<1> DEFINE v == [a EXCEPT !.is_signed = s]
<1>1. /\ a.width \in Nat /\ a.is_signed \in BOOLEAN /\ a.is_fill = FALSE /\ a.is_fill \in BOOLEAN
      /\ a.val \in SUBSET Nat /\ a.xz \in SUBSET Nat /\ a.val \subseteq Mask(a.width) /\ a.xz \subseteq Mask(a.width)
      /\ a = [val |-> a.val, xz |-> a.xz, width |-> a.width, is_signed |-> a.is_signed, is_fill |-> a.is_fill]
  BY ReadyFacts, CanonFacts DEF Ready
<1>2. v = [val |-> a.val, xz |-> a.xz, width |-> a.width, is_signed |-> s, is_fill |-> a.is_fill]
  BY <1>1
<1> HIDE DEF v
<1>3. v \in Values
  BY <1>1, <1>2 DEF Values
<1>4. v.val = a.val /\ v.xz = a.xz /\ v.width = a.width /\ v.is_fill = a.is_fill
  BY <1>2
<1>5. Clear(v)
  BY <1>1, <1>4 DEF Clear
<1>6. v.is_fill = FALSE
  BY <1>1, <1>4
<1> QED
  BY <1>3, <1>5, <1>6 DEF Ready, Canon, v

\* from_u64 and from_u128 leave the bits above the width clear.
LEMMA FromNatReady ==
  ASSUME NEW n, NEW w \in Nat
  PROVE  Ready(FromNat(n, w))
<1> DEFINE c == CapWidth(w)
           val == {i \in Mask(c) : (n \div 2^i) % 2 = 1}
           none == {i \in Nat : FALSE}
           f == FALSE
<1>1. c \in Nat /\ val \subseteq Mask(c) /\ none \subseteq Mask(c) /\ f \in BOOLEAN
  BY CapFacts
<1>2. FromNat(n, w) = Plain(val, none, c, f)
  <2>1. none = {}
    OBVIOUS
  <2> HIDE DEF none
  <2> QED
    BY <2>1, Zenon DEF FromNat
<1> HIDE DEF c, val, none
<1>3. Canon(Plain(val, none, c, f))
  BY <1>1, PlainFacts
<1>4. Plain(val, none, c, f).is_fill = FALSE
  BY DEF Plain
<1> QED
  BY <1>2, <1>3, <1>4 DEF Ready

\* from_words clears the top word above the width.
LEMMA FromWordsReady ==
  ASSUME NEW x, NEW w \in Nat \ {0}
  PROVE  Ready(FromWords(x, w))
<1> DEFINE plane == UNION {{k * W + b : b \in {c \in 0 .. W-1 : (x[k] \div 2^c) % 2 = 1}} : k \in 0 .. NWords(w) - 1}
           val == MaskTop(plane, w)
           none == {i \in Nat : FALSE}
           f == FALSE
<1>1. plane \subseteq WordBits(w)
  <2>1. SUFFICES ASSUME NEW i \in plane PROVE i \in WordBits(w)
    BY <2>1
  <2>2. PICK k \in 0 .. NWords(w) - 1, b \in 0 .. W-1 : i = k * W + b
    OBVIOUS
  <2> HIDE DEF plane
  <2>3. NWords(w) \in Nat /\ W \in Nat \ {0}
    BY NWordsFacts, ValueAssumption
  <2>4. k * W + b \in Nat
    BY <2>3
  <2>5. k * W + W <= NWords(w) * W
    <3>1. k \in Nat /\ NWords(w) \in Nat /\ k < NWords(w)
      BY <2>3
    <3> QED
      BY <3>1, WordsApart
  <2>6. k * W \in Int /\ NWords(w) * W \in Int
    BY <2>3
  <2> QED
    BY <2>2, <2>3, <2>4, <2>5, <2>6 DEF WordBits
<1>2. val = plane \cap Mask(w)
  <2> HIDE DEF plane
  <2> QED
    BY <1>1, MaskTopFacts
<1>3. val \subseteq Mask(w) /\ none \subseteq Mask(w) /\ f \in BOOLEAN /\ w \in Nat
  BY <1>2
<1>4. FromWords(x, w) = Plain(val, none, w, f)
  <2>1. none = {}
    OBVIOUS
  <2> HIDE DEF none
  <2> QED
    BY <2>1, Zenon DEF FromWords
<1> HIDE DEF val, none
<1>5. Canon(Plain(val, none, w, f))
  BY <1>3, PlainFacts
<1>6. Plain(val, none, w, f).is_fill = FALSE
  BY DEF Plain
<1> QED
  BY <1>4, <1>5, <1>6 DEF Ready

\* A new value has clear planes.
LEMMA NewXReady ==
  ASSUME NEW w \in Nat
  PROVE  Ready(NewX(w))
<1>1. CapWidth(w) \in Nat /\ "x" \in LogicBit
  BY CapFacts DEF LogicBit
<1> QED
  BY <1>1, FilledValue DEF NewX, Ready

\* So has a result of one bit.
LEMMA ScalarReady ==
  ASSUME NEW bit \in LogicBit
  PROVE  Ready(Scalar(bit))
BY ScalarFacts DEF Ready

\* So has a truth value.
LEMMA TruthReady ==
  ASSUME NEW P
  PROVE  Ready(Truth(P))
<1>1. CASE P
  <2>1. Truth(P) = Scalar("1") /\ "1" \in LogicBit
    BY <1>1 DEF Truth, LogicBit
  <2> QED
    BY <2>1, ScalarReady
<1>2. CASE ~P
  <2>1. Truth(P) = Scalar("0") /\ "0" \in LogicBit
    BY <1>2 DEF Truth, LogicBit
  <2> QED
    BY <2>1, ScalarReady
<1> QED
  BY <1>1, <1>2

\* The width and the type at which two operands meet.
LEMMA Common ==
  ASSUME NEW a, Ready(a), NEW b, Ready(b)
  PROVE  Larger(a.width, b.width) \in Nat /\ BothSigned(a, b) \in BOOLEAN
BY ReadyFacts DEF Larger, BothSigned

\* Operands have clear planes once the literals among them have a width.
LEMMA PairReady ==
  ASSUME NEW a, Operand(a), NEW b, Operand(b)
  PROVE  Ready(FillPair(a, b)[1]) /\ Ready(FillPair(a, b)[2])
BY FillPairFacts DEF Agrees

\* A sum, difference or product: p in one word, q in two, x in more.
OfWidth(w, s, unknown, p, q, x) ==
  LET r == CASE w <= W -> FromNat(p, w)
             [] w > W /\ w <= 2*W -> FromNat(q, w)
             [] w > 2*W -> FromWords(x, w)
  IN IF unknown THEN NewX(w) ELSE [r EXCEPT !.is_signed = s]

\* Such a result has clear planes.
LEMMA OfWidthReady ==
  ASSUME NEW w \in Nat, NEW s \in BOOLEAN, NEW unknown \in BOOLEAN, NEW p, NEW q, NEW x
  PROVE  Ready(OfWidth(w, s, unknown, p, q, x))
<1> DEFINE r == CASE w <= W -> FromNat(p, w)
                  [] w > W /\ w <= 2*W -> FromNat(q, w)
                  [] w > 2*W -> FromWords(x, w)
<1>1. W \in Nat \ {0}
  BY ValueAssumption
<1>2. Ready(r)
  <2>1. CASE w <= W
    <3>1. ~(w > W) /\ ~(w > 2*W)
      BY <1>1, <2>1
    <3>2. r = FromNat(p, w)
      BY <2>1, <3>1, Zenon
    <3> QED
      BY <3>2, FromNatReady
  <2>2. CASE w > W /\ w <= 2*W
    <3>1. ~(w <= W) /\ ~(w > 2*W)
      BY <1>1, <2>2
    <3>2. r = FromNat(q, w)
      BY <2>2, <3>1, Zenon
    <3> QED
      BY <3>2, FromNatReady
  <2>3. CASE w > 2*W
    <3>1. ~(w <= W) /\ ~(w <= 2*W) /\ w \in Nat \ {0}
      BY <1>1, <2>3
    <3>2. r = FromWords(x, w)
      BY <2>3, <3>1, Zenon
    <3> QED
      BY <3>1, <3>2, FromWordsReady
  <2>4. w <= W \/ (w > W /\ w <= 2*W) \/ w > 2*W
    BY <1>1
  <2> QED
    BY <2>1, <2>2, <2>3, <2>4
<1>3. OfWidth(w, s, unknown, p, q, x) = IF unknown THEN NewX(w) ELSE [r EXCEPT !.is_signed = s]
  BY Zenon DEF OfWidth
<1> HIDE DEF r
<1> QED
  BY <1>2, <1>3, NewXReady, TypedReady

\* add leaves no bit above the width.
LEMMA AddReady ==
  ASSUME NEW a, Operand(a), NEW b, Operand(b)
  PROVE  Ready(Add(a, b))
<1> DEFINE l == FillPair(a, b)[1]
           r == FillPair(a, b)[2]
           w == Larger(l.width, r.width)
           s == BothSigned(l, r)
           unknown == HasXZ(l) \/ HasXZ(r)
           p == (OperandBitsU64(l, s, w) + OperandBitsU64(r, s, w)) % B
           q == (OperandBitsU128(l, s, w) + OperandBitsU128(r, s, w)) % BB
           x == WordsAdd(ArithWords(l, w, s), ArithWords(r, w, s))
<1>1. w \in Nat /\ s \in BOOLEAN /\ unknown \in BOOLEAN
  BY PairReady, Common
<1>2. Add(a, b) = OfWidth(w, s, unknown, p, q, x)
  BY Zenon DEF Add, OnFilled, Modular, OfWidth
<1> HIDE DEF w, s, unknown, p, q, x
<1> QED
  BY <1>1, <1>2, OfWidthReady

\* sub leaves no bit above the width.
LEMMA SubReady ==
  ASSUME NEW a, Operand(a), NEW b, Operand(b)
  PROVE  Ready(Sub(a, b))
<1> DEFINE l == FillPair(a, b)[1]
           r == FillPair(a, b)[2]
           w == Larger(l.width, r.width)
           s == BothSigned(l, r)
           unknown == HasXZ(l) \/ HasXZ(r)
           p == (OperandBitsU64(l, s, w) - OperandBitsU64(r, s, w)) % B
           q == (OperandBitsU128(l, s, w) - OperandBitsU128(r, s, w)) % BB
           x == WordsSub(ArithWords(l, w, s), ArithWords(r, w, s))
<1>1. w \in Nat /\ s \in BOOLEAN /\ unknown \in BOOLEAN
  BY PairReady, Common
<1>2. Sub(a, b) = OfWidth(w, s, unknown, p, q, x)
  BY Zenon DEF Sub, OnFilled, Modular, OfWidth
<1> HIDE DEF w, s, unknown, p, q, x
<1> QED
  BY <1>1, <1>2, OfWidthReady

\* mul leaves no bit above the width.
LEMMA MulReady ==
  ASSUME NEW a, Operand(a), NEW b, Operand(b)
  PROVE  Ready(Mul(a, b))
<1> DEFINE l == FillPair(a, b)[1]
           r == FillPair(a, b)[2]
           w == Larger(l.width, r.width)
           s == BothSigned(l, r)
           unknown == HasXZ(l) \/ HasXZ(r)
           p == (OperandBitsU64(l, s, w) * OperandBitsU64(r, s, w)) % B
           q == (OperandBitsU128(l, s, w) * OperandBitsU128(r, s, w)) % BB
           x == WordsMul(ArithWords(l, w, s), ArithWords(r, w, s))
<1>1. w \in Nat /\ s \in BOOLEAN /\ unknown \in BOOLEAN
  BY PairReady, Common
<1>2. Mul(a, b) = OfWidth(w, s, unknown, p, q, x)
  BY Zenon DEF Mul, OnFilled, Modular, OfWidth
<1> HIDE DEF w, s, unknown, p, q, x
<1> QED
  BY <1>1, <1>2, OfWidthReady

\* A quotient: r in one or two words, wide in more.
Divided(w, s, unknown, wide, r) ==
  CASE unknown -> NewX(w)
    [] ~unknown /\ w > 2*W -> wide
    [] ~unknown /\ w <= 2*W -> [r EXCEPT !.is_signed = s /\ ~HasXZ(r)]
\* A quotient p or q of at most two words; division by zero gives x.
Divisible(zero, s, w, p, q) == IF zero THEN NewX(w) ELSE IF s THEN FromNat(p, w) ELSE FromNat(q, w)

\* A quotient has clear planes when the arms it is taken from do.
LEMMA DividedReady ==
  ASSUME NEW w \in Nat, NEW s \in BOOLEAN, NEW unknown \in BOOLEAN, NEW wide, NEW r,
         w > 2*W => Ready(wide), Ready(r)
  PROVE  Ready(Divided(w, s, unknown, wide, r))
<1>1. W \in Nat \ {0} /\ (s /\ ~HasXZ(r)) \in BOOLEAN
  BY ValueAssumption
<1>2. CASE unknown
  <2>1. Divided(w, s, unknown, wide, r) = NewX(w)
    BY <1>2, Zenon DEF Divided
  <2> QED
    BY <2>1, NewXReady
<1>3. CASE ~unknown /\ w > 2*W
  <2>1. ~(w <= 2*W)
    BY <1>1, <1>3
  <2>2. Divided(w, s, unknown, wide, r) = wide
    BY <1>3, <2>1, Zenon DEF Divided
  <2> QED
    BY <1>3, <2>2
<1>4. CASE ~unknown /\ w <= 2*W
  <2>1. ~(w > 2*W)
    BY <1>1, <1>4
  <2>2. Divided(w, s, unknown, wide, r) = [r EXCEPT !.is_signed = s /\ ~HasXZ(r)]
    BY <1>4, <2>1, Zenon DEF Divided
  <2> QED
    BY <1>1, <2>2, TypedReady
<1>5. w > 2*W \/ w <= 2*W
  BY <1>1
<1> QED
  BY <1>2, <1>3, <1>4, <1>5

\* A quotient of at most two words has clear planes.
LEMMA DivisibleReady ==
  ASSUME NEW zero, NEW s, NEW w \in Nat, NEW p, NEW q
  PROVE  Ready(Divisible(zero, s, w, p, q))
<1>1. CASE zero
  BY <1>1, NewXReady DEF Divisible
<1>2. CASE ~zero
  <2>1. CASE s
    BY <1>2, <2>1, FromNatReady DEF Divisible
  <2>2. CASE ~s
    BY <1>2, <2>2, FromNatReady DEF Divisible
  <2> QED
    BY <2>1, <2>2
<1> QED
  BY <1>1, <1>2

\* wide_divmod leaves no bit above the width.
LEMMA WideReady ==
  ASSUME NEW a, Ready(a), NEW b, Ready(b), NEW w \in Nat \ {0}, NEW rem
  PROVE  Ready(WideDivmod(a, b, w, rem))
<1> DEFINE s == BothSigned(a, b)
           x == ArithWords(a, w, s)
           y == ArithWords(b, w, s)
           d == FromWords(DividedWords(x, y, s /\ WordsMsb(x, w), s /\ WordsMsb(y, w), rem), w)
<1>1. s \in BOOLEAN /\ Ready(d)
  BY Common, FromWordsReady
<1>2. WideDivmod(a, b, w, rem) = IF WordsIsZero(y) THEN NewX(w) ELSE [d EXCEPT !.is_signed = s]
  BY Zenon DEF WideDivmod
<1> HIDE DEF s, y, d
<1> QED
  BY <1>1, <1>2, NewXReady, TypedReady

\* div leaves no bit above the width.
LEMMA DivReady ==
  ASSUME NEW a, Operand(a), NEW b, Operand(b)
  PROVE  Ready(Div(a, b))
<1> DEFINE l == FillPair(a, b)[1]
           r == FillPair(a, b)[2]
           w == Larger(l.width, r.width)
           s == BothSigned(l, r)
           narrow == Divisible(ToU64(r) = 0, s, w, Quot(ToI64(l), ToI64(r)) % B, Quot(ToU64(l), ToU64(r)))
           double == Divisible(ToU128(r) = 0, s, w,
                       Quot(I128AtWidth(ToU128(l), l.width), I128AtWidth(ToU128(r), r.width)) % BB,
                               Quot(ToU128(l), ToU128(r)))
           q == IF w <= W THEN narrow ELSE double
           wide == WideDivmod(l, r, w, FALSE)
<1>1. Ready(l) /\ Ready(r) /\ w \in Nat /\ s \in BOOLEAN /\ (HasXZ(l) \/ HasXZ(r)) \in BOOLEAN
  BY PairReady, Common
<1>2. Div(a, b) = Divided(w, s, HasXZ(l) \/ HasXZ(r), wide, q)
  BY Zenon DEF Div, OnFilled, Division, Divided, Divisible
<1>3. Ready(q)
  <2> HIDE DEF w, s
  <2>1. Ready(narrow) /\ Ready(double)
    BY <1>1, DivisibleReady
  <2> HIDE DEF narrow, double
  <2> QED
    BY <2>1
<1>4. w > 2*W => Ready(wide)
  <2>1. w > 2*W => w \in Nat \ {0}
    BY <1>1, ValueAssumption
  <2> HIDE DEF w, l, r
  <2> QED
    BY <1>1, <2>1, WideReady
<1> HIDE DEF w, s, q, wide
<1> QED
  BY <1>1, <1>2, <1>3, <1>4, DividedReady

\* modulo leaves no bit above the width.
LEMMA ModuloReady ==
  ASSUME NEW a, Operand(a), NEW b, Operand(b)
  PROVE  Ready(Modulo(a, b))
<1> DEFINE l == FillPair(a, b)[1]
           r == FillPair(a, b)[2]
           w == Larger(l.width, r.width)
           s == BothSigned(l, r)
           narrow == Divisible(ToU64(r) = 0, s, w, Rem(ToI64(l), ToI64(r)) % B, Rem(ToU64(l), ToU64(r)))
           double == Divisible(ToU128(r) = 0, s, w,
                       Rem(I128AtWidth(ToU128(l), l.width), I128AtWidth(ToU128(r), r.width)) % BB,
                               Rem(ToU128(l), ToU128(r)))
           q == IF w <= W THEN narrow ELSE double
           wide == WideDivmod(l, r, w, TRUE)
<1>1. Ready(l) /\ Ready(r) /\ w \in Nat /\ s \in BOOLEAN /\ (HasXZ(l) \/ HasXZ(r)) \in BOOLEAN
  BY PairReady, Common
<1>2. Modulo(a, b) = Divided(w, s, HasXZ(l) \/ HasXZ(r), wide, q)
  BY Zenon DEF Modulo, OnFilled, Division, Divided, Divisible
<1>3. Ready(q)
  <2> HIDE DEF w, s
  <2>1. Ready(narrow) /\ Ready(double)
    BY <1>1, DivisibleReady
  <2> HIDE DEF narrow, double
  <2> QED
    BY <2>1
<1>4. w > 2*W => Ready(wide)
  <2>1. w > 2*W => w \in Nat \ {0}
    BY <1>1, ValueAssumption
  <2> HIDE DEF w, l, r
  <2> QED
    BY <1>1, <2>1, WideReady
<1> HIDE DEF w, s, q, wide
<1> QED
  BY <1>1, <1>2, <1>3, <1>4, DividedReady

\* negate leaves no bit above the width.
LEMMA NegateReady ==
  ASSUME NEW a, Ready(a)
  PROVE  Ready(Negate(a))
<1>1. a.width \in Nat /\ a.is_signed \in BOOLEAN /\ W \in Nat \ {0}
  BY ReadyFacts, ValueAssumption
<1> DEFINE n == (B - ToU64(a)) % B
           x == WordsNeg(ArithWords(a, a.width, FALSE))
<1>2. CASE HasXZ(a)
  <2>1. Negate(a) = [NewX(a.width) EXCEPT !.is_signed = a.is_signed]
    BY <1>2, Zenon DEF Negate
  <2>2. Ready(NewX(a.width))
    BY <1>1, NewXReady
  <2> QED
    BY <1>1, <2>1, <2>2, TypedReady
<1>3. CASE ~HasXZ(a) /\ a.width > W
  <2>1. ~(a.width <= W) /\ a.width \in Nat \ {0}
    BY <1>1, <1>3
  <2>2. Negate(a) = [FromWords(x, a.width) EXCEPT !.is_signed = a.is_signed]
    BY <1>3, <2>1, Zenon DEF Negate
  <2>3. Ready(FromWords(x, a.width))
    BY <2>1, FromWordsReady
  <2> QED
    BY <1>1, <2>2, <2>3, TypedReady
<1>4. CASE ~HasXZ(a) /\ a.width <= W
  <2>1. ~(a.width > W)
    BY <1>1, <1>4
  <2>2. Negate(a) = [FromNat(n, a.width) EXCEPT !.is_signed = a.is_signed]
    BY <1>4, <2>1, Zenon DEF Negate
  <2>3. Ready(FromNat(n, a.width))
    BY <1>1, FromNatReady
  <2> QED
    BY <1>1, <2>2, <2>3, TypedReady
<1>5. a.width > W \/ a.width <= W
  BY <1>1
<1> QED
  BY <1>2, <1>3, <1>4, <1>5

\* A power: p where the exponent is negative, q in two words, x in more.
Raised(w, s, unknown, negative, p, q, x) ==
  LET v == CASE negative -> FromNat(p, w)
             [] ~negative /\ w > 2*W -> FromWords(x, w)
             [] ~negative /\ w <= 2*W -> FromNat(q, w)
  IN IF unknown THEN NewX(w) ELSE [v EXCEPT !.is_signed = s]

\* A power has clear planes.
LEMMA RaisedReady ==
  ASSUME NEW w \in Nat, NEW s \in BOOLEAN, NEW unknown \in BOOLEAN, NEW negative \in BOOLEAN, NEW p, NEW q, NEW x
  PROVE  Ready(Raised(w, s, unknown, negative, p, q, x))
<1> DEFINE v == CASE negative -> FromNat(p, w)
                  [] ~negative /\ w > 2*W -> FromWords(x, w)
                  [] ~negative /\ w <= 2*W -> FromNat(q, w)
<1>1. W \in Nat \ {0}
  BY ValueAssumption
<1>2. Ready(v)
  <2>1. CASE negative
    <3>1. v = FromNat(p, w)
      BY <2>1, Zenon
    <3> QED
      BY <3>1, FromNatReady
  <2>2. CASE ~negative /\ w > 2*W
    <3>1. ~(w <= 2*W) /\ w \in Nat \ {0}
      BY <1>1, <2>2
    <3>2. v = FromWords(x, w)
      BY <2>2, <3>1, Zenon
    <3> QED
      BY <3>1, <3>2, FromWordsReady
  <2>3. CASE ~negative /\ w <= 2*W
    <3>1. ~(w > 2*W)
      BY <1>1, <2>3
    <3>2. v = FromNat(q, w)
      BY <2>3, <3>1, Zenon
    <3> QED
      BY <3>2, FromNatReady
  <2>4. w > 2*W \/ w <= 2*W
    BY <1>1
  <2> QED
    BY <2>1, <2>2, <2>3, <2>4
<1>3. Raised(w, s, unknown, negative, p, q, x) = IF unknown THEN NewX(w) ELSE [v EXCEPT !.is_signed = s]
  BY Zenon DEF Raised
<1> HIDE DEF v
<1> QED
  BY <1>2, <1>3, NewXReady, TypedReady

\* power leaves no bit above the width.
LEMMA PowerReady ==
  ASSUME NEW a, Ready(a), NEW b, Canon(b)
  PROVE  Ready(Power(a, b))
<1> DEFINE s == BothSigned(a, b)
           e == ToU64(b)
           NegExp == LET base == ToI64(a)
                     IN IF base = 1 \/ (base = -1 /\ ToI64(b) % 2 = 0) THEN 1
                        ELSE IF base = -1 THEN B - 1 ELSE 0
           r[k \in 0 .. Smaller(e, PowCap)] == IF k = 0 THEN 1 ELSE (r[k-1] * ToU128(a)) % BB
           sq[k \in 0 .. W] == IF k = 0 THEN ArithWords(a, a.width, FALSE)
                               ELSE LET q == sq[k-1] IN WordsMul(q, q)
           one == [k \in 0 .. NWords(a.width) - 1 |-> IF k = 0 THEN 1 ELSE 0]
           prod[k \in 0 .. W] == IF k = 0 THEN one
                                 ELSE LET q == prod[k-1]
                                      IN IF (e \div 2^(k-1)) % 2 = 1 THEN WordsMul(q, sq[k-1]) ELSE q
           neg == b.is_signed /\ ToI64(b) < 0
<1>1. a.width \in Nat /\ s \in BOOLEAN /\ neg \in BOOLEAN /\ (HasXZ(a) \/ HasXZ(b)) \in BOOLEAN
  BY ReadyFacts DEF BothSigned
<1>2. Power(a, b) = Raised(a.width, s, HasXZ(a) \/ HasXZ(b), neg, NegExp, r[Smaller(e, PowCap)], prod[W])
  BY Zenon DEF Power, Raised
<1> HIDE DEF s, neg, NegExp, r, prod
<1> QED
  BY <1>1, <1>2, RaisedReady

-----------------------------------------------------------------------------
(* Comparisons *)

\* is_equal yields one bit.
LEMMA EqualReady ==
  ASSUME NEW a, Operand(a), NEW b, Operand(b)
  PROVE  Ready(IsEqual(a, b))
<1> DEFINE l == FillPair(a, b)[1]
           r == FillPair(a, b)[2]
           w == Larger(l.width, r.width)
           s == BothSigned(l, r)
           p == [i \in Mask(w) |-> OperandBit(l, r, w, i)]
           q == [i \in Mask(w) |-> OperandBit(r, l, w, i)]
           bit == IF w = 0 THEN "1"
                  ELSE IF \E i \in Mask(w) : p[i] \in Known /\ q[i] \in Known /\ p[i] # q[i] THEN "0" ELSE "x"
           same == IF l.width # r.width THEN ToU64(Widen(l, s, w)) = ToU64(Widen(r, s, w)) ELSE ToU64(l) = ToU64(r)
<1>1. w \in Nat /\ W \in Nat
  BY PairReady, Common, ValueAssumption
<1>2. IsEqual(a, b) = EqualAt(l, r)
  BY DEF IsEqual, OnFilled
<1>3. CASE HasXZ(l) \/ HasXZ(r)
  <2>1. EqualAt(l, r) = IF w = 0 THEN Scalar("1")
                        ELSE IF \E i \in Mask(w) : p[i] \in Known /\ q[i] \in Known /\ p[i] # q[i]
                        THEN Scalar("0") ELSE Scalar("x")
    BY <1>3, Zenon DEF EqualAt
  <2>2. EqualAt(l, r) = Scalar(bit)
    <3> HIDE DEF p, q, w
    <3> QED
      BY <2>1
  <2>3. bit \in LogicBit
    BY DEF LogicBit
  <2> QED
    BY <1>2, <2>2, <2>3, ScalarReady
<1>4. CASE ~(HasXZ(l) \/ HasXZ(r)) /\ w > W
  <2>1. ~(w <= W)
    BY <1>1, <1>4
  <2>2. EqualAt(l, r) = Truth(WideCmp(l, r) = 0)
    BY <1>4, <2>1, Zenon DEF EqualAt
  <2> QED
    BY <1>2, <2>2, TruthReady
<1>5. CASE ~(HasXZ(l) \/ HasXZ(r)) /\ w <= W
  <2>1. ~(w > W)
    BY <1>1, <1>5
  <2>2. EqualAt(l, r) = Truth(same)
    BY <1>5, <2>1, Zenon DEF EqualAt
  <2> QED
    BY <1>2, <2>2, TruthReady
<1>6. w > W \/ w <= W
  BY <1>1
<1> QED
  BY <1>3, <1>4, <1>5, <1>6

\* is_not_equal yields one bit.
LEMMA NotEqualReady ==
  ASSUME NEW a, NEW b
  PROVE  Ready(IsNotEqual(a, b))
<1> DEFINE bit == NotBit(GetBit(IsEqual(a, b), 0))
<1>1. bit \in LogicBit
  BY DEF NotBit, LogicBit
<1> QED
  BY <1>1, ScalarReady DEF IsNotEqual

\* A relation, or x.
Related(unknown, P) == IF unknown THEN NewX(1) ELSE Truth(P)

\* A relation yields one bit.
LEMMA RelatedReady ==
  ASSUME NEW unknown, NEW P
  PROVE  Ready(Related(unknown, P))
<1>1. 1 \in Nat
  OBVIOUS
<1> QED
  BY <1>1, NewXReady, TruthReady DEF Related

\* less_than and less_equal yield one bit.
LEMMA LessReady ==
  ASSUME NEW a, NEW b
  PROVE  Ready(LessThan(a, b)) /\ Ready(LessEqual(a, b))
<1> DEFINE l == FillPair(a, b)[1]
           r == FillPair(a, b)[2]
           Sign(m, n) == IF m < n THEN -1 ELSE IF m = n THEN 0 ELSE 1
           cmp == CASE l.width > W \/ r.width > W -> WideCmp(l, r)
                    [] ~(l.width > W \/ r.width > W) ->
                         IF BothSigned(l, r) THEN Sign(ToI64(l), ToI64(r)) ELSE Sign(ToU64(l), ToU64(r))
<1>1. LessThan(a, b) = Related(HasXZ(l) \/ HasXZ(r), cmp = -1)
  BY Zenon DEF LessThan, OnFilled, Relational, Related
<1>2. LessEqual(a, b) = Related(HasXZ(l) \/ HasXZ(r), cmp # 1)
  BY Zenon DEF LessEqual, OnFilled, Relational, Related
<1> QED
  BY <1>1, <1>2, RelatedReady

-----------------------------------------------------------------------------
(* Sequences of operations *)

\* The inductive invariant: an operator relies on the clear planes of its operands to
\* yield the bits it should, and leaves its result so.
IInv == /\ group \in Groups
        /\ Ready(acc) /\ acc.width <= Widest
        /\ group # "arith" => ref = Abstract(acc)

\* An operand that is not a literal.
LEMMA PlainOperand ==
  ASSUME NEW a, Operand(a), ~a.is_fill
  PROVE  Ready(a)
<1>1. Canon(a)
  BY OperandFacts
<1>2. a.is_fill = FALSE
  BY <1>1, CanonFacts
<1> QED
  BY <1>1, <1>2 DEF Ready

\* The values and the indexes that an operation takes.
LEMMA InputFacts ==
  ASSUME IInv
  PROVE  /\ Operand(acc) /\ Ready(acc) /\ Canon(acc) /\ ~acc.is_fill
         /\ \A b \in Rights : Operand(b) /\ Canon(b)
         /\ \A b \in PlainRights : Operand(b) /\ Ready(b) /\ ~b.is_fill
         /\ \A b \in Amounts : Operand(b) /\ Canon(b)
         /\ Bounds \subseteq Int
<1>1. Ready(acc) /\ acc.width <= Widest /\ group \in Groups
  BY DEF IInv
<1>2. Canon(acc) /\ acc.is_fill = FALSE
  BY <1>1 DEF Ready
<1>3. Operand(acc)
  BY <1>1, <1>2 DEF Operand, Canon
<1>4. \A b \in Rights : Operand(b)
  BY <1>1, OpsAssumption DEF Rights
<1>5. \A b \in Amounts : Operand(b)
  BY <1>1, OpsAssumption DEF Amounts
<1>6. Bounds \subseteq Int
  BY <1>1, OpsAssumption DEF Bounds
<1>7. \A b \in PlainRights : b \in Rights /\ ~b.is_fill
  BY DEF PlainRights
<1>8. \A b \in PlainRights : Operand(b) /\ Ready(b) /\ ~b.is_fill
  <2> TAKE b \in PlainRights
  <2>1. Operand(b) /\ ~b.is_fill
    BY <1>4, <1>7
  <2>2. Ready(b)
    BY <2>1, PlainOperand
  <2> QED
    BY <2>1, <2>2
<1>9. \A b : Operand(b) => Canon(b)
  BY OperandFacts
<1> QED
  BY <1>1, <1>2, <1>3, <1>4, <1>5, <1>6, <1>8, <1>9

\* A step whose two results agree keeps the invariant.
LEMMA DoFacts ==
  ASSUME NEW v, NEW r, IInv, Do(v, r), Agrees(v, r)
  PROVE  IInv'
<1>1. acc' = v /\ ref' = r /\ group' = group /\ v.width <= Widest
  BY DEF Do
<1>2. Ready(v) /\ r = Abstract(v) /\ group \in Groups
  BY DEF Agrees, IInv
<1>3. Ready(acc') /\ acc'.width <= Widest /\ ref' = Abstract(acc') /\ group' \in Groups
  BY <1>1, <1>2
<1> QED
  BY <1>3 DEF IInv

\* So does one whose results agree but for the type, where none is claimed.
LEMMA DoUntypedFacts ==
  ASSUME NEW v, NEW r, IInv, DoUntyped(v, r), AgreesUntyped(v, r)
  PROVE  IInv'
<1>1. Do(v, [r EXCEPT !.is_signed = v.is_signed]) /\ Agrees(v, [r EXCEPT !.is_signed = v.is_signed])
  BY DEF DoUntyped, AgreesUntyped, Agrees
<1> QED
  BY <1>1, DoFacts

\* In the arithmetic group, clear planes are enough.
LEMMA DoReady ==
  ASSUME NEW v, NEW r, IInv, group = "arith", Do(v, r), Ready(v)
  PROVE  IInv'
<1>1. acc' = v /\ group' = "arith" /\ v.width <= Widest
  BY DEF Do
<1>2. Ready(acc') /\ acc'.width <= Widest /\ group' \in Groups
  BY <1>1 DEF IInv
<1> QED
  BY <1>1, <1>2 DEF IInv

\* The bitwise operators, the comparisons by bits and the truth operators keep the
\* invariant.
LEMMA BitsStep ==
  ASSUME IInv, group = "bits", NextBits
  PROVE  IInv'
<1>1. /\ Operand(acc) /\ Ready(acc) /\ Canon(acc) /\ ~acc.is_fill
      /\ \A b \in Rights : Operand(b) /\ Canon(b)
      /\ \A b \in PlainRights : Operand(b) /\ Ready(b) /\ ~b.is_fill
  BY InputFacts
<1>2. ref = Abstract(acc)
  BY DEF IInv
<1>3. ASSUME And PROVE IInv'
  <2>1. PICK b \in Rights : \/ Do(BitwiseAnd(acc, b), R!And(ref, Abstract(b)))
                            \/ Do(BitwiseAnd(b, acc), R!And(Abstract(b), ref))
    BY <1>3 DEF And, Binary
  <2>2. Agrees(BitwiseAnd(acc, b), R!And(ref, Abstract(b))) /\ Agrees(BitwiseAnd(b, acc), R!And(Abstract(b), ref))
    BY <1>1, <1>2, AndFacts
  <2> QED
    BY <2>1, <2>2, DoFacts
<1>4. ASSUME Or PROVE IInv'
  <2>1. PICK b \in Rights : \/ Do(BitwiseOr(acc, b), R!Or(ref, Abstract(b)))
                            \/ Do(BitwiseOr(b, acc), R!Or(Abstract(b), ref))
    BY <1>4 DEF Or, Binary
  <2>2. Agrees(BitwiseOr(acc, b), R!Or(ref, Abstract(b))) /\ Agrees(BitwiseOr(b, acc), R!Or(Abstract(b), ref))
    BY <1>1, <1>2, OrFacts
  <2> QED
    BY <2>1, <2>2, DoFacts
<1>5. ASSUME Xor PROVE IInv'
  <2>1. PICK b \in Rights : \/ Do(BitwiseXor(acc, b), R!Xor(ref, Abstract(b)))
                            \/ Do(BitwiseXor(b, acc), R!Xor(Abstract(b), ref))
    BY <1>5 DEF Xor, Binary
  <2>2. Agrees(BitwiseXor(acc, b), R!Xor(ref, Abstract(b))) /\ Agrees(BitwiseXor(b, acc), R!Xor(Abstract(b), ref))
    BY <1>1, <1>2, XorFacts
  <2> QED
    BY <2>1, <2>2, DoFacts
<1>6. ASSUME Xnor PROVE IInv'
  <2>1. PICK b \in Rights : \/ Do(BitwiseXnor(acc, b), R!Xnor(ref, Abstract(b)))
                            \/ Do(BitwiseXnor(b, acc), R!Xnor(Abstract(b), ref))
    BY <1>6 DEF Xnor, Binary
  <2>2. Agrees(BitwiseXnor(acc, b), R!Xnor(ref, Abstract(b))) /\ Agrees(BitwiseXnor(b, acc), R!Xnor(Abstract(b), ref))
    BY <1>1, <1>2, XnorFacts
  <2> QED
    BY <2>1, <2>2, DoFacts
<1>7. ASSUME Not PROVE IInv'
  <2>1. Do(BitwiseNot(acc), R!Not(ref)) /\ Agrees(BitwiseNot(acc), R!Not(ref))
    BY <1>1, <1>2, <1>7, NotFacts DEF Not
  <2> QED
    BY <2>1, DoFacts
<1>8. ASSUME Merge PROVE IInv'
  <2>1. PICK b \in PlainRights : DoUntyped(MergeUnknown(acc, b), R!Merge(ref, Abstract(b)))
    BY <1>8 DEF Merge
  <2>2. Agrees(MergeUnknown(acc, b), [R!Merge(ref, Abstract(b)) EXCEPT !.is_signed = MergeUnknown(acc, b).is_signed])
    BY <1>1, <1>2, MergeFacts
  <2>3. AgreesUntyped(MergeUnknown(acc, b), R!Merge(ref, Abstract(b)))
    BY <2>2 DEF AgreesUntyped, Agrees
  <2> QED
    BY <2>1, <2>3, DoUntypedFacts
<1>9. ASSUME CaseEquality PROVE IInv'
  <2>1. PICK b \in Rights : \/ Do(CaseEq(acc, b), R!Match(ref, Abstract(b), {}))
                            \/ Do(CaseEq(b, acc), R!Match(Abstract(b), ref, {}))
    BY <1>9 DEF CaseEquality, Binary
  <2>2. Agrees(CaseEq(acc, b), R!Match(ref, Abstract(b), {})) /\ Agrees(CaseEq(b, acc), R!Match(Abstract(b), ref, {}))
    BY <1>1, <1>2, CaseEqFacts
  <2> QED
    BY <2>1, <2>2, DoFacts
<1>10. ASSUME Casez PROVE IInv'
  <2>1. PICK b \in Rights : \/ Do(CasezEq(acc, b), R!Match(ref, Abstract(b), {"z"}))
                            \/ Do(CasezEq(b, acc), R!Match(Abstract(b), ref, {"z"}))
    BY <1>10 DEF Casez, Binary
  <2>2. Agrees(CasezEq(acc, b), R!Match(ref, Abstract(b), {"z"}))
          /\ Agrees(CasezEq(b, acc), R!Match(Abstract(b), ref, {"z"}))
    BY <1>1, <1>2, CasezEqFacts
  <2> QED
    BY <2>1, <2>2, DoFacts
<1>11. ASSUME Casex PROVE IInv'
  <2>1. PICK b \in Rights : \/ Do(CasexEq(acc, b), R!Match(ref, Abstract(b), {"x", "z"}))
                            \/ Do(CasexEq(b, acc), R!Match(Abstract(b), ref, {"x", "z"}))
    BY <1>11 DEF Casex, Binary
  <2>2. Agrees(CasexEq(acc, b), R!Match(ref, Abstract(b), {"x", "z"}))
          /\ Agrees(CasexEq(b, acc), R!Match(Abstract(b), ref, {"x", "z"}))
    BY <1>1, <1>2, CasexEqFacts
  <2> QED
    BY <2>1, <2>2, DoFacts
<1>12. ASSUME Wildcard PROVE IInv'
  <2>1. PICK b \in PlainRights : \/ Do(WildcardEq(acc, b), R!Wildcard(ref, Abstract(b)))
                                 \/ Do(WildcardNe(acc, b), R!Not(R!Wildcard(ref, Abstract(b))))
    BY <1>12 DEF Wildcard
  <2>2. Agrees(WildcardEq(acc, b), R!Wildcard(ref, Abstract(b)))
          /\ Agrees(WildcardNe(acc, b), R!Not(R!Wildcard(ref, Abstract(b))))
    BY <1>1, <1>2, WildcardFacts
  <2> QED
    BY <2>1, <2>2, DoFacts
<1>13. ASSUME Logic PROVE IInv'
  <2> DEFINE p == R!Nonzero(ref)
             q(b) == R!Nonzero(Abstract(b))
  <2>1. PICK b \in Rights : \/ Do(LogicAnd(acc, b), R!One(R!AndB(p, q(b))))
                            \/ Do(LogicOr(acc, b), R!One(R!OrB(p, q(b))))
                            \/ Do(LogicImpl(acc, b), R!One(R!OrB(R!NotB(p), q(b))))
                            \/ Do(LogicEquiv(acc, b), R!One(R!NotB(R!XorB(p, q(b)))))
    BY <1>13 DEF Logic, R!Logic
  <2>2. /\ Agrees(LogicAnd(acc, b), R!One(R!AndB(p, q(b))))
        /\ Agrees(LogicOr(acc, b), R!One(R!OrB(p, q(b))))
        /\ Agrees(LogicImpl(acc, b), R!One(R!OrB(R!NotB(p), q(b))))
        /\ Agrees(LogicEquiv(acc, b), R!One(R!NotB(R!XorB(p, q(b)))))
    BY <1>1, <1>2, LogicFacts
  <2> HIDE DEF p, q
  <2> QED
    BY <2>1, <2>2, DoFacts
<1>14. ASSUME Truths PROVE IInv'
  <2>1. \/ Do(LogicNot(acc), R!One(R!NotB(R!Nonzero(ref))))
        \/ Do(ReduceAnd(acc), R!ReduceAnd(ref))
        \/ Do(ReduceOr(acc), R!One(R!Nonzero(ref)))
        \/ Do(ReduceXor(acc), R!ReduceXor(ref))
    BY <1>14 DEF Truths
  <2>2. /\ Agrees(LogicNot(acc), R!One(R!NotB(R!Nonzero(ref))))
        /\ Agrees(ReduceAnd(acc), R!ReduceAnd(ref))
        /\ Agrees(ReduceOr(acc), R!One(R!Nonzero(ref)))
        /\ Agrees(ReduceXor(acc), R!ReduceXor(ref))
    BY <1>1, <1>2, LogicFacts, ReduceFacts, ReduceXorFacts
  <2> QED
    BY <2>1, <2>2, DoFacts
<1> QED
  BY <1>3, <1>4, <1>5, <1>6, <1>7, <1>8, <1>9, <1>10, <1>11, <1>12, <1>13, <1>14 DEF NextBits

\* Shifts, selects, concatenation, replication and width changes keep it.
LEMMA MovesStep ==
  ASSUME IInv, group = "moves", NextMoves
  PROVE  IInv'
<1>1. Ready(acc) /\ Canon(acc) /\ acc.width <= Widest /\ ref = Abstract(acc)
  BY InputFacts DEF IInv
<1>2. \A b \in Rights : Canon(b)
  BY InputFacts
<1>3. \A b \in Amounts : Operand(b) /\ (HasXZ(b) \/ (Amount(b) \in Nat /\ Amount(b) = R!Num(Abstract(b))))
  BY InputFacts, RangeAssumption DEF Amounts
<1>4. /\ Bounds \subseteq Int
      /\ \A i \in Bounds : i >= 0 => i \in Nat /\ i % 2^IndexBits = i
      /\ \A hi, lo \in Bounds : hi - lo < MaxWidth
  <2>1. Bounds \subseteq Int /\ Bounds = Indices["moves"]
    BY InputFacts DEF Bounds
  <2> QED
    BY <2>1, RangeAssumption
<1>5. ASSUME ShiftL PROVE IInv'
  <2>1. PICK b \in Amounts : DoUntyped(ShiftLeft(acc, b), R!ShiftUp(ref, Abstract(b)))
    BY <1>5 DEF ShiftL
  <2>2. AgreesUntyped(ShiftLeft(acc, b), R!ShiftUp(ref, Abstract(b)))
    BY <1>1, <1>3, ShiftLeftFacts
  <2> QED
    BY <2>1, <2>2, DoUntypedFacts
<1>6. ASSUME ShiftR PROVE IInv'
  <2>1. PICK b \in Amounts : DoUntyped(ShiftRight(acc, b), R!ShiftDown(ref, Abstract(b), FALSE))
    BY <1>6 DEF ShiftR
  <2>2. AgreesUntyped(ShiftRight(acc, b), R!ShiftDown(ref, Abstract(b), FALSE))
    BY <1>1, <1>3, ShiftRightFacts
  <2> QED
    BY <2>1, <2>2, DoUntypedFacts
<1>7. ASSUME ShiftA PROVE IInv'
  <2>1. PICK b \in Amounts : DoUntyped(ArithShiftRight(acc, b), R!ShiftDown(ref, Abstract(b), ref.is_signed))
    BY <1>7 DEF ShiftA
  <2>2. ref.is_signed = acc.is_signed
    BY <1>1, AbstractFacts
  <2>3. AgreesUntyped(ArithShiftRight(acc, b), R!ShiftDown(ref, Abstract(b), acc.is_signed))
    BY <1>1, <1>3, ArithShiftRightFacts
  <2> QED
    BY <2>1, <2>2, <2>3, DoUntypedFacts
<1>8. ASSUME SelectBit PROVE IInv'
  <2>1. PICK i \in Bounds : i >= 0 /\ Do(BitSelect(acc, i), R!Select(ref, i, i))
    BY <1>8 DEF SelectBit
  <2>2. Agrees(BitSelect(acc, i), R!Select(ref, i, i))
    BY <1>1, <1>4, <2>1, BitSelectFacts
  <2> QED
    BY <2>1, <2>2, DoFacts
<1>9. ASSUME SelectRange PROVE IInv'
  <2>1. PICK hi \in Bounds, lo \in Bounds :
          lo >= 0 /\ hi >= lo /\ Do(RangeSelect(acc, hi, lo), R!Select(ref, hi, lo))
    BY <1>9 DEF SelectRange
  <2>2. hi \in Int /\ lo \in Nat /\ hi >= lo /\ hi - lo < MaxWidth
    BY <1>4, <2>1
  <2>3. Agrees(RangeSelect(acc, hi, lo), R!Select(ref, hi, lo))
    BY <1>1, <2>2, RangeSelectFacts
  <2> QED
    BY <2>1, <2>3, DoFacts
<1>10. ASSUME SelectSigned PROVE IInv'
  <2>1. PICK hi \in Bounds, lo \in Bounds : Do(RangeSelectSigned(acc, hi, lo), R!Select(ref, hi, lo))
    BY <1>10 DEF SelectSigned
  <2>2. hi \in Int /\ lo \in Int /\ hi - lo < MaxWidth
    BY <1>4
  <2>3. Agrees(RangeSelectSigned(acc, hi, lo), R!Select(ref, hi, lo))
    BY <1>1, <2>2, SignedSelectFacts
  <2> QED
    BY <2>1, <2>3, DoFacts
<1>11. ASSUME Join PROVE IInv'
  <2>1. PICK b \in Rights : \/ Do(Concat(acc, b), R!Concat(ref, Abstract(b)))
                            \/ Do(Concat(b, acc), R!Concat(Abstract(b), ref))
    BY <1>11 DEF Join, Binary
  <2>2. CASE Do(Concat(acc, b), R!Concat(ref, Abstract(b)))
    <3>1. Concat(acc, b).width <= Widest
      BY <2>2 DEF Do
    <3>2. Agrees(Concat(acc, b), R!Concat(ref, Abstract(b)))
      BY <1>1, <1>2, <3>1, ConcatFacts
    <3> QED
      BY <2>2, <3>2, DoFacts
  <2>3. CASE Do(Concat(b, acc), R!Concat(Abstract(b), ref))
    <3>1. Concat(b, acc).width <= Widest
      BY <2>3 DEF Do
    <3>2. Agrees(Concat(b, acc), R!Concat(Abstract(b), ref))
      BY <1>1, <1>2, <3>1, ConcatFacts
    <3> QED
      BY <2>3, <3>2, DoFacts
  <2> QED
    BY <2>1, <2>2, <2>3
<1>12. ASSUME Repeat PROVE IInv'
  <2>1. PICK n \in Bounds : n >= 0 /\ Do(Replicate(acc, n), R!Replicate(ref, n))
    BY <1>12 DEF Repeat
  <2>2. Replicate(acc, n).width <= Widest
    BY <2>1 DEF Do
  <2>3. Agrees(Replicate(acc, n), R!Replicate(ref, n))
    BY <1>1, <1>4, <2>1, <2>2, ReplicateFacts
  <2> QED
    BY <2>1, <2>3, DoFacts
<1>13. ASSUME Extend PROVE IInv'
  <2>1. PICK n \in Bounds : n >= 0 /\ Do(Resize(acc, n), R!Resize(ref, n))
    BY <1>13 DEF Extend
  <2>2. Agrees(Resize(acc, n), R!Resize(ref, n))
    BY <1>1, <1>4, <2>1, ResizeFacts
  <2> QED
    BY <2>1, <2>2, DoFacts
<1>14. ASSUME Assign PROVE IInv'
  <2>1. PICK n \in Bounds : n >= 0 /\ Do(ResizeForAssign(acc, n), R!ResizeForAssign(ref, n))
    BY <1>14 DEF Assign
  <2>2. Agrees(ResizeForAssign(acc, n), R!ResizeForAssign(ref, n))
    BY <1>1, <1>4, <2>1, AssignFacts
  <2> QED
    BY <2>1, <2>2, DoFacts
<1>15. ASSUME Coerce PROVE IInv'
  <2>1. Do(ToTwoState(acc), R!TwoState(ref)) /\ Agrees(ToTwoState(acc), R!TwoState(ref))
    BY <1>1, <1>15, TwoStateFacts DEF Coerce
  <2> QED
    BY <2>1, DoFacts
<1> QED
  BY <1>5, <1>6, <1>7, <1>8, <1>9, <1>10, <1>11, <1>12, <1>13, <1>14, <1>15 DEF NextMoves

\* Writes in place keep it.
LEMMA WritesStep ==
  ASSUME IInv, group = "writes", NextWrites
  PROVE  IInv'
<1>1. Ready(acc) /\ ref = Abstract(acc) /\ Bounds \subseteq Int
  BY InputFacts DEF IInv
<1>2. \A b \in PlainRights : Ready(b)
  BY InputFacts
<1>3. ASSUME Write PROVE IInv'
  <2>1. PICK b \in PlainRights, d \in Bounds, s \in Bounds, n \in Bounds :
          /\ d >= 0 /\ s >= 0 /\ n > 0
          /\ Do(CopyBitsFrom(acc, d, b, s, n), R!Write(ref, d, Abstract(b), s, n))
    BY <1>3 DEF Write
  <2>2. d \in Nat /\ s \in Nat /\ n \in Nat
    BY <1>1, <2>1
  <2>3. Agrees(CopyBitsFrom(acc, d, b, s, n), R!Write(ref, d, Abstract(b), s, n))
    BY <1>1, <1>2, <2>2, WriteFacts
  <2> QED
    BY <2>1, <2>3, DoFacts
<1>4. ASSUME WriteBit PROVE IInv'
  <2>1. PICK i \in Bounds, bit \in LogicBit : i >= 0 /\ Do(SetBit(acc, i, bit), R!Write(ref, i, R!One(bit), 0, 1))
    BY <1>4 DEF WriteBit
  <2>2. Agrees(SetBit(acc, i, bit), R!Write(ref, i, R!One(bit), 0, 1))
    BY <1>1, <2>1, SetBitFacts
  <2> QED
    BY <2>1, <2>2, DoFacts
<1> QED
  BY <1>3, <1>4 DEF NextWrites

\* Arithmetic and the relational operators keep it.
LEMMA ArithStep ==
  ASSUME IInv, group = "arith", NextArith
  PROVE  IInv'
<1>1. Operand(acc) /\ Ready(acc)
  BY InputFacts
<1>2. (\A b \in Rights : Operand(b)) /\ (\A b \in Amounts : Canon(b))
  BY InputFacts
<1>3. ASSUME Addition PROVE IInv'
  <2>1. PICK b \in Rights : \/ Do(Add(acc, b), R!Add(ref, Abstract(b)))
                            \/ Do(Add(b, acc), R!Add(Abstract(b), ref))
    BY <1>3 DEF Addition, Binary
  <2> QED
    BY <1>1, <1>2, <2>1, AddReady, DoReady
<1>4. ASSUME Difference PROVE IInv'
  <2>1. PICK b \in Rights : \/ Do(Sub(acc, b), R!Sub(ref, Abstract(b)))
                            \/ Do(Sub(b, acc), R!Sub(Abstract(b), ref))
    BY <1>4 DEF Difference, Binary
  <2> QED
    BY <1>1, <1>2, <2>1, SubReady, DoReady
<1>5. ASSUME Product PROVE IInv'
  <2>1. PICK b \in Rights : \/ Do(Mul(acc, b), R!Mul(ref, Abstract(b)))
                            \/ Do(Mul(b, acc), R!Mul(Abstract(b), ref))
    BY <1>5 DEF Product, Binary
  <2> QED
    BY <1>1, <1>2, <2>1, MulReady, DoReady
<1>6. ASSUME Quotient PROVE IInv'
  <2>1. PICK b \in Rights : \/ Do(Div(acc, b), R!Div(ref, Abstract(b)))
                            \/ Do(Div(b, acc), R!Div(Abstract(b), ref))
    BY <1>6 DEF Quotient, Binary
  <2> QED
    BY <1>1, <1>2, <2>1, DivReady, DoReady
<1>7. ASSUME Remainder PROVE IInv'
  <2>1. PICK b \in Rights : \/ Do(Modulo(acc, b), R!Modulo(ref, Abstract(b)))
                            \/ Do(Modulo(b, acc), R!Modulo(Abstract(b), ref))
    BY <1>7 DEF Remainder, Binary
  <2> QED
    BY <1>1, <1>2, <2>1, ModuloReady, DoReady
<1>8. ASSUME Minus PROVE IInv'
  BY <1>1, <1>8, NegateReady, DoReady DEF Minus
<1>9. ASSUME Raise PROVE IInv'
  <2>1. PICK b \in Amounts : Do(Power(acc, b), R!Power(ref, Abstract(b)))
    BY <1>9 DEF Raise
  <2> QED
    BY <1>1, <1>2, <2>1, PowerReady, DoReady
<1>10. ASSUME Equality PROVE IInv'
  <2>1. PICK b \in Rights : \/ Do(IsEqual(acc, b), R!Equal(ref, Abstract(b)))
                            \/ Do(IsEqual(b, acc), R!Equal(Abstract(b), ref))
    BY <1>10 DEF Equality, Binary
  <2> QED
    BY <1>1, <1>2, <2>1, EqualReady, DoReady
<1>11. ASSUME Inequality PROVE IInv'
  <2>1. PICK b \in Rights : \/ Do(IsNotEqual(acc, b), R!NotEqual(ref, Abstract(b)))
                            \/ Do(IsNotEqual(b, acc), R!NotEqual(Abstract(b), ref))
    BY <1>11 DEF Inequality, Binary
  <2> QED
    BY <2>1, NotEqualReady, DoReady
<1>12. ASSUME Less PROVE IInv'
  <2>1. PICK b \in Rights : \/ \E r : Do(LessThan(acc, b), r)
                            \/ \E r : Do(LessThan(b, acc), r)
    BY <1>12, Zenon DEF Less, Binary
  <2> QED
    BY <2>1, LessReady, DoReady
<1>13. ASSUME AtMost PROVE IInv'
  <2>1. PICK b \in Rights : \/ \E r : Do(LessEqual(acc, b), r)
                            \/ \E r : Do(LessEqual(b, acc), r)
    BY <1>13, Zenon DEF AtMost, Binary
  <2> QED
    BY <2>1, LessReady, DoReady
<1>14. ASSUME Greater PROVE IInv'
  <2>1. PICK b \in Rights : \/ \E r : Do(GreaterThan(acc, b), r)
                            \/ \E r : Do(GreaterThan(b, acc), r)
    BY <1>14, Zenon DEF Greater, Binary
  <2> QED
    BY <2>1, LessReady, DoReady DEF GreaterThan
<1>15. ASSUME AtLeast PROVE IInv'
  <2>1. PICK b \in Rights : \/ \E r : Do(GreaterEqual(acc, b), r)
                            \/ \E r : Do(GreaterEqual(b, acc), r)
    BY <1>15, Zenon DEF AtLeast, Binary
  <2> QED
    BY <2>1, LessReady, DoReady DEF GreaterEqual
<1> QED
  BY <1>3, <1>4, <1>5, <1>6, <1>7, <1>8, <1>9, <1>10, <1>11, <1>12, <1>13, <1>14, <1>15 DEF NextArith

-----------------------------------------------------------------------------
\* Whatever sequence of operators is applied to a value, for every word size and
\* width, its planes are clear, it is no literal, and outside arithmetic its
\* planes stand for what the language gives the same sequence.
THEOREM Invariant == Spec => []IInv
<1>1. Init => IInv
  <2> SUFFICES ASSUME Init PROVE IInv
    OBVIOUS
  <2>1. group \in Groups /\ acc \in Lefts[group] /\ ref = Abstract(acc)
    BY DEF Init
  <2>2. Operand(acc) /\ ~acc.is_fill
    BY <2>1, OpsAssumption
  <2>3. Ready(acc) /\ acc.width <= Widest
    BY <2>2, PlainOperand, OperandFacts
  <2> QED
    BY <2>1, <2>3 DEF IInv
<1>2. IInv /\ [Next]_vars => IInv'
  <2> SUFFICES ASSUME IInv, [Next]_vars PROVE IInv'
    OBVIOUS
  <2>1. CASE group = "bits" /\ NextBits
    BY <2>1, BitsStep
  <2>2. CASE group = "moves" /\ NextMoves
    BY <2>2, MovesStep
  <2>3. CASE group = "writes" /\ NextWrites
    BY <2>3, WritesStep
  <2>4. CASE group = "arith" /\ NextArith
    BY <2>4, ArithStep
  <2>5. CASE UNCHANGED vars
    <3>1. acc' = acc /\ ref' = ref /\ group' = group
      BY <2>5 DEF vars
    <3> QED
      BY <3>1 DEF IInv
  <2> QED
    BY <2>1, <2>2, <2>3, <2>4, <2>5 DEF Next
<1> QED
  BY <1>1, <1>2, PTL DEF Spec

\* Every operation of value.rs, arithmetic and relations included, leaves both
\* planes clear above the width, after any sequence of operations.
THEOREM CanonicalHolds == Spec => []Canonical
<1>1. IInv => Canonical
  BY ReadyFacts DEF IInv, Canonical
<1> QED
  BY <1>1, Invariant, PTL

\* After any sequence of bitwise, logical, reducing, shifting, selecting, joining
\* or writing operations of value.rs, the planes hold the width, the type and the
\* bits that the language gives the same sequence.
THEOREM FaithfulHolds == Spec => [](group # "arith" => Faithful)
<1>1. IInv => (group # "arith" => Faithful)
  BY DEF IInv, Faithful
<1> QED
  BY <1>1, Invariant, PTL
=============================================================================
