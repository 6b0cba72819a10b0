---------------------------- MODULE ValuePlanes ----------------------------
(***************************************************************************)
(* Four-state values as src/value.rs stores them.  A value has two planes  *)
(* of bits: a bit of `val` is its value, a bit of `xz` marks it unknown    *)
(* (0 = 00, 1 = 10, x = 01, z = 11).  A plane is the set of positions that *)
(* are 1; values up to one machine word wide are `Inline`, wider ones are  *)
(* `Wide` and kept in whole words, so positions between the width and the  *)
(* end of the top word exist and have to be kept clear.                    *)
(*                                                                         *)
(* Machine words have W bits (64 in the program), so that the word         *)
(* boundaries fall inside small values.  Reals are left out.               *)
(***************************************************************************)
EXTENDS Integers

CONSTANTS W,         \* bits of a word; u128 has twice as many
          MaxWidth,  \* Value::MAX_WIDTH
          IndexBits  \* bits of a u32, to which select indexes and shift
                     \* amounts are narrowed

ASSUME ValueAssumption == /\ W \in Nat \ {0}
                          /\ MaxWidth \in Nat
                          /\ MaxWidth > 2 * W
                          /\ IndexBits \in Nat

LogicBit == {"0", "1", "x", "z"}
Known == {"0", "1"}

Larger(m, n) == IF m >= n THEN m ELSE n
Smaller(m, n) == IF m <= n THEN m ELSE n

\* A value that is not an unbased unsized literal.
Plain(val, xz, width, signed) ==
  [val |-> val, xz |-> xz, width |-> width, is_signed |-> signed, is_fill |-> FALSE]

IsInline(a) == a.width <= W

\* WidePlanes::nwords, and all the bits of those words.
NWords(n) == (Larger(n, 1) + W - 1) \div W
WordBits(n) == 0 .. (NWords(n) * W - 1)

\* Value::mask
Mask(width) == 0 .. (width - 1)

\* WidePlanes::mask_top
MaskTop(plane, n) == IF n % W = 0 THEN plane ELSE plane \cap Mask(n)

\* Value::cap_width
CapWidth(width) == Smaller(width, MaxWidth)

\* `width` copies of one bit: WidePlanes::filled and its inline form.
Filled(width, bit) ==
  LET all == IF width <= W THEN Mask(width) ELSE MaskTop(WordBits(width), width)
  IN Plain(IF bit \in {"1", "z"} THEN all ELSE {},
           IF bit \in {"x", "z"} THEN all ELSE {}, width, FALSE)

NewX(width) == Filled(CapWidth(width), "x")
Zero(width) == Filled(CapWidth(width), "0")

\* The 1-bit results of comparisons and reductions.
Scalar(bit) == Filled(1, bit)
Truth(P) == Scalar(IF P THEN "1" ELSE "0")

-----------------------------------------------------------------------------
(* Bits *)

\* The bit at position `i` of two planes.
PlaneBit(val, xz, i) ==
  CASE i \notin val /\ i \notin xz -> "0"
    [] i \in val    /\ i \notin xz -> "1"
    [] i \notin val /\ i \in xz    -> "x"
    [] i \in val    /\ i \in xz    -> "z"

\* Value::get_bit
GetBit(a, i) ==
  CASE i < a.width                 -> PlaneBit(a.val, a.xz, i)
    [] i >= a.width /\ a.is_fill   -> PlaneBit(a.val, a.xz, 0)
    [] i >= a.width /\ ~a.is_fill  -> "0"

\* Value::set_bit
SetBit(a, i, bit) ==
  IF i >= a.width THEN a
  ELSE [a EXCEPT !.val = IF bit \in {"1", "z"} THEN @ \cup {i} ELSE @ \ {i},
                 !.xz  = IF bit \in {"x", "z"} THEN @ \cup {i} ELSE @ \ {i}]

\* The value whose bits are Bit(0), ..., Bit(width - 1): loops over set_bit
\* on a fresh value.
FromBits(width, signed, Bit(_)) ==
  Plain({i \in Mask(width) : Bit(i) \in {"1", "z"}},
        {i \in Mask(width) : Bit(i) \in {"x", "z"}}, width, signed)

HasXZ(a) == a.xz # {}

\* Value::to_two_state: unknown bits become 0.
ToTwoState(a) ==
  IF HasXZ(a) THEN [a EXCEPT !.val = a.val \ a.xz, !.xz = {}, !.is_fill = @ /\ ~IsInline(a)]
  ELSE a

-----------------------------------------------------------------------------
(* Words *)

\* The word at index `k` of a plane, and a plane with another word there.
Word(plane, k) == {b \in 0 .. W-1 : k * W + b \in plane}
WithWord(plane, k, word) == {i \in plane : i \div W # k} \cup {k * W + b : b \in word}

\* << and >> on words: the processor takes the amount modulo the word.
Shl(word, n) == {b + (n % W) : b \in word} \cap (0 .. W-1)
Shr(word, n) == {b - (n % W) : b \in {c \in word : c >= n % W}}

\* WidePlanes::extract64: `n` bits, at most a word, from position `pos`.
Extract64(plane, pos, n) ==
  LET off == pos % W
      lo == Shr(Word(plane, pos \div W), off)
      hi == IF off > 0 THEN Shl(Word(plane, pos \div W + 1), W - off) ELSE {}
  IN (lo \cup hi) \cap Mask(Smaller(n, W))

\* WidePlanes::splice64: the low `count` bits of `word` at position `pos`.
Splice64(plane, nbits, pos, word, count) ==
  LET n == Smaller(Smaller(count, W), nbits - pos)
      new == word \cap Mask(n)
      k == pos \div W
      off == pos % W
      first == WithWord(plane, k, (Word(plane, k) \ Shl(Mask(n), off)) \cup Shl(new, off))
  IN IF count = 0 \/ pos >= nbits THEN plane
     ELSE IF off + n > W
          THEN WithWord(first, k + 1, (Word(first, k + 1) \ Mask(off + n - W)) \cup Shr(new, W - off))
          ELSE first

\* A chunk of `n` bits at `pos` of one plane of a source that is `Inline` or
\* `Wide`.
Chunk(plane, inline, pos, n) ==
  IF inline THEN (IF pos >= W THEN {} ELSE Shr(plane, pos)) \cap Mask(n)
            ELSE Extract64(plane, pos, n)

\* One plane of copy_bits_from into wide storage: word-sized chunks in turn.
CopyChunks(dst, nbits, d, src, inline, s, count) ==
  LET done[k \in 0 .. (count + W - 1) \div W] ==
        IF k = 0 THEN dst
        ELSE LET off == (k - 1) * W
                 n == Smaller(count - off, W)
             IN Splice64(done[k-1], nbits, d + off, Chunk(src, inline, s + off, n), n)
  IN done[(count + W - 1) \div W]

\* One plane of copy_bits_from into inline storage.
CopyInline(dst, d, src, inline, s, count) ==
  LET low == Chunk(src, inline, s, Smaller(count, W)) \cap Mask(count)
  IN (dst \ Shl(Mask(count), d)) \cup Shl(low, d)

\* Mutant: the count is not limited by the destination.
CopyBitsFromLoose(a, d, b, s, count) ==
  LET n == Smaller(count, Larger(b.width - s, 0))
  IN IF n = 0 \/ d >= a.width THEN a
     ELSE IF IsInline(a) THEN [a EXCEPT !.val = CopyInline(a.val, d, b.val, IsInline(b), s, n),
                                       !.xz = CopyInline(a.xz, d, b.xz, IsInline(b), s, n)]
     ELSE [a EXCEPT !.val = CopyChunks(a.val, a.width, d, b.val, IsInline(b), s, n),
                    !.xz = CopyChunks(a.xz, a.width, d, b.xz, IsInline(b), s, n)]

\* Value::copy_bits_from: `count` bits of `b` from `s` on, into `a` at `d`.
CopyBitsFrom(a, d, b, s, count) ==
  LET n == Smaller(count, Smaller(Larger(a.width - d, 0), Larger(b.width - s, 0)))
      Copy(dst, src) == IF IsInline(a) THEN CopyInline(dst, d, src, IsInline(b), s, n)
                        ELSE CopyChunks(dst, a.width, d, src, IsInline(b), s, n)
  IN IF n = 0 THEN a
     ELSE [a EXCEPT !.val = Copy(a.val, b.val), !.xz = Copy(a.xz, b.xz)]

-----------------------------------------------------------------------------
(* Unbased unsized literals *)

\* Value::fill_of
FillOf(bit) == [Scalar(bit) EXCEPT !.is_fill = TRUE]

\* Value::fill_at
FillAt(a, width) == Filled(CapWidth(Larger(width, 1)), GetBit(a, 0))

\* Value::fill_pair: a literal takes the width of the other operand.
FillPair(a, b) ==
  LET w == Larger(Larger(a.width, b.width), 1)
  IN <<IF a.is_fill THEN FillAt(a, w) ELSE a,
       IF b.is_fill THEN FillAt(b, w) ELSE b>>

\* An operator on two operands, once literals among them have a width.
OnFilled(Op(_, _), a, b) == LET p == FillPair(a, b) IN Op(p[1], p[2])

-----------------------------------------------------------------------------
(* Width changes *)

TopBit(a) == IF a.width > 0 THEN GetBit(a, a.width - 1) ELSE "0"

\* The inline arm of resize: both widths fit a word.
ResizeInline(a, target) ==
  IF target < a.width
  THEN Plain(a.val \cap Mask(target), a.xz \cap Mask(target), target, a.is_signed)
  ELSE Plain(IF a.is_signed /\ TopBit(a) = "1" THEN a.val \cup (Mask(target) \ Mask(a.width))
             ELSE a.val,
             a.xz, target, a.is_signed)

\* The general arm of resize_slow: fill, then copy.
ResizeCopy(a, target) ==
  LET fill == IF a.is_signed /\ TopBit(a) = "1" THEN "1" ELSE "0"
      base == [Filled(target, fill) EXCEPT !.is_signed = a.is_signed]
  IN CopyBitsFrom(base, 0, a, 0, Smaller(a.width, target))

\* Value::resize
Resize(a, target) ==
  CASE a.is_fill                                               -> FillAt(a, target)
    [] ~a.is_fill /\ target = 0                                -> Zero(0)
    [] ~a.is_fill /\ target # 0 /\ IsInline(a) /\ target <= W  -> ResizeInline(a, target)
    [] ~a.is_fill /\ target # 0 /\ ~(IsInline(a) /\ target <= W) ->
         IF target = a.width THEN a ELSE ResizeCopy(a, target)

\* Value::resize_for_assign: a signed value with an unknown sign bit is
\* extended with that bit.
ResizeForAssign(a, target) ==
  LET ext == Mask(target) \ Mask(a.width)
  IN CASE ~a.is_fill /\ (~a.is_signed \/ target <= a.width \/ TopBit(a) \in Known) -> Resize(a, target)
       [] a.is_fill -> FillAt(a, target)
       [] ~a.is_fill /\ a.is_signed /\ target > a.width /\ TopBit(a) \notin Known ->
            LET r == IF IsInline(a) /\ target <= W THEN [a EXCEPT !.width = target] ELSE Resize(a, target)
            IN [r EXCEPT !.val = IF TopBit(a) = "z" THEN @ \cup ext ELSE @ \ ext, !.xz = @ \cup ext]

-----------------------------------------------------------------------------
(* Bitwise operators *)

AndBit(p, q) == CASE p = "0" \/ q = "0" -> "0"
                  [] p = "1" /\ q = "1" -> "1"
                  [] OTHER -> "x"
OrBit(p, q) == CASE p = "1" \/ q = "1" -> "1"
                 [] p = "0" /\ q = "0" -> "0"
                 [] OTHER -> "x"
XorBit(p, q) == CASE p \in Known /\ q \in Known -> (IF p = q THEN "0" ELSE "1")
                  [] OTHER -> "x"
MergeBit(p, q) == IF p = q /\ p \in Known THEN p ELSE "x"

\* The operators on whole words; U is the set of all bits of the words.  Each
\* yields the value and the xz plane.
AndLanes(av, ax, bv, bx, U) ==
  LET zero == ((U \ av) \ ax) \cup ((U \ bv) \ bx)
      one == (av \ ax) \cap (bv \ bx)
  IN <<one, (U \ zero) \ one>>
OrLanes(av, ax, bv, bx, U) ==
  LET one == (av \ ax) \cup (bv \ bx)
      zero == ((U \ av) \ ax) \cap ((U \ bv) \ bx)
  IN <<one, (U \ one) \ zero>>
XorLanes(av, ax, bv, bx, U) ==
  LET unknown == ax \cup bx
  IN <<((av \ bv) \cup (bv \ av)) \ unknown, unknown>>
MergeLanes(av, ax, bv, bx, U) ==
  LET differ == (av \ bv) \cup (bv \ av)
      agree == ((U \ ax) \ bx) \ differ
  IN <<av \cap agree, U \ agree>>

\* The inline arms, which mask less: they rely on clear bits above the width.
AndInline(av, ax, bv, bx, w) ==
  LET U == 0 .. W-1
      any == ax \cup bx
  IN IF any = {} THEN <<av \cap bv, {}>>
     ELSE <<(av \cap bv) \ any,
            (any \ (((U \ av) \ ax) \cup ((U \ bv) \ bx))) \cap Mask(w)>>
OrInline(av, ax, bv, bx, w) ==
  LET any == ax \cup bx
      one == (av \ ax) \cup (bv \ bx)
  IN IF any = {} THEN <<av \cup bv, {}>>
     ELSE <<((av \cup bv) \ any) \cup one, (any \ one) \cap Mask(w)>>
XorInline(av, ax, bv, bx, w) ==
  LET any == ax \cup bx
  IN <<((av \ bv) \cup (bv \ av)) \ any, any \cap Mask(w)>>

\* wide_bitwise_lanes, wide_bitwise_value
WideLanes(Lanes(_, _, _, _, _), a, b) ==
  LET r == Lanes(a.val, a.xz, b.val, b.xz, WordBits(a.width))
  IN Plain(MaskTop(r[1], a.width), MaskTop(r[2], a.width), a.width, FALSE)

\* bitwise_and, bitwise_or, bitwise_xor: the inline arm, the word-parallel
\* arm for two wide values of one width, and the loop over bits.
Bitwise(Inline(_, _, _, _, _), Lanes(_, _, _, _, _), Op(_, _), a, b) ==
  LET w == Larger(a.width, b.width)
  IN CASE IsInline(a) /\ IsInline(b) ->
            LET r == Inline(a.val, a.xz, b.val, b.xz, w) IN Plain(r[1], r[2], w, FALSE)
       [] ~(IsInline(a) /\ IsInline(b)) /\ a.width = b.width -> WideLanes(Lanes, a, b)
       [] ~(IsInline(a) /\ IsInline(b)) /\ a.width # b.width ->
            FromBits(w, FALSE, LAMBDA i : Op(GetBit(a, i), GetBit(b, i)))

BitwiseAnd(a, b) == OnFilled(LAMBDA l, r : Bitwise(AndInline, AndLanes, AndBit, l, r), a, b)
BitwiseOr(a, b) == OnFilled(LAMBDA l, r : Bitwise(OrInline, OrLanes, OrBit, l, r), a, b)
BitwiseXor(a, b) == OnFilled(LAMBDA l, r : Bitwise(XorInline, XorLanes, XorBit, l, r), a, b)

NotBit(p) == CASE p = "0" -> "1" [] p = "1" -> "0" [] OTHER -> "x"

\* Value::bitwise_not
BitwiseNot(a) ==
  IF IsInline(a)
  THEN Plain((((0 .. W-1) \ a.val) \ a.xz) \cap Mask(a.width), a.xz, a.width, a.is_signed)
  ELSE FromBits(a.width, a.is_signed, LAMBDA i : NotBit(GetBit(a, i)))

BitwiseXnor(a, b) == BitwiseNot(BitwiseXor(a, b))

\* Value::merge_unknown: ?: with an unknown condition.
MergeUnknown(a, b) ==
  LET w == Larger(a.width, b.width)
      m == Mask(w)
  IN CASE ~IsInline(a) /\ a.width = b.width -> WideLanes(MergeLanes, a, b)
       [] IsInline(a) /\ IsInline(b) ->
            LET r == MergeLanes(a.val \cap m, a.xz \cap m, b.val \cap m, b.xz \cap m, m)
            IN Plain(r[1], r[2], w, a.is_signed /\ b.is_signed)
       [] ~(IsInline(a) /\ IsInline(b)) /\ a.width # b.width ->
            LET BitOf(v, i) == IF i < v.width THEN GetBit(v, i) ELSE "0"
            IN FromBits(w, FALSE, LAMBDA i : MergeBit(BitOf(a, i), BitOf(b, i)))
=============================================================================
