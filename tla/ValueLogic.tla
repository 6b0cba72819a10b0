---------------------------- MODULE ValueLogic -----------------------------
(***************************************************************************)
(* Shifts, selects, concatenations, comparisons by bits and reductions of  *)
(* the four-state values of ValuePlanes (src/value.rs).                    *)
(***************************************************************************)
EXTENDS ValuePlanes, Sequences, Folds

\* The number whose binary digits are the positions in `plane`.
Num(plane) == MapThenFoldSet(LAMBDA m, n : m + n, 0, LAMBDA i : 2^i,
                             LAMBDA S : CHOOSE i \in S : TRUE, plane)

\* Value::to_u64: the low word, unknown bits read as 0.
ToU64(a) == Num((a.val \ a.xz) \cap (0 .. W-1))

-----------------------------------------------------------------------------
(* Shifts *)

\* A shift amount, narrowed to a u32.
Amount(b) == ToU64(b) % 2^IndexBits

\* The shift leaves nothing of an inline value.
Overshift(a, amt) == amt >= a.width

\* Value::shift_left
ShiftLeft(a, b) ==
  LET amt == Amount(b)
  IN CASE HasXZ(b) -> NewX(a.width)
       [] ~HasXZ(b) /\ IsInline(a) ->
            IF Overshift(a, amt) THEN Zero(a.width)
            ELSE Plain(Shl(a.val, amt) \cap Mask(a.width), Shl(a.xz, amt) \cap Mask(a.width),
                       a.width, a.is_signed)
       [] ~HasXZ(b) /\ ~IsInline(a) ->
            CopyBitsFrom([Zero(a.width) EXCEPT !.is_signed = a.is_signed], amt, a, 0,
                         Larger(a.width - amt, 0))

\* Value::shift_right
ShiftRight(a, b) ==
  LET amt == Amount(b)
  IN CASE HasXZ(b) -> NewX(a.width)
       [] ~HasXZ(b) /\ IsInline(a) ->
            IF Overshift(a, amt) THEN Zero(a.width)
            ELSE Plain(Shr(a.val, amt), Shr(a.xz, amt), a.width, a.is_signed)
       [] ~HasXZ(b) /\ ~IsInline(a) ->
            CopyBitsFrom([Zero(a.width) EXCEPT !.is_signed = a.is_signed], 0, a, amt,
                         Larger(a.width - amt, 0))

\* Value::arith_shift_right: a signed value is filled with its sign bit.
ArithShiftRight(a, b) ==
  LET amt == Amount(b)
      sign == TopBit(a)
      ext == Mask(a.width) \ Mask(a.width - amt)
  IN CASE ~a.is_signed -> ShiftRight(a, b)
       [] a.is_signed /\ HasXZ(b) -> [NewX(a.width) EXCEPT !.is_signed = TRUE]
       [] a.is_signed /\ ~HasXZ(b) /\ IsInline(a) ->
            IF Overshift(a, amt) THEN [Filled(a.width, sign) EXCEPT !.is_signed = TRUE]
            ELSE Plain(Shr(a.val, amt) \cup (IF sign \in {"1", "z"} THEN ext ELSE {}),
                       Shr(a.xz, amt) \cup (IF sign \in Known THEN {} ELSE ext), a.width, TRUE)
       [] a.is_signed /\ ~HasXZ(b) /\ ~IsInline(a) ->
            FromBits(a.width, TRUE,
                     LAMBDA i : IF i + amt < a.width THEN GetBit(a, i + amt) ELSE sign)

-----------------------------------------------------------------------------
(* Selects *)

\* Value::bit_select
BitSelect(a, index) ==
  CASE index < a.width -> Scalar(GetBit(a, index))
    [] index >= a.width /\ index % 2^IndexBits >= a.width /\ ~a.is_fill -> NewX(1)
    [] index >= a.width /\ ~(index % 2^IndexBits >= a.width /\ ~a.is_fill) ->
         Scalar(GetBit(a, index))

\* Value::range_select_zext: the bits from `lo` to `hi`, 0 beyond the value.
RangeSelectZext(a, hi, lo) ==
  LET width == hi - lo + 1
      n == NWords(width)
      Gather(plane) == UNION {{k * W + b : b \in Extract64(plane, lo + k * W, W)} : k \in 0 .. n-1}
  IN CASE width > MaxWidth -> NewX(Smaller(width, Larger(a.width, 1)))
       [] width <= MaxWidth /\ IsInline(a) /\ width <= W /\ lo < W ->
            Plain(Shr(a.val, lo) \cap Mask(width), Shr(a.xz, lo) \cap Mask(width), width, FALSE)
       [] width <= MaxWidth /\ ~IsInline(a) /\ width > W ->
            Plain(MaskTop(Gather(a.val), width), MaskTop(Gather(a.xz), width), width, FALSE)
       [] width <= MaxWidth /\ ~IsInline(a) /\ width <= W ->
            Plain(Extract64(a.val, lo, width), Extract64(a.xz, lo, width), width, FALSE)
       [] width <= MaxWidth /\ IsInline(a) /\ ~(width <= W /\ lo < W) ->
            FromBits(width, FALSE, LAMBDA i : GetBit(a, lo + i))

\* range_select_slow: positions beyond the value read as x.
Overhang(a, lo, r) ==
  CASE lo >= a.width -> NewX(r.width)
    [] lo < a.width ->
         LET beyond == {i \in Mask(r.width) : lo + i >= a.width}
         IN [r EXCEPT !.val = @ \ beyond, !.xz = @ \cup beyond]

\* Value::range_select, with `hi` the larger of its two bounds.
RangeSelect(a, hi, lo) ==
  LET r == RangeSelectZext(a, hi, lo)
  IN IF a.is_fill THEN r ELSE Overhang(a, lo, r)

\* Value::range_select_signed: the bounds may be negative; the bits of the
\* value that are selected are spliced into a value of all x.
RangeSelectSigned(a, hi, lo) ==
  LET span == hi - lo + 1
      width == IF span > MaxWidth THEN Larger(a.width, 1) ELSE span
      from == Larger(lo, 0)
      to == Smaller(hi, a.width - 1)
      count == to - from + 1
      Part(dst, src) ==
        IF width <= W THEN CopyInline(dst, from - lo, src, IsInline(a), from, Smaller(count, width - (from - lo)))
        ELSE CopyChunks(dst, width, from - lo, src, IsInline(a), from, count)
  IN CASE span <= 0 -> Zero(0)
       [] span > 0 /\ a.is_fill -> FillAt(a, width)
       [] span > 0 /\ ~a.is_fill /\ lo >= 0 /\ hi < a.width -> RangeSelect(a, hi, lo)
       [] span > 0 /\ ~a.is_fill /\ ~(lo >= 0 /\ hi < a.width) ->
            IF from > to \/ from - lo >= width THEN NewX(width)
            ELSE Plain(Part({}, a.val), Part(NewX(width).xz, a.xz), width, FALSE)

-----------------------------------------------------------------------------
(* Concatenation *)

\* Value::bits128: the low two words, masked to the width.
Bits128(plane, width) == plane \cap Mask(Smaller(width, 2 * W))

\* Value::concat_refs of two operands, the left one most significant.
Concat(a, b) ==
  LET total == a.width + b.width
      capped == CapWidth(total)
      Above(plane) == {i + b.width : i \in plane}
      Splices(low, high) ==
        CopyChunks(CopyChunks({}, capped, 0, low, IsInline(b), 0, b.width),
                   capped, b.width, high, IsInline(a), 0, Smaller(a.width, capped - b.width))
  IN CASE total <= W ->
            Plain((b.val \cap Mask(b.width)) \cup Above(a.val \cap Mask(a.width)),
                  (b.xz \cap Mask(b.width)) \cup Above(a.xz \cap Mask(a.width)), total, FALSE)
       [] total > W /\ total <= 2 * W ->
            Plain(Bits128(b.val, b.width) \cup Above(Bits128(a.val, a.width)),
                  Bits128(b.xz, b.width) \cup Above(Bits128(a.xz, a.width)), total, FALSE)
       [] total > 2 * W ->
            Plain(Splices(b.val, a.val), Splices(b.xz, a.xz), capped, FALSE)

\* The words of {n{a}} when the width of `a` does not divide a word: each
\* word collects the copies that overlap it.
OverlapWords(plane, w, total) ==
  LET WordAt(k) ==
        LET base == k * W
            end == Smaller(base + W, total)
        IN UNION {IF c * w >= base THEN Shl(plane, c * w - base) ELSE Shr(plane, base - c * w) :
                  c \in {d \in 0 .. total : d >= base \div w /\ d * w < end}}
  IN UNION {{k * W + b : b \in WordAt(k)} : k \in 0 .. NWords(total) - 1}

\* Value::repeated_word, laid down in every word.
RepeatedWords(plane, w, total) == {i \in WordBits(total) : (i % W) % w \in plane}

\* Value::replicate for a plain operand of at most a word; a wider one, or a
\* literal, is concatenated `n` times.
Replicate(a, n) ==
  LET total == CapWidth(a.width * n)
      Words(plane) == IF W % a.width = 0 THEN RepeatedWords(plane, a.width, total)
                      ELSE OverlapWords(plane, a.width, total)
      m == IF total <= W THEN Mask(total) ELSE MaskTop(WordBits(total), total)
  IN CASE a.width * n = 0 -> Zero(0)
       [] a.width * n # 0 /\ IsInline(a) /\ ~a.is_fill ->
            Plain(Words(a.val \cap Mask(a.width)) \cap m, Words(a.xz \cap Mask(a.width)) \cap m, total, FALSE)
       [] a.width * n # 0 /\ ~(IsInline(a) /\ ~a.is_fill) ->
            LET copies[k \in 1..n] == IF k = 1 THEN Concat(Zero(0), a) ELSE Concat(copies[k-1], a)
            IN copies[n]

-----------------------------------------------------------------------------
(* Comparisons by bits *)

\* An operand is sign-extended only when both are signed.
Extends(a, b, w) == a.is_signed /\ b.is_signed /\ a.width < w

\* The bit of operand `a` at `i`, compared with `b` at width `w`.
OperandBit(a, b, w, i) ==
  CASE i < a.width -> GetBit(a, i)
    [] i >= a.width -> IF Extends(a, b, w) THEN TopBit(a) ELSE "0"

\* A plane of `a` extended the same way, as the inline arms do it.
OperandPlane(plane, a, b, w) ==
  IF a.width > 0 /\ Extends(a, b, w) /\ a.width - 1 \in plane
  THEN plane \cup (Mask(w) \ Mask(a.width)) ELSE plane

Differ(s, t) == (s \ t) \cup (t \ s)

\* case_eq, casez_eq and casex_eq on inline operands: no position differs in
\* a plane, wildcards aside.
InlineMatch(a, b, Wild(_, _, _, _)) ==
  LET w == Larger(a.width, b.width)
      av == OperandPlane(a.val \cap Mask(a.width), a, b, w)
      ax == OperandPlane(a.xz \cap Mask(a.width), a, b, w)
      bv == OperandPlane(b.val \cap Mask(b.width), b, a, w)
      bx == OperandPlane(b.xz \cap Mask(b.width), b, a, w)
  IN ((Differ(av, bv) \cup Differ(ax, bx)) \ Wild(av, ax, bv, bx)) \cap Mask(w) = {}

\* The same as a loop over the bits.
BitsMatch(a, b, Free) ==
  LET w == Larger(a.width, b.width)
  IN \A i \in Mask(w) :
        LET p == OperandBit(a, b, w, i)
            q == OperandBit(b, a, w, i)
        IN p \in Free \/ q \in Free \/ p = q

CaseMatch(a, b, Wild(_, _, _, _), Free) ==
  OnFilled(LAMBDA l, r : Truth(IF IsInline(l) /\ IsInline(r) THEN InlineMatch(l, r, Wild) ELSE BitsMatch(l, r, Free)), a, b)

CaseEq(a, b) == CaseMatch(a, b, LAMBDA av, ax, bv, bx : {}, {})
CasezEq(a, b) == CaseMatch(a, b, LAMBDA av, ax, bv, bx : (av \cap ax) \cup (bv \cap bx), {"z"})
CasexEq(a, b) == CaseMatch(a, b, LAMBDA av, ax, bv, bx : ax \cup bx, {"x", "z"})

\* Value::wildcard_eq: only unknown bits of the right operand are wildcards.
WildcardEq(a, b) ==
  LET w == Larger(a.width, b.width)
      l == [i \in Mask(w) |-> OperandBit(a, b, w, i)]
      r == [i \in Mask(w) |-> OperandBit(b, a, w, i)]
      compared == {i \in Mask(w) : r[i] \in Known}
  IN CASE \E i \in compared : l[i] \in Known /\ l[i] # r[i] -> Scalar("0")
       [] ~(\E i \in compared : l[i] \in Known /\ l[i] # r[i]) ->
            IF \E i \in compared : l[i] \notin Known THEN Scalar("x") ELSE Scalar("1")

WildcardNe(a, b) == Scalar(NotBit(GetBit(WildcardEq(a, b), 0)))

-----------------------------------------------------------------------------
(* Truth and reductions *)

\* Value::is_nonzero, as a bit: x for unknown.
IsNonzero(a) ==
  CASE a.val \ a.xz # {} -> "1"
    [] a.val \ a.xz = {} /\ a.xz # {} -> "x"
    [] a.xz = {} /\ a.val = {} -> "0"

LogicAnd(a, b) == Scalar(AndBit(IsNonzero(a), IsNonzero(b)))
LogicOr(a, b) == Scalar(OrBit(IsNonzero(a), IsNonzero(b)))
LogicNot(a) == Scalar(NotBit(IsNonzero(a)))
LogicImpl(a, b) == Scalar(OrBit(NotBit(IsNonzero(a)), IsNonzero(b)))
LogicEquiv(a, b) == Scalar(NotBit(XorBit(IsNonzero(a), IsNonzero(b))))

\* reduce_and: words are scanned from the low one on; a known 0 decides.
ReduceAnd(a) ==
  LET live == IF IsInline(a) THEN Mask(a.width) ELSE MaskTop(WordBits(a.width), a.width)
      zeros == ((WordBits(a.width) \ a.val) \ a.xz) \cap live
  IN Scalar(IF zeros # {} THEN "0" ELSE IF a.xz \cap live # {} THEN "x" ELSE "1")

ReduceOr(a) ==
  LET live == IF IsInline(a) THEN Mask(a.width) ELSE MaskTop(WordBits(a.width), a.width)
  IN Scalar(IF (a.val \ a.xz) \cap live # {} THEN "1" ELSE IF a.xz \cap live # {} THEN "x" ELSE "0")

\* reduce_xor: the parity of the words' counts of ones.
ReduceXor(a) ==
  LET live == IF IsInline(a) THEN Mask(a.width) ELSE MaskTop(WordBits(a.width), a.width)
      Odd(plane) == MapThenFoldSet(LAMBDA m, n : (m + n) % 2, 0, LAMBDA i : 1,
                                   LAMBDA S : CHOOSE i \in S : TRUE, plane) = 1
  IN Scalar(IF a.xz \cap live # {} THEN "x" ELSE IF Odd(a.val \cap live) THEN "1" ELSE "0")
=============================================================================
