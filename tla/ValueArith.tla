----------------------------- MODULE ValueArith ----------------------------
(***************************************************************************)
(* Arithmetic and relational operators of the four-state values            *)
(* (src/value.rs).  Results up to one word wide are computed in u64, up to *)
(* two words in u128, and wider ones on sequences of words.                *)
(***************************************************************************)
EXTENDS ValueLogic

CONSTANT PowCap  \* iterations of power() on operands of at most two words

ASSUME PowAssumption == PowCap \in Nat

B == 2^W        \* a u64 is below B, a u128 below BB
BB == B * B

\* Value::from_u64 and from_u128: zero-extended or truncated to the width.
FromNat(n, width) == Plain({i \in Mask(CapWidth(width)) : (n \div 2^i) % 2 = 1}, {}, CapWidth(width), FALSE)

\* Value::to_u128: the low two words, unknown bits read as 0.
ToU128(a) == Num((a.val \ a.xz) \cap (0 .. 2*W - 1))

\* The two's complement reading of an n-bit pattern.
Signed(m, n) == IF m >= 2^(n-1) THEN m - 2^n ELSE m

\* Value::to_i64
ToI64(a) ==
  IF a.is_signed /\ a.width > 0 /\ a.width < W
  THEN Signed(ToU64(a), a.width)
  ELSE Signed(ToU64(a), W)

\* i128_at_width
I128AtWidth(raw, width) == IF width = 0 \/ width >= 2*W THEN Signed(raw, 2*W) ELSE Signed(raw, width)

OperandBitsU64(a, signed, w) ==
  IF signed /\ a.width < w /\ a.width < W THEN ToI64(a) % B ELSE ToU64(a)

OperandBitsU128(a, signed, w) ==
  CASE signed /\ a.width < w /\ a.width < W -> ToI64(a) % BB
    [] signed /\ a.width < w /\ a.width >= W -> I128AtWidth(ToU128(a), a.width) % BB
    [] ~(signed /\ a.width < w) -> ToU128(a)

-----------------------------------------------------------------------------
(* Words: functions from 0 .. n-1 to 0 .. B-1, the low word first *)

Len0(x) == CHOOSE n \in 1 .. NWords(MaxWidth) : DOMAIN x = 0 .. n-1

\* arith_words: the known bits of `a` in the words of a w-bit value,
\* sign-extended from the width of `a` when `sext`.
ArithWords(a, w, sext) ==
  LET sw == Smaller(a.width, w)
      low == (a.val \ a.xz) \cap Mask(sw)
      neg == sext /\ sw > 0 /\ sw - 1 \in low
      plane == IF neg THEN low \cup (WordBits(w) \ Mask(sw)) ELSE low
  IN [k \in 0 .. NWords(w) - 1 |-> Num(Word(plane, k))]

\* Value::from_words
FromWords(x, w) ==
  Plain(MaskTop(UNION {{k * W + b : b \in {c \in 0 .. W-1 : (x[k] \div 2^c) % 2 = 1}} : k \in 0 .. NWords(w) - 1}, w),
        {}, w, FALSE)

\* A word sum overflows in its first or in its second addition.
CarryOut(s, c) == s >= B \/ (s % B) + c >= B

WordsAdd(x, y) ==
  LET carry[k \in DOMAIN x] ==
        IF k = 0 THEN 0 ELSE IF CarryOut(x[k-1] + y[k-1], carry[k-1]) THEN 1 ELSE 0
  IN [k \in DOMAIN x |-> (x[k] + y[k] + carry[k]) % B]

WordsSub(x, y) ==
  LET borrow[k \in DOMAIN x] ==
        IF k = 0 THEN 0
        ELSE LET c == borrow[k-1]
             IN IF x[k-1] < y[k-1] \/ (x[k-1] - y[k-1]) % B < c THEN 1 ELSE 0
  IN [k \in DOMAIN x |-> (x[k] - y[k] - borrow[k]) % B]

\* words_mul: one row per word of x, each with a running carry.
WordsMul(x, y) ==
  LET n == Len0(x)
      Row(out, i) ==
        LET t[j \in 0 .. n-i-1] ==
              x[i] * y[j] + out[i+j] + (IF j = 0 THEN 0 ELSE t[j-1] \div B)
        IN [k \in DOMAIN x |-> IF k < i THEN out[k] ELSE t[k-i] % B]
      rows[i \in 0 .. n] == IF i = 0 THEN [k \in DOMAIN x |-> 0]
                            ELSE LET prev == rows[i-1] IN Row(prev, i-1)
  IN rows[n]

WordsNeg(x) == WordsSub([k \in DOMAIN x |-> 0], x)
WordsIsZero(x) == \A k \in DOMAIN x : x[k] = 0

\* words_cmp, as the sign of the comparison: the highest differing word decides.
WordsCmp(x, y) ==
  LET diff == {k \in DOMAIN x : x[k] # y[k]}
      top == CHOOSE k \in diff : \A j \in diff : j <= k
  IN IF diff = {} THEN 0 ELSE IF x[top] < y[top] THEN -1 ELSE 1

\* The divisor fits into the running remainder.
Fits(r, d) == WordsCmp(r, d) # -1

\* words_divmod: shift-subtract from the highest bit down.
WordsDivmod(x, d) ==
  LET bits == Len0(x) * W
      Bit(i) == (x[i \div W] \div 2^(i % W)) % 2
      Shift(r, c) == [k \in DOMAIN r |-> ((2 * r[k]) % B) + (IF k = 0 THEN c ELSE r[k-1] \div 2^(W-1))]
      st[n \in 0 .. bits] ==
        IF n = 0 THEN [q |-> [k \in DOMAIN x |-> 0], r |-> [k \in DOMAIN x |-> 0]]
        ELSE LET prev == st[n-1]
                 i == bits - n
                 r == Shift(prev.r, Bit(i))
             IN IF Fits(r, d)
                THEN [q |-> [prev.q EXCEPT ![i \div W] = @ + 2^(i % W)], r |-> WordsSub(r, d)]
                ELSE [q |-> prev.q, r |-> r]
  IN st[bits]

WordsMsb(x, w) == w > 0 /\ (x[(w-1) \div W] \div 2^((w-1) % W)) % 2 = 1

-----------------------------------------------------------------------------
(* Operators *)

\* The operators are defined on operands with no unknown bit and no literal.
BothSigned(a, b) == a.is_signed /\ b.is_signed

\* Value::negate
Negate(a) ==
  CASE HasXZ(a) -> [NewX(a.width) EXCEPT !.is_signed = a.is_signed]
    [] ~HasXZ(a) /\ a.width > W ->
         [FromWords(WordsNeg(ArithWords(a, a.width, FALSE)), a.width) EXCEPT !.is_signed = a.is_signed]
    [] ~HasXZ(a) /\ a.width <= W ->
         [FromNat((B - ToU64(a)) % B, a.width) EXCEPT !.is_signed = a.is_signed]

\* add, sub and mul: the three widths of arithmetic.
Modular(Op(_, _), WordsOp(_, _), a, b) ==
  LET w == Larger(a.width, b.width)
      s == BothSigned(a, b)
      r == CASE w <= W -> FromNat(Op(OperandBitsU64(a, s, w), OperandBitsU64(b, s, w)) % B, w)
             [] w > W /\ w <= 2*W ->
                  FromNat(Op(OperandBitsU128(a, s, w), OperandBitsU128(b, s, w)) % BB, w)
             [] w > 2*W -> FromWords(WordsOp(ArithWords(a, w, s), ArithWords(b, w, s)), w)
  IN IF HasXZ(a) \/ HasXZ(b) THEN NewX(w) ELSE [r EXCEPT !.is_signed = s]

Add(a, b) == OnFilled(LAMBDA l, r : Modular(LAMBDA m, n : m + n, WordsAdd, l, r), a, b)
Sub(a, b) == OnFilled(LAMBDA l, r : Modular(LAMBDA m, n : m - n, WordsSub, l, r), a, b)
Mul(a, b) == OnFilled(LAMBDA l, r : Modular(LAMBDA m, n : m * n, WordsMul, l, r), a, b)

Magnitude(n) == IF n < 0 THEN -n ELSE n

\* Integer division of the processor: truncates toward zero, and the
\* remainder has the sign of the dividend.
Quot(m, n) == IF (m < 0) # (n < 0) THEN -(Magnitude(m) \div Magnitude(n)) ELSE Magnitude(m) \div Magnitude(n)
Rem(m, n) == IF m < 0 THEN -(Magnitude(m) % Magnitude(n)) ELSE Magnitude(m) % Magnitude(n)

\* Mutant: the remainder takes the sign of the divisor.
RemSignDivisor(an, bn) == bn

\* The remainder has the sign of the dividend.
RemSign(an, bn) == an

\* wide_divmod: magnitudes are divided, and the signs restored.
SignedWords(x, negative) == IF negative THEN WordsNeg(x) ELSE x
DividedWords(x, y, an, bn, rem) ==
  LET d == WordsDivmod(SignedWords(x, an), SignedWords(y, bn))
  IN IF rem THEN SignedWords(d.r, RemSign(an, bn)) ELSE SignedWords(d.q, an # bn)
WideDivmod(a, b, w, rem) ==
  LET s == BothSigned(a, b)
      x == ArithWords(a, w, s)
      y == ArithWords(b, w, s)
  IN IF WordsIsZero(y) THEN NewX(w)
     ELSE [FromWords(DividedWords(x, y, s /\ WordsMsb(x, w), s /\ WordsMsb(y, w), rem), w) EXCEPT !.is_signed = s]

\* div and modulo; division by zero gives x.
Division(Op(_, _), rem, a, b) ==
  LET w == Larger(a.width, b.width)
      s == BothSigned(a, b)
      Narrow == IF ToU64(b) = 0 THEN NewX(w)
                ELSE IF s THEN FromNat(Op(ToI64(a), ToI64(b)) % B, w)
                ELSE FromNat(Op(ToU64(a), ToU64(b)), w)
      Double == IF ToU128(b) = 0 THEN NewX(w)
                ELSE IF s THEN FromNat(Op(I128AtWidth(ToU128(a), a.width), I128AtWidth(ToU128(b), b.width)) % BB, w)
                ELSE FromNat(Op(ToU128(a), ToU128(b)), w)
      r == IF w <= W THEN Narrow ELSE Double
  IN CASE HasXZ(a) \/ HasXZ(b) -> NewX(w)
       [] ~(HasXZ(a) \/ HasXZ(b)) /\ w > 2*W -> WideDivmod(a, b, w, rem)
       [] ~(HasXZ(a) \/ HasXZ(b)) /\ w <= 2*W -> [r EXCEPT !.is_signed = s /\ ~HasXZ(r)]

Div(a, b) == OnFilled(LAMBDA l, r : Division(Quot, FALSE, l, r), a, b)
Modulo(a, b) == OnFilled(LAMBDA l, r : Division(Rem, TRUE, l, r), a, b)

\* Value::power.  A negative exponent is found on the low word.
Power(a, b) ==
  LET s == BothSigned(a, b)
      e == ToU64(b)
      NegExp == LET base == ToI64(a)
                IN IF base = 1 \/ (base = -1 /\ ToI64(b) % 2 = 0) THEN 1
                   ELSE IF base = -1 THEN B - 1 ELSE 0
      r[k \in 0 .. Smaller(e, PowCap)] == IF k = 0 THEN 1 ELSE (r[k-1] * ToU128(a)) % BB
      \* Square-and-multiply over the bits of the exponent.
      sq[k \in 0 .. W] == IF k = 0 THEN ArithWords(a, a.width, FALSE)
                          ELSE LET q == sq[k-1] IN WordsMul(q, q)
      one == [k \in 0 .. NWords(a.width) - 1 |-> IF k = 0 THEN 1 ELSE 0]
      acc[k \in 0 .. W] == IF k = 0 THEN one
                           ELSE LET q == acc[k-1]
                                IN IF (e \div 2^(k-1)) % 2 = 1 THEN WordsMul(q, sq[k-1]) ELSE q
      v == CASE b.is_signed /\ ToI64(b) < 0 -> FromNat(NegExp, a.width)
             [] ~(b.is_signed /\ ToI64(b) < 0) /\ a.width > 2*W -> FromWords(acc[W], a.width)
             [] ~(b.is_signed /\ ToI64(b) < 0) /\ a.width <= 2*W ->
                  FromNat(r[Smaller(e, PowCap)], a.width)
  IN IF HasXZ(a) \/ HasXZ(b) THEN NewX(a.width) ELSE [v EXCEPT !.is_signed = s]

-----------------------------------------------------------------------------
(* Comparisons *)

\* wide_cmp: the sign of the comparison at the common width.
WideCmp(a, b) ==
  LET w == Larger(a.width, b.width)
      s == BothSigned(a, b)
      x == ArithWords(a, w, s)
      y == ArithWords(b, w, s)
      an == WordsMsb(x, w)
      bn == WordsMsb(y, w)
  IN IF s /\ an # bn THEN (IF an THEN -1 ELSE 1) ELSE WordsCmp(x, y)

\* is_equal's widening of a narrower operand.
Widen(a, signed, w) == Resize(IF signed THEN a ELSE [a EXCEPT !.is_signed = FALSE], w)

\* Value::is_equal
EqualAt(a, b) ==
  LET w == Larger(a.width, b.width)
      s == BothSigned(a, b)
      l == [i \in Mask(w) |-> OperandBit(a, b, w, i)]
      r == [i \in Mask(w) |-> OperandBit(b, a, w, i)]
  IN CASE HasXZ(a) \/ HasXZ(b) ->
            IF w = 0 THEN Scalar("1")
            ELSE IF \E i \in Mask(w) : l[i] \in Known /\ r[i] \in Known /\ l[i] # r[i]
            THEN Scalar("0") ELSE Scalar("x")
       [] ~(HasXZ(a) \/ HasXZ(b)) /\ w > W -> Truth(WideCmp(a, b) = 0)
       [] ~(HasXZ(a) \/ HasXZ(b)) /\ w <= W ->
            Truth(IF a.width # b.width THEN ToU64(Widen(a, s, w)) = ToU64(Widen(b, s, w))
                  ELSE ToU64(a) = ToU64(b))

IsEqual(a, b) == OnFilled(EqualAt, a, b)
IsNotEqual(a, b) == Scalar(NotBit(GetBit(IsEqual(a, b), 0)))

\* less_than and less_equal; Holds is the relation on -1, 0, 1.
Relational(Holds(_), a, b) ==
  LET Sign(m, n) == IF m < n THEN -1 ELSE IF m = n THEN 0 ELSE 1
      cmp == CASE a.width > W \/ b.width > W -> WideCmp(a, b)
               [] ~(a.width > W \/ b.width > W) ->
                    IF BothSigned(a, b) THEN Sign(ToI64(a), ToI64(b)) ELSE Sign(ToU64(a), ToU64(b))
  IN IF HasXZ(a) \/ HasXZ(b) THEN NewX(1) ELSE Truth(Holds(cmp))

LessThan(a, b) == OnFilled(LAMBDA l, r : Relational(LAMBDA c : c = -1, l, r), a, b)
LessEqual(a, b) == OnFilled(LAMBDA l, r : Relational(LAMBDA c : c # 1, l, r), a, b)
GreaterThan(a, b) == LessThan(b, a)
GreaterEqual(a, b) == LessEqual(b, a)
=============================================================================
