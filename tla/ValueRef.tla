------------------------------ MODULE ValueRef -----------------------------
(***************************************************************************)
(* What the operators of a four-state value mean, one bit at a time or as  *)
(* numbers, with no words and no representation.  A value is its width,    *)
(* its signedness and a function from positions to bits; a literal such as *)
(* '1 has is_fill set and takes the width of the other operand.            *)
(***************************************************************************)
EXTENDS Integers, FiniteSetsExt

Known == {"0", "1"}
Positions(n) == 0 .. n-1
MaxOf(m, n) == IF m >= n THEN m ELSE n

Vector(n, signed, Bit(_)) ==
  [width |-> n, is_signed |-> signed, is_fill |-> FALSE, bit |-> [i \in Positions(n) |-> Bit(i)]]
All(n, bit) == Vector(n, FALSE, LAMBDA i : bit)
One(bit) == All(1, bit)
Boolean(P) == One(IF P THEN "1" ELSE "0")

Unknown(v) == \E i \in Positions(v.width) : v.bit[i] \notin Known
Top(v) == IF v.width = 0 THEN "0" ELSE v.bit[v.width - 1]

\* The bit at `i` when `v` is extended by its sign, or by 0.
ExtBit(v, sext, i) == IF i < v.width THEN v.bit[i] ELSE IF sext THEN Top(v) ELSE "0"

\* A literal next to an operand of width n.
AtWidth(v, n) == IF v.is_fill THEN All(MaxOf(n, 1), v.bit[0]) ELSE v

Bitwise(Op(_, _), a, b) ==
  LET x == AtWidth(a, b.width)
      y == AtWidth(b, a.width)
  IN Vector(MaxOf(x.width, y.width), FALSE,
            LAMBDA i : Op(ExtBit(x, FALSE, i), ExtBit(y, FALSE, i)))

\* The IEEE 1800 tables, as what the possible values of x and z allow.
Values(p) == IF p \in Known THEN {p} ELSE Known
Lift(Op(_, _), p, q) ==
  LET r == {Op(u, v) : u \in Values(p), v \in Values(q)}
  IN IF r = {"0"} THEN "0" ELSE IF r = {"1"} THEN "1" ELSE "x"
AndB(p, q) == Lift(LAMBDA u, v : IF u = "1" /\ v = "1" THEN "1" ELSE "0", p, q)
OrB(p, q) == Lift(LAMBDA u, v : IF u = "1" \/ v = "1" THEN "1" ELSE "0", p, q)
XorB(p, q) == Lift(LAMBDA u, v : IF u # v THEN "1" ELSE "0", p, q)
NotB(p) == Lift(LAMBDA u, v : IF u = "1" THEN "0" ELSE "1", p, "0")

And(a, b) == Bitwise(AndB, a, b)
Or(a, b) == Bitwise(OrB, a, b)
Xor(a, b) == Bitwise(XorB, a, b)
Not(a) == Vector(a.width, a.is_signed, LAMBDA i : NotB(a.bit[i]))
Xnor(a, b) == Not(Xor(a, b))
Merge(a, b) == Bitwise(LAMBDA p, q : IF p = q /\ p \in Known THEN p ELSE "x", a, b)

-----------------------------------------------------------------------------
(* Moving bits *)

Num(v) == MapThenSumSet(LAMBDA i : IF v.bit[i] = "1" THEN 2^i ELSE 0, Positions(v.width))

ShiftUp(a, b) == IF Unknown(b) THEN All(a.width, "x")
                 ELSE Vector(a.width, a.is_signed, LAMBDA i : IF i >= Num(b) THEN a.bit[i - Num(b)] ELSE "0")
ShiftDown(a, b, sext) == IF Unknown(b) THEN [All(a.width, "x") EXCEPT !.is_signed = sext]
                         ELSE Vector(a.width, a.is_signed, LAMBDA i : ExtBit(a, sext, i + Num(b)))

\* A select: positions outside the value read as x, a literal is everywhere.
Select(a, hi, lo) ==
  Vector(MaxOf(hi - lo + 1, 0), FALSE,
         LAMBDA i : IF a.is_fill THEN a.bit[0]
                    ELSE IF lo + i \in Positions(a.width) THEN a.bit[lo + i] ELSE "x")

Concat(a, b) == Vector(a.width + b.width, FALSE,
                       LAMBDA i : IF i < b.width THEN b.bit[i] ELSE a.bit[i - b.width])
Replicate(a, n) == Vector(a.width * n, FALSE, LAMBDA i : a.bit[i % a.width])

\* Width changes: an expression's operand, and the target of an assignment.
Resize(a, n) == IF a.is_fill THEN AtWidth(a, n)
                ELSE IF n = 0 THEN All(0, "0")
                ELSE Vector(n, a.is_signed, LAMBDA i : ExtBit(a, a.is_signed /\ Top(a) = "1", i))
ResizeForAssign(a, n) == IF a.is_fill THEN AtWidth(a, n)
                         ELSE IF n = 0 THEN All(0, "0")
                         ELSE Vector(n, a.is_signed, LAMBDA i : ExtBit(a, a.is_signed, i))

TwoState(a) == Vector(a.width, a.is_signed, LAMBDA i : IF a.bit[i] = "1" THEN "1" ELSE "0")
Write(a, d, b, s, n) ==
  [a EXCEPT !.bit = [i \in Positions(a.width) |->
     IF i >= d /\ i < d + n /\ s + (i - d) < b.width THEN b.bit[s + (i - d)] ELSE @[i]]]

-----------------------------------------------------------------------------
(* Numbers *)

\* A known value as an integer, negative only in a signed expression.
Integer(v, signed) == IF signed /\ Top(v) = "1" THEN Num(v) - 2^v.width ELSE Num(v)
OfInt(n, width, signed) ==
  Vector(width, signed, LAMBDA i : IF (n \div 2^i) % 2 = 1 THEN "1" ELSE "0")

\* An operator on the integers the operands stand for; Op yields a set of at
\* most one result, and none where the language says x.
Numeric(Op(_, _), a, b) ==
  LET x == AtWidth(a, b.width)
      y == AtWidth(b, a.width)
      s == x.is_signed /\ y.is_signed
      w == MaxOf(x.width, y.width)
      r == IF Unknown(x) \/ Unknown(y) THEN {} ELSE Op(Integer(x, s), Integer(y, s))
  IN IF r = {} THEN All(w, "x") ELSE OfInt(CHOOSE n \in r : TRUE, w, s)

\* The quotient truncated toward zero, and the remainder that goes with it.
Quotients(m, n) == {q \in -(MaxOf(m, -m)) .. MaxOf(m, -m) :
                      LET rest == m - q * n
                      IN /\ MaxOf(rest, -rest) < MaxOf(n, -n)
                         /\ rest = 0 \/ (rest < 0) = (m < 0)}

Add(a, b) == Numeric(LAMBDA m, n : {m + n}, a, b)
Sub(a, b) == Numeric(LAMBDA m, n : {m - n}, a, b)
Mul(a, b) == Numeric(LAMBDA m, n : {m * n}, a, b)
Div(a, b) == Numeric(Quotients, a, b)
Modulo(a, b) == Numeric(LAMBDA m, n : {m - q * n : q \in Quotients(m, n)}, a, b)
Negate(a) == IF Unknown(a) THEN [All(a.width, "x") EXCEPT !.is_signed = a.is_signed]
             ELSE OfInt(-Num(a), a.width, a.is_signed)

\* a ** b at the width of a: the exponent is a number of its own.
Power(a, b) ==
  LET s == a.is_signed /\ b.is_signed
      m == Integer(a, a.is_signed)
      e == Integer(b, b.is_signed)
      n == CASE e = 0 -> 1
             [] e > 0 -> m^e
             [] e < 0 /\ m = 1 -> 1
             [] e < 0 /\ m = -1 -> IF e % 2 = 0 THEN 1 ELSE -1
             [] e < 0 /\ m \notin {1, -1} -> 0
  IN IF Unknown(a) \/ Unknown(b) THEN All(a.width, "x") ELSE OfInt(n, a.width, s)

Relational(Rel(_, _), a, b) ==
  LET x == AtWidth(a, b.width)
      y == AtWidth(b, a.width)
      s == x.is_signed /\ y.is_signed
  IN IF Unknown(x) \/ Unknown(y) THEN One("x") ELSE Boolean(Rel(Integer(x, s), Integer(y, s)))

-----------------------------------------------------------------------------
(* Comparisons by bits *)

\* The pairs of bits compared, at the common width.
Pairs(a, b) ==
  LET x == AtWidth(a, b.width)
      y == AtWidth(b, a.width)
      s == x.is_signed /\ y.is_signed
  IN {<<ExtBit(x, s, i), ExtBit(y, s, i)>> : i \in Positions(MaxOf(x.width, y.width))}

\* == is x only where the unknown bits could decide it.
Equal(a, b) ==
  LET P == Pairs(a, b)
  IN IF \E p \in P : p[1] \in Known /\ p[2] \in Known /\ p[1] # p[2] THEN One("0")
     ELSE IF \E p \in P : p[1] \notin Known \/ p[2] \notin Known THEN One("x") ELSE One("1")
NotEqual(a, b) == Not(Equal(a, b))

Match(a, b, Free) ==
  Boolean(\A p \in Pairs(a, b) : p[1] = p[2] \/ p[1] \in Free \/ p[2] \in Free)

\* ==?: unknown bits of the pattern b match anything.
Wildcard(a, b) ==
  LET P == {p \in Pairs(a, b) : p[2] \in Known}
  IN IF \E p \in P : p[1] \in Known /\ p[1] # p[2] THEN One("0")
     ELSE IF \E p \in P : p[1] \notin Known THEN One("x") ELSE One("1")

-----------------------------------------------------------------------------
(* Truth *)

\* Whether some bit is 1, over everything the unknown bits may be.
Nonzero(a) ==
  IF \E i \in Positions(a.width) : a.bit[i] = "1" THEN "1"
  ELSE IF Unknown(a) THEN "x" ELSE "0"

Logic(Op(_, _), a, b) == One(Op(Nonzero(a), Nonzero(b)))
ReduceAnd(a) == One(IF \E i \in Positions(a.width) : a.bit[i] = "0" THEN "0"
                    ELSE IF Unknown(a) THEN "x" ELSE "1")
ReduceXor(a) == One(IF Unknown(a) THEN "x"
                    ELSE IF Quantify(Positions(a.width), LAMBDA i : a.bit[i] = "1") % 2 = 1 THEN "1" ELSE "0")
=============================================================================
