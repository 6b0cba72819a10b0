------------------------------ MODULE ValueOps -----------------------------
(***************************************************************************)
(* Sequences of operations on one value.  `acc` is the value as            *)
(* src/value.rs computes it, in planes and words; `ref` is the same value  *)
(* computed bit by bit or in integers (ValueRef).  Every operation starts  *)
(* from what the previous ones left, so a bit that one of them leaves      *)
(* above the width is met by the next.                                     *)
(***************************************************************************)
EXTENDS ValueArith

CONSTANTS Lefts,    \* for each group, the values a sequence starts from
          Operands, \* the other operands, unbased unsized literals among them
          Counts,   \* shift amounts and exponents
          Indices,  \* select bounds, widths and counts
          Widest    \* a bound on the width of `acc`

VARIABLES acc, ref,
          group     \* the operators of a sequence, each group with its own inputs
vars == <<acc, ref, group>>

Groups == {"bits", "moves", "writes", "arith"}
Rights == Operands[group]
Amounts == Counts[group]
Bounds == Indices[group]

R == INSTANCE ValueRef

\* The value that planes stand for.
Abstract(a) == [width |-> a.width, is_signed |-> a.is_signed, is_fill |-> a.is_fill,
                bit |-> [i \in Mask(a.width) |-> PlaneBit(a.val, a.xz, i)]]

\* An operand: no bit above its width, no wider than the bound; a literal has
\* one bit.
Values == [val : SUBSET Nat, xz : SUBSET Nat, width : Nat, is_signed : BOOLEAN, is_fill : BOOLEAN]
Clear(a) == a.val \cup a.xz \subseteq Mask(a.width)
Operand(a) == a \in Values /\ Clear(a) /\ a.width <= Widest /\ (a.is_fill => a.width = 1)

ASSUME OpsAssumption ==
  /\ Widest \in Nat /\ Widest < MaxWidth
  /\ \A g \in Groups : /\ \A a \in Lefts[g] : Operand(a) /\ ~a.is_fill
                       /\ \A b \in Operands[g] \cup Counts[g] : Operand(b)
                       /\ Indices[g] \subseteq Int

\* Shift amounts fit the u32 they are narrowed to, and so do select indexes; no
\* select is wider than the widest value.
ASSUME RangeAssumption ==
  /\ \A b \in Counts["moves"] :
        HasXZ(b) \/ (Amount(b) \in Nat /\ Amount(b) = R!Num(Abstract(b)))
  /\ \A i \in Indices["moves"] : i >= 0 => i % 2^IndexBits = i
  /\ \A hi, lo \in Indices["moves"] : hi - lo < MaxWidth

Init == group \in Groups /\ acc \in Lefts[group] /\ ref = Abstract(acc)

\* One operation, done both ways.
Do(v, r) == v.width <= Widest /\ acc' = v /\ ref' = r /\ group' = group

\* The same where the type of the result is not claimed.
DoUntyped(v, r) == Do(v, [r EXCEPT !.is_signed = v.is_signed])

\* An operation on `acc` and an operand, on either side.
Binary(Impl(_, _), Ref(_, _)) ==
  \E b \in Rights : \/ Do(Impl(acc, b), Ref(ref, Abstract(b)))
                    \/ Do(Impl(b, acc), Ref(Abstract(b), ref))

\* The operators that do not widen a literal get none.
PlainRights == {b \in Rights : ~b.is_fill}

-----------------------------------------------------------------------------
(* Bitwise operators, comparisons by bits, truth *)

And == Binary(BitwiseAnd, R!And)
Or == Binary(BitwiseOr, R!Or)
Xor == Binary(BitwiseXor, R!Xor)
Xnor == Binary(BitwiseXnor, R!Xnor)
Not == Do(BitwiseNot(acc), R!Not(ref))
Merge == \E b \in PlainRights : DoUntyped(MergeUnknown(acc, b), R!Merge(ref, Abstract(b)))

CaseEquality == Binary(CaseEq, LAMBDA a, b : R!Match(a, b, {}))
Casez == Binary(CasezEq, LAMBDA a, b : R!Match(a, b, {"z"}))
Casex == Binary(CasexEq, LAMBDA a, b : R!Match(a, b, {"x", "z"}))
Wildcard == \E b \in PlainRights :
  \/ Do(WildcardEq(acc, b), R!Wildcard(ref, Abstract(b)))
  \/ Do(WildcardNe(acc, b), R!Not(R!Wildcard(ref, Abstract(b))))

Logic == \E b \in Rights :
  \/ Do(LogicAnd(acc, b), R!Logic(R!AndB, ref, Abstract(b)))
  \/ Do(LogicOr(acc, b), R!Logic(R!OrB, ref, Abstract(b)))
  \/ Do(LogicImpl(acc, b), R!Logic(LAMBDA p, q : R!OrB(R!NotB(p), q), ref, Abstract(b)))
  \/ Do(LogicEquiv(acc, b), R!Logic(LAMBDA p, q : R!NotB(R!XorB(p, q)), ref, Abstract(b)))
Truths == \/ Do(LogicNot(acc), R!One(R!NotB(R!Nonzero(ref))))
          \/ Do(ReduceAnd(acc), R!ReduceAnd(ref))
          \/ Do(ReduceOr(acc), R!One(R!Nonzero(ref)))
          \/ Do(ReduceXor(acc), R!ReduceXor(ref))

NextBits == And \/ Or \/ Xor \/ Xnor \/ Not \/ Merge \/ CaseEquality \/ Casez \/ Casex
            \/ Wildcard \/ Logic \/ Truths

-----------------------------------------------------------------------------
(* Moving bits *)

ShiftL == \E b \in Amounts : DoUntyped(ShiftLeft(acc, b), R!ShiftUp(ref, Abstract(b)))
ShiftR == \E b \in Amounts : DoUntyped(ShiftRight(acc, b), R!ShiftDown(ref, Abstract(b), FALSE))
ShiftA == \E b \in Amounts :
  DoUntyped(ArithShiftRight(acc, b), R!ShiftDown(ref, Abstract(b), ref.is_signed))

SelectBit == \E i \in Bounds : i >= 0 /\ Do(BitSelect(acc, i), R!Select(ref, i, i))
SelectRange == \E hi, lo \in Bounds :
  lo >= 0 /\ hi >= lo /\ Do(RangeSelect(acc, hi, lo), R!Select(ref, hi, lo))
SelectSigned == \E hi, lo \in Bounds : Do(RangeSelectSigned(acc, hi, lo), R!Select(ref, hi, lo))

Join == Binary(Concat, R!Concat)
Repeat == \E n \in Bounds : n >= 0 /\ Do(Replicate(acc, n), R!Replicate(ref, n))
Extend == \E n \in Bounds : n >= 0 /\ Do(Resize(acc, n), R!Resize(ref, n))
Assign == \E n \in Bounds : n >= 0 /\ Do(ResizeForAssign(acc, n), R!ResizeForAssign(ref, n))
Coerce == Do(ToTwoState(acc), R!TwoState(ref))

NextMoves == ShiftL \/ ShiftR \/ ShiftA \/ SelectBit \/ SelectRange \/ SelectSigned \/ Join
             \/ Repeat \/ Extend \/ Assign \/ Coerce

-----------------------------------------------------------------------------
(* Writing bits in place *)

\* A part of another value written into this one, and one bit of it.
Write == \E b \in PlainRights, d, s, n \in Bounds :
  /\ d >= 0 /\ s >= 0 /\ n > 0
  /\ Do(CopyBitsFrom(acc, d, b, s, n), R!Write(ref, d, Abstract(b), s, n))
WriteBit == \E i \in Bounds, bit \in LogicBit :
  i >= 0 /\ Do(SetBit(acc, i, bit), R!Write(ref, i, R!One(bit), 0, 1))

NextWrites == Write \/ WriteBit

-----------------------------------------------------------------------------
(* Arithmetic *)

Addition == Binary(Add, R!Add)
Difference == Binary(Sub, R!Sub)
Product == Binary(Mul, R!Mul)
Quotient == Binary(Div, R!Div)
Remainder == Binary(Modulo, R!Modulo)
Minus == Do(Negate(acc), R!Negate(ref))
Raise == \E b \in Amounts : Do(Power(acc, b), R!Power(ref, Abstract(b)))

Equality == Binary(IsEqual, R!Equal)
Inequality == Binary(IsNotEqual, R!NotEqual)
Less == Binary(LessThan, LAMBDA a, b : R!Relational(LAMBDA m, n : m < n, a, b))
AtMost == Binary(LessEqual, LAMBDA a, b : R!Relational(LAMBDA m, n : m <= n, a, b))
Greater == Binary(GreaterThan, LAMBDA a, b : R!Relational(LAMBDA m, n : m > n, a, b))
AtLeast == Binary(GreaterEqual, LAMBDA a, b : R!Relational(LAMBDA m, n : m >= n, a, b))

NextArith == Addition \/ Difference \/ Product \/ Quotient \/ Remainder \/ Minus \/ Raise
             \/ Equality \/ Inequality \/ Less \/ AtMost \/ Greater \/ AtLeast

Next == \/ group = "bits" /\ NextBits
        \/ group = "moves" /\ NextMoves
        \/ group = "writes" /\ NextWrites
        \/ group = "arith" /\ NextArith

Spec == Init /\ [][Next]_vars

-----------------------------------------------------------------------------
(* Properties *)

\* Every operation of value.rs leaves no bit set above the width, in either
\* plane: has_xz, ==, the word loops of the reductions and the unmasked
\* inline arms all rely on it.
Canonical == acc.val \cup acc.xz \subseteq Mask(acc.width)

\* After any sequence of operations the planes hold the width, the type and
\* the bits that the language gives the same sequence (value.rs keeps three
\* implementations of most operators, for one word, for equal widths and for
\* the rest: they must agree).
Faithful == Abstract(acc) = ref
=============================================================================
