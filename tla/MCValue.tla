------------------------------ MODULE MCValue ------------------------------
EXTENDS ValueOps

\* All values of width n over some bits, signed and unsigned.
Vals(n, bits) == {FromBits(n, s, LAMBDA i : f[i]) : f \in [Mask(n) -> bits], s \in BOOLEAN}

\* Values of width n made of two runs of equal bits.
Runs(n, bits) == {FromBits(n, s, LAMBDA i : IF i < k THEN p ELSE q) :
                    k \in {1, W, n - 1}, p \in bits, q \in bits, s \in BOOLEAN}

Literals == {FillOf(bit) : bit \in LogicBit}

\* Bitwise operators and comparisons: one word, exactly two, and more.
BitsLefts == Vals(1, LogicBit) \cup Vals(2, LogicBit) \cup Runs(3, LogicBit)
             \cup Runs(6, {"0", "x"}) \cup Runs(7, {"1", "z"})
BitsRights == Literals \cup Vals(1, LogicBit) \cup Runs(3, {"1", "x"}) \cup Runs(4, {"0", "1"})
              \cup Runs(7, {"0", "z"})

\* Moves: widths that do not divide the word, so that most chunks straddle two.
MovesLefts == Runs(2, LogicBit) \cup Runs(5, {"0", "1", "z"}) \cup Runs(7, {"0", "x"})
MovesRights == {FromBits(n, FALSE, LAMBDA i : IF i % 2 = 0 THEN "1" ELSE "z") : n \in {1, 4}}
MovesAmounts == {FromNat(n, W) : n \in 0 .. B-1} \cup {Scalar("x")}
MovesBounds == {-1, 0, 1, 2, 4, 7}

WritesLefts == {FromBits(n, FALSE, LAMBDA i : "0") : n \in {1, 2, 3, 5}}
WritesRights == MovesRights
WritesBounds == 0 .. 6

\* Arithmetic: every known value of a word or little more, and the edges of
\* two words and of three.
Numbers(n) == Vals(n, Known)
ArithLefts == UNION {Numbers(n) : n \in 1 .. 4} \cup UNION {Runs(n, Known) : n \in 5 .. 7}
              \cup Runs(4, LogicBit)
ArithRights == {b \in Literals : ~HasXZ(b)} \cup UNION {Numbers(n) : n \in 1 .. 4}
               \cup UNION {Runs(n, Known) : n \in 5 .. 7} \cup Runs(2, {"1", "x"})
ArithAmounts == {b \in Numbers(2) : ~b.is_signed \/ ToI64(b) >= 0} \cup {Scalar("x")}

ByGroup(b, m, w, a) == [g \in Groups |-> CASE g = "bits" -> b [] g = "moves" -> m
                                          [] g = "writes" -> w [] g = "arith" -> a]
MCLefts == ByGroup(BitsLefts, MovesLefts, WritesLefts, ArithLefts)
MCOperands == ByGroup(BitsRights, MovesRights, WritesRights, ArithRights)
MCCounts == ByGroup({}, MovesAmounts, {}, ArithAmounts)
MCIndices == ByGroup({}, MovesBounds, WritesBounds, {})
=============================================================================
