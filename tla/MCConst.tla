------------------------------ MODULE MCConst -------------------------------
EXTENDS ConstRef

(* Expressions, types, statements and declarations as they are written *)

Num_(w, s, v) == [k |-> "num", size |-> w, signed |-> s, v |-> v, xz |-> {}]
N(v) == Num_(0, TRUE, v)
U(w, v) == Num_(w, FALSE, v)
S(w, v) == Num_(w, TRUE, v)
Fill(b) == [k |-> "fill", bit |-> b]
I(n) == [k |-> "id", n |-> n]
Un(op, a) == [k |-> "un", op |-> op, a |-> a]
Bin(a, op, b) == [k |-> "bin", op |-> op, a |-> a, b |-> b]
Cond(c, a, b) == [k |-> "cond", c |-> c, a |-> a, b |-> b]
Cat(es) == [k |-> "cat", es |-> es]
Rep(n, es) == [k |-> "rep", n |-> n, es |-> es]
Idx(a, i) == [k |-> "idx", a |-> a, i |-> i]
Rng(a, kind, l, r) == [k |-> "rng", kind |-> kind, a |-> a, l |-> l, r |-> r]
Mem(a, f) == [k |-> "mem", a |-> a, f |-> f]
Sys(f, a) == [k |-> "sys", f |-> f, args |-> <<a>>]
Cast(how, t, a) == [k |-> "cast", how |-> how, t |-> t, a |-> a]
Call(f, as) == [k |-> "call", f |-> f, args |-> as]
OfType(t) == [k |-> "type", t |-> t]

IntT == [k |-> "int"]
Untyped == [k |-> "untyped", signing |-> "none"]
UntypedAsSigned == [k |-> "untyped", signing |-> "signed"]
Vec(dims) == [k |-> "vec", dims |-> dims, signed |-> FALSE, two |-> FALSE]
Bus(w) == Vec(<<<<N(w - 1), N(0)>>>>)
SBus(w) == [Bus(w) EXCEPT !.signed = TRUE, !.two = TRUE]
Ref(n) == [k |-> "ref", n |-> n]
WordT == [k |-> "struct", fields |-> <<[n |-> "hi", w |-> 4], [n |-> "lo", w |-> 3]>>]
Types == [word |-> WordT, byte_t |-> SBus(7)]

Let(n, e) == [k |-> "set", l |-> I(n), r |-> e]
Write(l, e) == [k |-> "set", l |-> l, r |-> e]
Var(n, t) == [k |-> "var", n |-> n, t |-> t, init |-> None]
Begin(ss) == [k |-> "block", ss |-> ss]
If(c, a) == [k |-> "if", c |-> c, a |-> a, b |-> <<>>]
IfElse(c, a, b) == [k |-> "if", c |-> c, a |-> a, b |-> <<b>>]
While(c, s) == [k |-> "while", c |-> c, body |-> s]
For(init, c, step, s) == [k |-> "for", init |-> <<init>>, c |-> <<c>>, step |-> <<step>>, body |-> s]
LoopVar(n, e) == [k |-> "loopvar", n |-> n, e |-> e]
Step(n, by) == [k |-> "step", n |-> n, by |-> by]
Case(e, items, dflt) == [k |-> "case", e |-> e, items |-> items, dflt |-> <<dflt>>]
Of(pats, s) == [pats |-> pats, s |-> s]
Return(e) == [k |-> "return", e |-> <<e>>]

Port(n, t) == [n |-> n, t |-> t]
Fn(name, ports, ret, items) == [name |-> name, ports |-> ports, ret |-> ret, items |-> items]
P(n, t, e) == [n |-> n, t |-> t, init |-> e]
Alone == [header |-> <<>>, body |-> <<>>]
Text(header, body) == [header |-> header, body |-> body, child |-> Alone, ovr |-> <<>>, funcs |-> <<>>, types |-> Types,
                       dims |-> <<>>, calls |-> <<>>]

-----------------------------------------------------------------------------
(* Constant functions, and what they compute *)

Functions_ ==
  LET n == Port("n", IntT)
      a == Port("a", Bus(4))
  IN [bits |-> Fn("bits", <<n>>, IntT,                 \* a loop to a condition
                  <<Let("bits", N(0)), While(Bin(Bin(N(1), "<<", I("bits")), "<", I("n")), Let("bits", Bin(I("bits"), "+", N(1))))>>),
      sum |-> Fn("sum", <<n>>, IntT,                   \* a counted loop
                 <<Var("s", IntT), For(LoopVar("i", N(0)), Bin(I("i"), "<", I("n")), Step("i", 1), Let("s", Bin(I("s"), "+", I("i")))),
                   Return(I("s"))>>),
      first |-> Fn("first", <<n>>, IntT,               \* a loop left early
                   <<For(LoopVar("i", N(1)), Bin(I("i"), "<=", I("n")), Step("i", 1),
                         If(Bin(Bin(I("i"), "*", I("i")), ">=", I("n")), Return(I("i")))), Return(N(0))>>),
      fact |-> Fn("fact", <<n>>, IntT,                 \* recursion
                  <<Return(Cond(Bin(I("n"), "<=", N(1)), N(1), Bin(I("n"), "*", Call("fact", <<Bin(I("n"), "-", N(1))>>))))>>),
      pick |-> Fn("pick", <<n>>, IntT,                 \* reads K and L
                  <<Case(I("n"), <<Of(<<N(0)>>, Let("pick", I("K"))), Of(<<N(1), N(2)>>, Let("pick", Bin(I("K"), "+", I("L"))))>>,
                         Let("pick", I("L")))>>),
      either |-> Fn("either", <<n>>, IntT, <<Return(Cond(Bin(I("n"), "<", I("L")), I("L"), I("K")))>>),
      outer |-> Fn("outer", <<n>>, IntT,               \* calls one that reads K
                   <<IfElse(Bin(I("n"), ">", N(3)), Let("outer", Call("either", <<I("n")>>)),
                            Begin(<<Let("outer", Call("pick", <<I("n")>>)), Let("outer", Bin(I("outer"), "+", N(1)))>>))>>),
      pair |-> Fn("pair", <<a>>, Ref("word"),          \* writes members
                  <<Write(Mem(I("pair"), "hi"), I("a")), Write(Mem(I("pair"), "lo"), Bin(I("a"), "+", N(1)))>>),
      swap |-> Fn("swap", <<Port("a", Vec(<<<<N(1), N(0)>>, <<N(2), N(0)>>>>))>>, Bus(6),  \* reads and writes elements
                  <<Var("t", Vec(<<<<N(0), N(1)>>, <<N(2), N(0)>>>>)), Write(Idx(I("t"), N(0)), Idx(I("a"), N(0))),
                    Write(Idx(I("t"), N(1)), Idx(I("a"), N(1))), Return(I("t"))>>),
      turn |-> Fn("turn", <<a>>, Bus(4),               \* writes ranges
                  <<Write(Rng(I("turn"), ":", N(1), N(0)), Bin(I("a"), ">>", N(2))), Write(Rng(I("turn"), "+:", N(2), N(2)), I("a"))>>),
      spin |-> Fn("spin", <<n>>, IntT, <<While(N(1), Let("spin", I("n")))>>),
      deep |-> Fn("deep", <<n>>, IntT, <<Return(Bin(N(1), "+", Call("deep", <<I("n")>>)))>>)]

K == 5
L == 3
MCMeaning(f, a) ==
  CASE f = "bits" -> CHOOSE b \in 0 .. 8 : 2^b >= a[1] /\ (b > 0 => 2^(b-1) < a[1])
    [] f = "sum" -> (a[1] * (a[1] - 1)) \div 2
    [] f = "first" -> CHOOSE r \in 1 .. a[1] : r * r >= a[1] /\ (r-1) * (r-1) < a[1]
    [] f = "fact" -> <<1, 2, 6, 24>>[a[1]]
    [] f = "pick" -> (CASE a[1] = 0 -> K [] a[1] \in {1, 2} -> K + L [] OTHER -> L)
    [] f = "either" -> IF a[1] < L THEN L ELSE K
    [] f = "outer" -> (CASE a[1] > 3 -> K [] a[1] = 0 -> K + 1 [] a[1] \in {1, 2} -> K + L + 1 [] a[1] = 3 -> L + 1)
    [] f = "pair" -> a[1] * 8 + ((a[1] + 1) % 8)
    [] f = "swap" -> ((a[1] % 8) * 8) + (a[1] \div 8)
    [] f = "turn" -> ((a[1] % 4) * 4) + (a[1] \div 4)
MCUnbounded == {"spin", "deep"}

-----------------------------------------------------------------------------
(* Designs *)

\* Two operands, in the width of a declared type and in their own.
Operand == [neg |-> S(4, 13), small |-> U(3, 5), big |-> U(5, 19), one |-> N(3)]
Pairs == {<<"neg", "one">>, <<"big", "small">>, <<"neg", "small">>, <<"small", "big">>}
Operators == (Arith \cup {"<<", ">>", ">>>", "<", "==", ">="})
Computed(pair, op) ==
  LET e == Bin(I("X"), op, I("Y")) IN
  Text(<<P("X", Untyped, Operand[pair[1]]), P("Y", Untyped, Operand[pair[2]])>>,
       <<P("A", Bus(7), e), P("B", SBus(6), e), P("C", Untyped, e), P("D", Bus(7), Un("-", e)), P("E", Untyped, Un("~", I("X"))),
         P("F", SBus(7), Cond(Bin(I("X"), ">", I("Y")), Bin(I("X"), "+", I("Y")), I("Y")))>>)
Lossy(p, op) == p[1] = "neg" /\ (op = ">>" \/ (op \in BitOps /\ p[2] = "one"))
Arithmetic == {Computed(x[1], x[2]) : x \in {x \in Pairs \X Operators : ~Lossy(x[1], x[2])}}

\* Declarations that read one another, in every order; a range that reads
\* one, and a chain as long as the body.
Orders(decls) == {[i \in DOMAIN decls |-> decls[f[i]]] : f \in {f \in [DOMAIN decls -> DOMAIN decls] : IsInjective(f)}}
Chain == <<P("A", Vec(<<<<Bin(I("B"), "-", N(1)), N(0)>>>>), Bin(I("H"), "*", N(7))),
           P("B", Untyped, Bin(I("C"), "+", N(1))),
           P("C", IntT, Sys("$clog2", I("D"))),
           P("D", SBus(7), Cond(Bin(I("H"), ">", N(2)), Cast("size", N(6), Bin(I("H"), "<<", N(2))), I("H")))>>
Forward == {[Text(<<P("H", IntT, N(3))>>, body) EXCEPT !.dims = <<Bin(I("A"), "-", N(1)), Sys("$bits", I("A")), I("B")>>] :
              body \in Orders(Chain)}

\* Members, elements, concatenations, casts and queries.
Shapes ==
  {[Text(<<P("R", Ref("word"), U(7, 107)), P("V", Vec(<<<<N(0), N(2)>>, <<N(1), N(0)>>>>), U(6, 27))>>,
         <<P("A", Bus(6), Mem(I("R"), "hi")), P("B", Bus(5), Cat(<<U(1, 1), Idx(I("V"), N(i))>>)),
           P("C", Bus(7), Rep(N(2), <<Mem(I("R"), "lo")>>)), P("D", Untyped, Rng(I("R"), kind, N(4), N(2))),
           P("E", Ref("byte_t"), Cast("type", SBus(3), Bin(I("R"), "+", N(i)))), P("F", Bus(6), Cast("named", "E3", N(19))),
           P("E3", Untyped, N(3)), P("G", Bus(5), Fill("1")), P("O", Untyped, Fill("1")), P("M", UntypedAsSigned, U(3, 6)),
           P("Q", SBus(7), Cast("named", "byte_t", Un("-", N(i))))>>)
      EXCEPT !.dims = <<Mem(I("R"), "lo"), Idx(I("V"), N(i)), Sys("$bits", Mem(I("R"), "hi")), Sys("$bits", I("V")),
                        Sys("$bits", OfType(Vec(<<<<N(i), N(0)>>, <<N(3), N(0)>>>>))), Sys("$clog2", I("R")), Sys("$countones", I("V")),
                        Un("&", I("G")), Un("^", I("R")), Cat(<<U(1, 1), I("E3")>>), Bin(I("E3"), "**", N(2)),
                        Bin(Bin(I("G"), "%", N(4)), "&", N(i)), Cond(Bin(I("G"), ">", I("E3")), N(2), N(1)), Sys("$bits", Bin(I("G"), "+", I("R")))>>] :
     i \in 0 .. 2, kind \in {":", "+:", "-:"}}

\* Calls, in initialisers, dimensions and arguments.
Calling ==
  {[Text(<<P("K", IntT, N(K))>>,
         <<P("A", IntT, Call(f, <<N(n)>>)), P("L", IntT, N(L)), P("B", Bus(5), Bin(Call(f, <<N(n)>>), "+", Call("bits", <<I("L")>>))),
           P("C", Ref("word"), Call("pair", <<U(4, n + 8)>>)), P("D", Bus(6), Call("swap", <<U(6, n + 24)>>)), P("E", Bus(7), Call("turn", <<U(4, n + 8)>>))>>)
      EXCEPT !.funcs = Functions_, !.dims = <<Call(f, <<N(n)>>), Bin(Call(f, <<N(n)>>), "-", N(1)), Call("bits", <<Call("bits", <<I("K")>>)>>)>>,
             !.calls = <<Call("pick", <<N(n)>>), Call("either", <<N(n)>>), Call("outer", <<N(n)>>), Call("bits", <<I("K")>>), Call("first", <<I("K")>>)>>] :
     f \in {"bits", "sum", "first", "fact"}, n \in 1 .. 4}
Reading_ ==
  {[Text(<<P("K", IntT, N(K)), P("L", IntT, N(L))>>, <<P("A", IntT, Call(f, <<N(n)>>)), P("Z", IntT, Call(g, <<N(n)>>))>>)
      EXCEPT !.funcs = Functions_, !.dims = <<Call(f, <<N(n)>>)>>,
             !.calls = <<Call(f, <<N(n)>>), Bin(Call(f, <<Call("bits", <<I("L")>>)>>), "+", N(n))>>] :
     f \in {"pick", "either", "outer"}, g \in {"spin", "deep"}, n \in 0 .. 4}

\* An instance: overrides of header and body parameters, read in the scope
\* of the instantiation, where the same names mean something else.
Source == {Bin(I("X"), "+", I("Y")), Un("-", I("X")), U(6, 45), S(3, 5), Bin(I("WD"), "+", N(1)), I("N"), Call("bits", <<I("X")>>)}
Instance_ ==
  {[Text(<<P("X", Untyped, U(4, 9)), P("Y", Untyped, U(4, 8)), P("WD", IntT, N(7))>>, <<P("N", SBus(5), Un("-", N(6)))>>) EXCEPT
      !.child = [header |-> <<P("WD", IntT, N(3)), P("X", Untyped, Bin(I("WD"), "+", N(1))), P("V", Vec(<<<<I("WD"), N(0)>>>>), Bin(I("WD"), "*", N(2))),
                              P("T", SBus(6), Bin(I("V"), "+", I("X")))>>,
                 body |-> <<P("Z", t, N(1))>>],
      !.ovr = over @@ ("Z" :> e), !.funcs = Functions_] :
     e \in Source, over \in {("WD" :> N(4)), ("V" :> Bin(I("X"), "+", I("Y"))), ("X" :> S(3, 6)) @@ ("T" :> Bin(I("X"), "+", I("Y")))},
     t \in {SBus(6), Vec(<<<<I("WD"), N(0)>>>>), Untyped}}

MCDesigns == Arithmetic \cup Forward \cup Shapes \cup Calling \cup Reading_ \cup Instance_
=============================================================================
