------------------------------ MODULE ConstRef ------------------------------
(***************************************************************************)
(* What the language says a constant is worth, in integers: an expression  *)
(* has a type of its own (a width and a sign), and is computed in the      *)
(* width and sign of the context it stands in.  A constant is a record     *)
(* [w, s, v, t]: width, sign, the number its bits spell and its type with  *)
(* the ranges evaluated.  A function is known by its Meaning alone, and    *)
(* parameters are evaluated by need, wherever they are declared.           *)
(***************************************************************************)
EXTENDS Parameters

CONSTANTS Meaning(_, _),  \* the integer a function returns for its actuals
          Unbounded       \* functions that do not end within the limits

AsInt(w, s, v) == IF s /\ v >= 2^(w-1) THEN v - 2^w ELSE v
Both(a, b) == [w |-> Larger(a.w, b.w), s |-> a.s /\ b.s]
Bool(P) == IF P THEN 1 ELSE 0
Bits(w, v) == {i \in 0 .. w-1 : (v \div 2^i) % 2 = 1}

RECURSIVE Weight(_)
Weight(S) == IF S = {} THEN 0 ELSE LET i == CHOOSE i \in S : TRUE IN 2^i + Weight(S \ {i})

\* An expression's own type, the number its bits spell in a type (Meant) and
\* in its own (Own), the integer that is (Whole), what assigning it to w bits
\* stores, and a declared type with its names replaced and its ranges
\* evaluated, by one recursion.
RECURSIVE Denotes(_, _, _, _)
SelfType(e, rho) == Denotes("type", e, 0, rho)
Meant(e, w, s, rho) == Denotes("bits", e, [w |-> w, s |-> s], rho)
Own(e, rho) == Denotes("own bits", e, 0, rho)
Whole(e, rho) == Denotes("integer", e, 0, rho)
Assigned(e, w, rho) == Denotes("assigned", e, w, rho)
Ranged(t, rho) == Denotes("ranges", t, 0, rho)

RangesOf(t, rho) ==
  CASE t.k = "vec" -> [t EXCEPT !.dims = [i \in DOMAIN t.dims |-> <<Whole(t.dims[i][1], rho), Whole(t.dims[i][2], rho)>>]]
    [] t.k = "ref" -> Ranged(design.types[t.n], rho)
    [] t.k \notin {"vec", "ref"} -> t

Span(d) == Magnitude(d[1] - d[2]) + 1
WidthOfType(t) == CASE t.k = "int" -> IntWidth
                    [] t.k = "vec" -> FoldLeft(LAMBDA w, d : w * Span(d), 1, t.dims)
                    [] t.k = "struct" -> FoldLeft(LAMBDA w, f : w + f.w, 0, t.fields)
SignOfType(t) == t.k = "int" \/ (t.k = "vec" /\ t.signed)

\* What an element or a member selects of a constant: its lowest bit and width.
Element(c, i) == LET ew == c.w \div Span(c.t.dims[1])
                     d == c.t.dims[1]
                 IN [lo |-> ew * (IF d[1] >= d[2] THEN i - d[2] ELSE d[2] - i), w |-> ew]
Member(c, f) == LET j == CHOOSE j \in DOMAIN c.t.fields : c.t.fields[j].n = f
                    below == SubSeq(c.t.fields, j + 1, Len(c.t.fields))
                IN [lo |-> FoldLeft(LAMBDA w, g : w + g.w, 0, below), w |-> c.t.fields[j].w]
Selected(e, rho) ==
  LET c == rho[e.a.n]
      l == Whole(e.l, rho)
      r == Whole(e.r, rho)
  IN CASE e.k = "idx" -> Element(c, Whole(e.i, rho))
       [] e.k = "mem" -> Member(c, e.f)
       [] e.k = "rng" -> [lo |-> CASE e.kind = ":" -> r [] e.kind = "+:" -> l [] e.kind = "-:" -> l - r + 1,
                          w |-> IF e.kind = ":" THEN l - r + 1 ELSE r]

\* The type a cast gives: a named constant is a size, as a number is.
CastType(e, rho) ==
  LET t == Ranged(IF e.how = "named" THEN [k |-> "ref", n |-> e.t] ELSE e.t, rho)
      sized == e.how = "size" \/ (e.how = "named" /\ e.t \in DOMAIN rho)
      n == IF e.how = "size" THEN Whole(e.t, rho) ELSE rho[e.t].v
  IN IF sized THEN [w |-> n, s |-> SelfType(e.a, rho).s] ELSE [w |-> WidthOfType(t), s |-> SignOfType(t)]

TypeOf(e, rho) ==
  LET T(x) == SelfType(x, rho)
      Total(es) == FoldLeft(LAMBDA w, x : w + T(x).w, 0, es)
  IN CASE e.k = "num" -> [w |-> IF e.size = 0 THEN IntWidth ELSE e.size, s |-> e.signed]
       [] e.k = "id" -> [w |-> rho[e.n].w, s |-> rho[e.n].s]
       [] e.k = "un" /\ e.op \in Keeping -> T(e.a)
       [] e.k = "bin" /\ e.op \in Arith -> Both(T(e.a), T(e.b))
       [] e.k = "bin" /\ e.op \in Shifts -> T(e.a)
       [] e.k = "cond" -> Both(T(e.a), T(e.b))
       [] e.k = "cat" -> [w |-> Total(e.es), s |-> FALSE]
       [] e.k = "rep" -> [w |-> Whole(e.n, rho) * Total(e.es), s |-> FALSE]
       [] e.k \in {"idx", "mem", "rng"} -> [w |-> Selected(e, rho).w, s |-> FALSE]
       [] e.k = "sys" /\ e.f \in {"$signed", "$unsigned"} -> [T(e.args[1]) EXCEPT !.s = (e.f = "$signed")]
       [] e.k = "sys" /\ e.f \in {"$clog2", "$bits", "$countones"} -> [w |-> IntWidth, s |-> TRUE]
       [] e.k = "cast" -> CastType(e, rho)
       [] e.k = "call" -> LET t == Ranged(design.funcs[e.f].ret, rho) IN [w |-> WidthOfType(t), s |-> SignOfType(t)]
       [] OTHER -> [w |-> 1, s |-> FALSE]

\* The arithmetic of two integers; the bits of two numbers.
OfInts(op, l, r) == CASE op = "+" -> l + r
                      [] op = "-" -> l - r
                      [] op = "*" -> l * r
                      [] op = "/" -> Quot(l, r)
                      [] op = "%" -> Rem(l, r)
                      [] op = "**" -> l^r
                      [] op \in {"<<", "<<<"} -> l * 2^r
                      [] op = ">>>" -> l \div 2^r
OfBitSets(op, l, r) == CASE op = "&" -> l \cap r
                         [] op = "|" -> l \cup r
                         [] op = "^" -> (l \ r) \cup (r \ l)
Related(op, l, r) == CASE op \in {"==", "==="} -> l = r
                       [] op \in {"!=", "!=="} -> l # r
                       [] op = "<" -> l < r
                       [] op = "<=" -> l <= r
                       [] op = ">" -> l > r
                       [] op = ">=" -> l >= r

\* A reduction, a count or a query of the language.
OfOperand(op, w, v) ==
  CASE op = "!" -> Bool(v = 0)
    [] op = "&" -> Bool(v = 2^w - 1)
    [] op = "~&" -> Bool(v # 2^w - 1)
    [] op = "|" -> Bool(v # 0)
    [] op = "~|" -> Bool(v = 0)
    [] op = "^" -> Cardinality(Bits(w, v)) % 2
    [] op = "~^" -> (Cardinality(Bits(w, v)) + 1) % 2
    [] op = "$countones" -> Cardinality(Bits(w, v))
    [] op = "$onehot" -> Bool(Cardinality(Bits(w, v)) = 1)
    [] op = "$onehot0" -> Bool(Cardinality(Bits(w, v)) <= 1)
    [] op = "$isunknown" -> 0
    [] op = "$clog2" -> IF v <= 1 THEN 0 ELSE CHOOSE k \in 0 .. w : 2^k >= v /\ (k > 0 => 2^(k-1) < v)

\* The number the bits of e spell in a context of w bits and sign s.
BitsIn(e, w, s, rho) ==
  LET In(x) == Meant(x, w, s, rho)
      Z(x) == AsInt(w, s, In(x))
      pair == Both(SelfType(e.a, rho), SelfType(e.b, rho))
      Side(x) == AsInt(pair.w, pair.s, Meant(x, pair.w, pair.s, rho))
      Joint(es) == FoldLeft(LAMBDA n, x : n * 2^(SelfType(x, rho).w) + Own(x, rho), 0, es)
      one == SelfType(e, rho)
      Extended(v) == AsInt(one.w, s /\ one.s, v) % 2^w
      arg == e.args[1]
  IN CASE e.k = "num" -> Extended(e.v % 2^one.w)
       [] e.k = "id" -> Extended(rho[e.n].v)
       [] e.k = "un" /\ e.op = "+" -> In(e.a)
       [] e.k = "un" /\ e.op = "-" -> (-In(e.a)) % 2^w
       [] e.k = "un" /\ e.op = "~" -> 2^w - 1 - In(e.a)
       [] e.k = "un" /\ e.op \notin Keeping -> OfOperand(e.op, SelfType(e.a, rho).w, Own(e.a, rho))
       [] e.k = "bin" /\ e.op \in {"+", "-", "*", "/", "%"} -> OfInts(e.op, Z(e.a), Z(e.b)) % 2^w
       [] e.k = "bin" /\ e.op \in {"&", "|", "^"} -> Weight(OfBitSets(e.op, Bits(w, In(e.a)), Bits(w, In(e.b))))
       [] e.k = "bin" /\ e.op = "~^" -> 2^w - 1 - Weight(OfBitSets("^", Bits(w, In(e.a)), Bits(w, In(e.b))))
       [] e.k = "bin" /\ e.op = ">>" -> In(e.a) \div 2^Own(e.b, rho)
       [] e.k = "bin" /\ e.op \in {"**", "<<", "<<<", ">>>"} -> OfInts(e.op, Z(e.a), Own(e.b, rho)) % 2^w
       [] e.k = "bin" /\ e.op \in Compare -> Bool(Related(e.op, Side(e.a), Side(e.b)))
       [] e.k = "bin" /\ e.op = "&&" -> Bool(Own(e.a, rho) # 0 /\ Own(e.b, rho) # 0)
       [] e.k = "bin" /\ e.op = "||" -> Bool(Own(e.a, rho) # 0 \/ Own(e.b, rho) # 0)
       [] e.k = "cond" -> In(IF Own(e.c, rho) # 0 THEN e.a ELSE e.b)
       [] e.k = "cat" -> Joint(e.es)
       [] e.k = "rep" -> Joint(FlattenSeq([i \in 1 .. Whole(e.n, rho) |-> e.es]))
       [] e.k \in {"idx", "mem", "rng"} ->
            LET p == Selected(e, rho) IN (rho[e.a.n].v \div 2^p.lo) % 2^p.w
       [] e.k = "sys" /\ e.f \in {"$signed", "$unsigned"} -> Extended(Own(arg, rho))
       [] e.k = "sys" /\ e.f = "$bits" ->
            IF arg.k = "type" THEN WidthOfType(Ranged(arg.t, rho)) ELSE SelfType(arg, rho).w
       [] e.k = "sys" /\ e.f \notin {"$signed", "$unsigned", "$bits"} ->
            OfOperand(e.f, SelfType(arg, rho).w, Own(arg, rho))
       [] e.k = "cast" -> Extended(Assigned(e.a, one.w, rho))
       [] e.k = "call" ->
            LET fd == design.funcs[e.f]
                Formal(i) == LET t == Ranged(fd.ports[i].t, rho)
                             IN AsInt(WidthOfType(t), SignOfType(t), Assigned(e.args[i], WidthOfType(t), rho))
            IN Extended(Meaning(e.f, [i \in DOMAIN e.args |-> Formal(i)]) % 2^one.w)

\* An assignment computes in the wider of the two.
Denotes(how, e, x, rho) ==
  LET t == SelfType(e, rho) IN
  CASE how = "type" -> TypeOf(e, rho)
    [] how = "bits" -> BitsIn(e, x.w, x.s, rho)
    [] how = "own bits" -> Meant(e, t.w, t.s, rho)
    [] how = "integer" -> AsInt(t.w, t.s, Own(e, rho))
    [] how = "assigned" -> Meant(e, Larger(x, t.w), t.s, rho) % 2^x
    [] how = "ranges" -> RangesOf(e, rho)

-----------------------------------------------------------------------------
(* Parameters *)

\* A constant of the declared type t that e initialises, e read in rho and
\* the ranges of t in own.
Constant(t, e, rho, own) ==
  LET r == Ranged(t, own)
      w == WidthOfType(r)
      self == SelfType(e, rho)
      sw == IF e.k = "fill" THEN 1 ELSE self.w
      Filling(n) == IF e.bit = "1" THEN 2^n - 1 ELSE 0
  IN IF t.k = "untyped"
     THEN [w |-> sw, v |-> IF e.k = "fill" THEN Filling(1) ELSE Own(e, rho), t |-> [k |-> "vec", dims |-> <<<<sw - 1, 0>>>>],
           s |-> IF t.signing = "none" THEN self.s ELSE t.signing = "signed"]
     ELSE [w |-> w, s |-> SignOfType(r), v |-> IF e.k = "fill" THEN Filling(w) ELSE Assigned(e, w, rho), t |-> r]

\* The names an expression and a type read.
RECURSIVE Reads(_)
Reads(e) ==
  LET Of(es) == UNION {Reads(es[i]) : i \in DOMAIN es} IN
  CASE e.k = "id" -> {e.n}
    [] e.k \in {"un", "mem"} -> Reads(e.a)
    [] e.k = "bin" -> Of(<<e.a, e.b>>)
    [] e.k = "cond" -> Of(<<e.c, e.a, e.b>>)
    [] e.k = "cat" -> Of(e.es)
    [] e.k = "rep" -> Of(<<e.n>> \o e.es)
    [] e.k = "idx" -> Of(<<e.a, e.i>>)
    [] e.k = "rng" -> Of(<<e.a, e.l, e.r>>)
    [] e.k \in {"sys", "call"} -> Of(e.args)
    [] e.k = "cast" -> Reads(e.a) \cup (CASE e.how = "size" -> Reads(e.t)
                                          [] e.how = "named" -> {e.t} \ DOMAIN design.types
                                          [] e.how = "type" -> {})
    [] e.k \in {"num", "fill", "type"} -> {}
TypeReads(t) == IF t.k = "vec" THEN UNION {Reads(t.dims[i][j]) : i \in DOMAIN t.dims, j \in 1 .. 2} ELSE {}

\* The declarations evaluated by need, over what rho has; over[n] is the
\* expression an override gives n, read in the scope of the instantiation.
RECURSIVE ByNeed(_, _, _, _)
ByNeed(decls, over, outer, rho) ==
  LET ready == {d \in decls : /\ TypeReads(d.t) \subseteq DOMAIN rho
                              /\ d.n \in DOMAIN over \/ Reads(d.init) \subseteq DOMAIN rho}
      d == CHOOSE d \in ready : TRUE
      given == d.n \in DOMAIN over
      c == Constant(d.t, IF given THEN over[d.n] ELSE d.init, IF given THEN outer ELSE rho, rho)
  IN IF ready = {} THEN rho ELSE ByNeed(decls \ {d}, over, outer, (d.n :> c) @@ rho)

Endless(d) == d.init.k = "call" /\ d.init.f \in Unbounded
Body == {d \in Range(design.body) : ~Endless(d)}
Constants == ByNeed(Range(design.header) \cup Body, <<>>, <<>>, <<>>)
OverriddenBody == {d \in Range(design.child.body) : d.n \in DOMAIN design.ovr}
ChildConstants(outer) == ByNeed(Range(design.child.header) \cup OverriddenBody, design.ovr, outer, <<>>)

Shows(v, c) == v.width = c.w /\ v.is_signed = c.s /\ v.xz = {} /\ Num(v.val) = c.v
ShowsAll(table, rho) == DOMAIN table = DOMAIN rho /\ \A n \in DOMAIN rho : Shows(table[n], rho[n])

-----------------------------------------------------------------------------
(* Properties *)

\* In whatever order a module's parameters are declared, the table that
\* sizes declarations and the signals that names read hold what the language
\* says (value, width and sign), and so does the table of an instance, whose
\* overrides are computed in the width of the parameter they are assigned to
\* and in the scope of the instantiation; what is left to the simulator is
\* what calls a function that does not end within the limits
\* (elaborate_module and inline_instances).
ParametersTrue ==
  phase = "done" =>
    \E rho \in {Constants} :
      /\ deferred = {d.n : d \in Range(design.body) \ Body}
      /\ ShowsAll(Restrict(parameters, DOMAIN parameters \ deferred), rho)
      /\ ShowsAll(Restrict(signals, DOMAIN signals \ deferred), Restrict(rho, {d.n : d \in Body}))
      /\ ShowsAll(child, ChildConstants(rho))

\* The evaluator in machine integers, which sizes ports, nets and arrays,
\* gives each dimension the value the language does, calls of functions
\* included (const_eval_i64_with_params).
DimensionsTrue ==
  phase = "done" =>
    \E rho \in {Constants} : sizes = [i \in DOMAIN design.dims |-> Some(Whole(design.dims[i], rho))]

\* At every point of the elaboration a call that is handed only the names
\* its body is found to read comes to the same as one that is handed the
\* whole table (const_function_scope: "its result cannot differ").
ListedReads ==
  \A i \in DOMAIN design.calls :
    \E result \in {[own \in BOOLEAN |-> Substitute(design.calls[i], Env(parameters, own), 0)]} :
      result[TRUE] = result[FALSE]
=============================================================================
