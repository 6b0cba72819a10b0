------------------------------ MODULE MCInline -------------------------------
EXTENDS Inline

N(w) == <<w>>
I(w) == make_ident_expr(N(w))
H(a, b) == IdOf("", <<Seg(N(a), <<>>), Seg(N(b), <<>>)>>)
Cat(es) == [k |-> "op", o |-> "{}", kids |-> es]
And(a, b) == [k |-> "op", o |-> "&", kids |-> <<a, b>>]
Lt(a, b) == [k |-> "op", o |-> "<", kids |-> <<a, b>>]

Bus(l, r) == Shape(l, r, 1)
Wire == Bus(0, 0)
Net(n, s) == [Item EXCEPT !.k = "data", !.names = <<N(n)>>, !.def = "net", !.shape = s]
Var(n, s) == [Net(n, s) EXCEPT !.def = "var", !.shape.var = TRUE]
To(lhs, rhs) == [Item EXCEPT !.k = "assign", !.es = <<lhs, rhs>>]
Does(body) == [Item EXCEPT !.k = "process", !.body = body]
Set(lhs, rhs) == [Stmt EXCEPT !.k = "assign", !.es = <<lhs, rhs>>]
Begin(body) == [Stmt EXCEPT !.k = "block", !.body = body]
Local(n) == [Stmt EXCEPT !.k = "decl", !.decls = <<N(n)>>]
Inst(n, def, cs) == [Item EXCEPT !.k = "inst", !.names = <<N(n)>>, !.def = def, !.conns = cs]
Named_(p, e) == [how |-> "named", n |-> N(p), e |-> e]
Ordered(e) == [how |-> "ordered", n |-> None, e |-> e]
Implicit(p) == [how |-> "implicit", n |-> N(p), e |-> NoExpr]
Open(p) == [how |-> "open", n |-> N(p), e |-> NoExpr]
Wild == [how |-> "wild", n |-> None, e |-> NoExpr]
Port(n, dir, s) == [n |-> N(n), dir |-> dir, shape |-> s, default |-> None, plain |-> TRUE, arr |-> None]
Def(name, ports, items) == [name |-> name, kind |-> "module", ports |-> ports, params |-> Empty, items |-> items,
                            views |-> {}, modports |-> Empty, types |-> Empty, pull |-> None]
DesignOf(defs, elide) == [top |-> "top", defs |-> [n \in {d.name : d \in defs} |-> CHOOSE d \in defs : d.name = n], elide |-> elide,
                         binds |-> <<>>, params |-> Empty]

-----------------------------------------------------------------------------
(* Ports: one instance, an input of some shape and an output, an actual of *)
(* some form, and a body that reads the port in every way.                 *)

Pair == [Bus(1, 0) EXCEPT !.fields = N("hi") :> <<1, 1>> @@ N("lo") :> <<0, 0>>]
Pairs_ == [Pair EXCEPT !.ew = 2]
Array(l, r) == [Shape(l, r, 2) EXCEPT !.arr = TRUE]
Slow(s) == [s EXCEPT !.delay = TRUE]
PortShapes == {Wire, Bus(1, 0), Bus(0, 1), Bus(3, 2), Shape(1, 0, 2), Pair, Slow(Bus(1, 0))}
Actuals == {I("a"), I("d"), Index(I("a"), Num(1)), Part(I("a"), Num(1), Num(0)), Part(I("a"), Num(2), Num(1)),
            Cat(<<Index(I("a"), Num(0)), I("x")>>), Num(1), And(I("a"), I("x")), I("x"), I("y"), I("s"),
            Index(I("a"), I("x")), Index(I("w"), Num(1))}
Reads(p, s) == {I(p), And(I(p), I("x")), Index(I(p), Num(s.l)), Part(I(p), Num(s.l), Num(s.r))}
               \cup (IF s = Pair THEN {H(p, "hi"), Cat(<<H(p, "lo"), I("x")>>)} ELSE {})
TopNets == <<Net("a", Bus(2, 0)), Net("d", Bus(0, 2)), Net("x", Wire), Net("y", Bus(1, 0)), Net("s", Pair),
             Net("w", Pairs_), Net("q", Bus(1, 0)), Net("t", Bus(3, 0))>>
OneInstance(s, dir, act, rd, elide) ==
    DesignOf({Def("top", <<>>, TopNets \o <<Inst("u", "m", <<Named_("p", act), Named_("o", I("q"))>>)>>),
              Def("m", <<Port("p", dir, s), Port("o", "output", Bus(1, 0))>>,
                  <<Net("x", Wire), To(I("o"), rd), Does(<<Set(I("x"), rd)>>)>>)}, elide)
PortDesigns == UNION {{OneInstance(s, "input", act, rd, elide) : act \in Actuals, rd \in Reads("p", s), elide \in BOOLEAN} :
                      s \in PortShapes}
               \cup {OneInstance(Bus(1, 0), "input", act, Index(I("p"), I("x")), FALSE) : act \in Actuals \ {Num(1)}}
               \cup {OneInstance(Bus(1, 0), "inout", act, rd, FALSE) :
                        act \in {I("y"), I("q"), Cat(<<Index(I("a"), Num(0)), I("x")>>)}, rd \in Reads("p", Bus(1, 0))}

-----------------------------------------------------------------------------
(* Connections: by name, by place, by the port's own name, all the rest,   *)
(* open with a default or a pull, and to a net nothing declares.           *)

Forms == {<<Named_("p", I("y"))>>, <<Ordered(I("y"))>>, <<Implicit("p")>>, <<Wild>>, <<Open("p")>>, <<>>,
          <<Wild, Named_("p", I("n"))>>, <<Named_("p", I("n"))>>, <<Ordered(Index(I("a"), Num(0)))>>}
FormDesigns ==
    {DesignOf({Def("top", <<>>, TopNets \o <<Net("p", Bus(1, 0)), Net("o", Wire), Inst("u", "m", form)>>),
               [Def("m", <<[Port("p", "input", Bus(1, 0)) EXCEPT !.default = default],
                           Port("o", "output", Wire)>>,
                    <<To(I("o"), Index(I("p"), Num(1))), Does(<<Set(I("o"), I("p"))>>)>>) EXCEPT !.pull = pull]}, elide) :
        form \in Forms, default \in {None, <<Num(2)>>}, pull \in {None, <<1>>}, elide \in BOOLEAN}

-----------------------------------------------------------------------------
(* Names: two instances deep, the same few names at every level, as nets,  *)
(* ports, locals, formals and bound names.                                 *)

\* The middle passes its port on under some name and has a net of its own; so has the innermost.
Levels(mid, own, leaf, rd, elide) ==
    DesignOf({Def("top", <<>>, <<Net("a", Bus(1, 0)), Net("b", Bus(1, 0)), Net("q", Bus(1, 0)),
                                 Inst("u", "mid", <<Named_(mid, I("a")), Named_("o", I("q"))>>)>>),
              Def("mid", <<Port(mid, "input", Bus(1, 0)), Port("o", "output", Bus(1, 0))>>,
                  <<Net(own, Bus(1, 0)), Inst("v", "leaf", <<Named_(leaf, rd), Named_("o", I("o"))>>)>>),
              Def("leaf", <<Port(leaf, "input", Bus(1, 0)), Port("o", "output", Bus(1, 0))>>,
                  <<Net("b", Bus(1, 0)), To(I("o"), And(I(leaf), I("b"))), Does(<<Set(I("b"), Index(I(leaf), Num(0)))>>)>>)},
             elide)
LevelDesigns == {Levels(mid, own, leaf, rd, elide) :
                    <<mid, own, leaf, rd>> \in {<<m, w, l, r>> \in {"a", "p"} \X {"a", "b"} \X {"a", "p"} \X {I("a"), I("p"), I("b"), Part(I("a"), Num(1), Num(0))} :
                                                 m # w /\ r \in {I(m), I(w), Part(I(m), Num(1), Num(0)), Part(I(w), Num(1), Num(0))}},
                    elide \in BOOLEAN}

\* What hides a name: a block's declaration, the variable of a loop, the formal of a subroutine or a property.
Eval(e) == [Stmt EXCEPT !.es = <<e>>]
Waits(e, edge, iff) == [Stmt EXCEPT !.events = <<[e |-> e, edge |-> edge, iff |-> iff]>>]
Loop(n, body) == [Stmt EXCEPT !.vars = {N(n)}, !.body = body]
Trigger(n) == [Stmt EXCEPT !.k = "trigger", !.name = N(n)]
Sub(n, formal, body) == [Item EXCEPT !.k = "sub", !.names = <<N(n)>>, !.formals = <<N(formal)>>, !.body = body]
Prop(n, formal, e) == [Item EXCEPT !.k = "prop", !.names = <<N(n)>>, !.formals = <<N(formal)>>, !.es = <<e>>]
Final(body) == [Item EXCEPT !.k = "final", !.body = body]
Call(f, e) == [k |-> "call", f |-> I(f), kids |-> <<e>>]
Around(n, e) ==
    {Does(<<Begin(<<Local(n), Set(I(n), e), Begin(<<Eval(e)>>)>>), Eval(e)>>),
     Does(<<[Begin(<<Local(n), Loop("k", <<Eval(And(e, I(n)))>>), Set(I("x"), e)>>) EXCEPT !.label = N("b")]>>),
     Does(<<Loop(n, <<Eval(e), Begin(<<Eval(And(e, I("x")))>>)>>), Eval(e)>>),
     Does(<<Begin(<<Begin(<<Local(n), Waits(e, "posedge", <<I(n)>>)>>), Waits(e, "", <<>>), Trigger("x")>>)>>),
     Sub("f", n, <<Local("k"), Set(I("k"), e), Loop("p", <<Eval(e)>>)>>),
     Sub("f", "z", <<Begin(<<Local(n), Eval(e)>>), Eval(e)>>),
     Prop("f", n, And(e, I("x"))), Final(<<Eval(e)>>),
     [Var("f", Bus(1, 0)) EXCEPT !.es = <<e>>], [Net("f", Bus(1, 0)) EXCEPT !.es = <<e>>],
     To(I("x"), Call("g", e))}
Hidden(kind, act, it, elide) ==
    DesignOf({Def("top", <<>>, <<Net("x", Bus(1, 0)), Net("y", Bus(1, 0)), Net("z", Bus(1, 0)),
                                 Inst("u", "m", <<Named_("p", act)>>)>>),
              [Def("m", <<Port("p", "input", Bus(1, 0))>>,
                   <<Net("x", Bus(1, 0)), Sub("g", "z", <<Eval(I("z"))>>), it>>) EXCEPT !.kind = kind]}, elide)
\* A local that has the name of the actual is left out: it captures it (see the README).
HideDesigns ==
    UNION {{Hidden(kind, act, it, elide) :
                it \in UNION {Around(n, e) : e \in {I("p"), I("x"), Index(I("p"), I("x"))}},
                act \in {I(w) : w \in {"x", "y"} \ {n}} \cup {Part(I("y"), Num(1), Num(0))},
                elide \in BOOLEAN, kind \in {"module", "program"}} : n \in {"p", "x", "y"}}


-----------------------------------------------------------------------------
(* Constructs that bind names of their own, and types: an iterator, the    *)
(* variables of a constraint, the clock of a property, a type parameter, a *)
(* type or class the module declares.                                      *)

Over(e, filter) == [k |-> "with", e |-> e, filter |-> filter]
Constraint(es, vs, items, solve) == [es |-> es, vars |-> vs, items |-> items, solve |-> solve]
Randomize(e, items) == [k |-> "randomize", e |-> e, items |-> items]
Event(e, edge) == [e |-> e, edge |-> edge, iff |-> <<>>]
Clocked(evs, body) == [k |-> "clocked", events |-> evs, body |-> body]
Sys(query, edge, es) == [k |-> "sys", query |-> query, edge |-> edge, kids |-> es]
TypeRef(n) == [k |-> "ref", n |-> N(n), dims |-> <<>>]
Vec(dims) == [k |-> "vec", dims |-> dims]
Typed(t, e) == [k |-> "typed", t |-> t, e |-> e]
LocalOf(n, t) == [Local(n) EXCEPT !.t = t]
Typedef(n) == [Item EXCEPT !.k = "typedef", !.names = <<N(n)>>]
Class(n, formal, body) == [Item EXCEPT !.k = "class", !.names = <<N(n)>>, !.formals = <<N(formal)>>, !.body = body]
Binding(a, b, n) ==
    {Eval(Over(Call("x", I(n)), And(I(n), I(b)))), Eval(Over(I(a), And(I("item"), I(n)))),
     Eval(And(Over(Call(a, I(n)), Over(I(b), And(I(n), I("item")))), I("x"))),
     Eval(Randomize(I(a), <<Constraint(<<I(b)>>, {N(n)}, <<Constraint(<<And(I(n), I(a))>>, {}, <<>>, <<>>)>>, <<N("x")>>)>>)),
     Eval(Clocked(<<Event(I(a), "posedge"), Event(I(b), "")>>, And(I(n), I("x")))),
     Eval(Typed(TypeRef("t"), I(a))), Eval(Typed(TypeRef("T"), I(n))), Eval(Typed(Vec(<<I("c")>>), I(b))),
     Eval(Sys(TRUE, "", <<I("T")>>)), Eval(Sys(FALSE, "", <<I(a), I(n)>>)), Eval([k |-> "type", t |-> Vec(<<I("c")>>)]),
     Begin(<<LocalOf(n, TypeRef("T")), LocalOf("k", TypeRef("C")), Set(I("k"), I(n))>>)}
BindDesigns ==
    UNION {{DesignOf({Def("top", <<>>, <<Net("x", Bus(1, 0)), Net("y", Bus(1, 0)), Typedef("t"), Class("C", "z", <<>>),
                                         Inst("u", "m", <<Named_("p", I("y"))>>)>>),
                      [Def("m", <<Port("p", "input", Bus(1, 0))>>,
                           <<Net("x", Bus(1, 0)), Typedef("t"), how>>
                           \o (IF own THEN <<Class("C", "p", <<LocalOf("k", TypeRef("C")), Eval(And(I("x"), I("p")))>>)>> ELSE <<>>))
                          EXCEPT !.types = N("T") :> Vec(<<Num(2)>>), !.params = N("c") :> 1]}, elide) :
                own \in BOOLEAN, elide \in BOOLEAN} :
           how \in UNION {{Does(<<b>>), Sub("f", "k", <<b>>), Final(<<b>>)} :
                            b \in UNION {Binding(a, d, n) : a \in {"p", "x"}, d \in {"p", "x"}, n \in {"p", "x", "i"}}}}

-----------------------------------------------------------------------------
(* Generate blocks: the same names declared in the module and in blocks,   *)
(* nested, taken or not, in loops, with instances and subroutines.         *)

If(cond, label, items, other) ==
    [Item EXCEPT !.k = "if", !.blocks = <<Block(label, <<cond>>, items), Block(label, <<>>, other)>>]
Case(e, label, items, other) ==
    [Item EXCEPT !.k = "case", !.es = <<e>>, !.blocks = <<Block(label, <<Num(1)>>, items), Block(label, <<>>, other)>>]
For(v, n, label, items) ==
    [Item EXCEPT !.k = "for", !.names = <<N(v)>>, !.es = <<Num(0), Lt(I(v), n), Plus(I(v), Num(1))>>,
                 !.blocks = <<Block(label, <<>>, items)>>]
Region(items) == [Item EXCEPT !.k = "region", !.blocks = <<Block(None, <<>>, items)>>]
Elm(n, i, m) == IdOf("", <<Seg(N(n), <<i>>), Seg(N(m), <<>>)>>)

\* What a block holds: a net x, uses of x, y and the port, and perhaps an instance or a subroutine.
Inner == {<<Net("x", Bus(1, 0)), To(I("x"), And(I("y"), I("p")))>>,
          <<Net("x", Bus(1, 0)), Does(<<Set(I("x"), I("y"))>>), Inst("v", "leaf", <<Named_("i", I("x")), Named_("o", I("y"))>>)>>,
          <<Net("x", Bus(1, 0)), Sub("f", "y", <<Eval(And(I("x"), I("y")))>>), To(I("x"), Call("f", I("p")))>>,
          <<Net("x", Bus(1, 0)), Net("y", Bus(1, 0)), To(I("y"), I("x")), To(H("v", "b"), I("y")), Inst("v", "leaf", <<Named_("i", I("y"))>>)>>}
Bare_ == {<<To(I("x"), And(I("y"), I("p")))>>, <<Inst("v", "leaf", <<Named_("i", I("x")), Named_("o", I("y"))>>)>>,
          <<Sub("f", "y", <<Eval(And(I("x"), I("y")))>>), To(I("x"), Call("f", I("p")))>>}
\* An expression that names the genvar, in a loop.
InLoop(items) == items \o <<To(Index(I("x"), I("i")), Index(I("p"), I("i"))), Does(<<Set(Index(I("y"), I("i")), I("i"))>>)>>
Gens ==
    {<<If(I("c"), N("g"), it, other)>> : it \in Inner, other \in {<<>>} \cup Bare_}
    \cup {<<Case(I("c"), N("g"), it, <<Net("x", Bus(1, 0)), To(I("x"), I("y"))>>), To(I("y"), H("g", "x"))>> : it \in Inner}
    \cup {<<If(I("c"), None, it, <<>>), Case(I("c"), None, <<>>, it)>> : it \in Bare_}
    \cup {<<For("i", Num(2), N("g"), InLoop(it)), To(I("y"), Elm("g", Num(1), "x"))>> : it \in Inner}
    \cup {<<For("i", I("c"), None, InLoop(it))>> : it \in Inner}
    \cup {<<Region(<<For("i", Num(2), N("g"), <<Net("x", Bus(1, 0)), If(I("i"), N("h"), it, <<>>), To(I("x"), I("y"))>>)>>)>> : it \in Inner}
    \cup {<<If(I("c"), N("g"), <<Net("y", Bus(1, 0)), For("i", Num(1), N("h"), InLoop(it)), To(I("y"), I("x"))>>, it)>> : it \in Inner}
GenDesigns ==
    {DesignOf({Def("top", <<>>, <<Net("x", Bus(1, 0)), Net("y", Bus(1, 0)),
                                 [Inst("u", "m", <<Named_("p", I("x"))>>) EXCEPT !.over = <<[n |-> N("c"), e |-> Num(c)]>>]>>),
               [Def("m", <<Port("p", "input", Bus(1, 0))>>, <<Net("x", Bus(1, 0)), Net("y", Bus(1, 0))>> \o gen \o <<To(I("x"), I("y"))>>)
                   EXCEPT !.params = N("c") :> 0],
               Def("leaf", <<Port("i", "input", Bus(1, 0)), Port("o", "output", Bus(1, 0))>>,
                   <<Net("b", Bus(1, 0)), Net("x", Bus(1, 0)), To(I("o"), And(I("i"), I("x")))>>)}, elide) :
        gen \in Gens, c \in 0 .. 2, elide \in BOOLEAN}

-----------------------------------------------------------------------------
(* Paths: down into an instance or a block, up to an instance around the   *)
(* text by its name or its definition's, and across.                       *)

P3(a, b, c) == IdOf("", <<Seg(N(a), <<>>), Seg(N(b), <<>>), Seg(N(c), <<>>)>>)
Down == {H("u", "x"), H("u", "p"), P3("u", "v", "x"), P3("u", "v", "i"), P3("u", "g", "x"), Index(H("u", "x"), Num(1)), H("w", "i")}
Up == {H("m", "x"), H("m", "p"), H("u", "x"), H("w", "x"), P3("m", "g", "x"), H("g", "x"),
       P3("m", "v", "i")}
PathDesigns ==
    UNION {{DesignOf({Def("top", <<>>, <<Net("x", Bus(1, 0)), Net("y", Bus(1, 0)),
                                        Inst("u", "m", <<Named_("p", I("x"))>>), Inst("w", "leaf", <<Named_("i", act)>>),
                                        To(I("y"), down), Does(<<Set(I("y"), down)>>)>>),
                      Def("m", <<Port("p", "input", Bus(1, 0))>>,
                          <<Net("x", Bus(1, 0)), Inst("v", "leaf", <<Named_("i", I("p"))>>),
                            If(Num(1), N("g"), <<Net("x", Bus(1, 0)), To(I("x"), I("p"))>>, <<>>)>>),
                      Def("leaf", <<Port("i", "input", Bus(1, 0))>>,
                          <<Net("x", Bus(1, 0)), Net("y", Bus(1, 0))>> \o use)}, elide) :
                down \in {I("x")} \cup Down, act \in {I("y"), H("u", "x")}, elide \in BOOLEAN} :
           use \in {<<To(I("x"), And(I("i"), e)), Does(<<Begin(<<Set(I("y"), And(e, I("x")))>>)>>)>> :
                        e \in {I("i"), H("leaf", "x"), H("leaf", "i")} \cup Up}
                   \cup {<<Sub("f", "k", <<Eval(And(e, I("k")))>>), Final(<<Eval(e)>>)>> : e \in Up}}


-----------------------------------------------------------------------------
(* Interfaces: passed whole, as a modport, on through an instance, as an   *)
(* element or a range of an array of interfaces.                           *)

IfPort(n) == Port(n, "iface", Wire)
IfPorts(n, l, r) == [IfPort(n) EXCEPT !.arr = <<l, r>>]
IBus == [Def("bus", <<Port("k", "input", Bus(1, 0))>>, <<Net("a", Bus(1, 0)), Net("d", Bus(3, 0)), To(I("a"), I("k"))>>)
            EXCEPT !.kind = "interface", !.views = {N("mp")},
                   !.modports = N("e") :> Part(I("d"), Num(2), Num(1)) @@ N("f") :> I("a")]
Members(i) == {H(i, "a"), H(i, "d"), H(i, "e"), H(i, "f"), Index(H(i, "d"), Num(1)), Index(H(i, "e"), Num(1)), Index(H(i, "a"), I("x")),
               Part(H(i, "d"), Num(2), Num(1)), H(i, "k")}
Uses(e) == <<Net("x", Bus(1, 0)), Net("a", Bus(1, 0)), To(I("x"), And(e, I("a"))), Does(<<Set(I("a"), e)>>), Sub("s", "z", <<Eval(e)>>)>>
IfaceDesigns ==
    {DesignOf({Def("top", <<>>, <<Net("x", Bus(1, 0)), Inst("b", "bus", <<Named_("k", I("x"))>>), Inst("c", "bus", <<>>),
                                 Inst("u", "mid", <<cn>>)>>),
               Def("mid", <<IfPort("i")>>, <<Net("x", Bus(1, 0)), Net("b", Bus(1, 0)), Inst("n", "bus", <<Named_("k", I("x"))>>),
                                             Inst("v", "leaf", <<Named_("j", e2)>>)>>),
               Def("leaf", <<IfPort("j")>>, Uses(e)), IBus}, elide) :
        cn \in {Named_("i", I("b")), Named_("i", H("c", "mp")), Ordered(I("c"))}, e2 \in {I("i"), I("n"), H("i", "mp")},
        e \in Members("j"), elide \in BOOLEAN}

Insts(n, def, l, r, cs) == [Inst(n, def, cs) EXCEPT !.dims = <<l, r>>]
\* An element, a range, and a range passed on, under labels of their own.
IfaceArrayDesigns ==
    {DesignOf({Def("top", <<>>, <<Net("x", Bus(1, 0)), Net("t", Bus(3, 0)), Insts("b", "bus", l, 3 - l, <<Named_("k", act)>>),
                                 Inst("u", "leaf", <<Named_("j", Index(I("b"), Num(at)))>>)>>),
               Def("leaf", <<IfPort("j")>>, Uses(e)), IBus}, elide) :
        l \in {0, 3}, act \in {I("x"), I("t")}, at \in 0 .. 3, e \in {H("j", "a"), Index(H("j", "d"), Num(1)), H("j", "k")}, elide \in BOOLEAN}
    \cup
    {DesignOf({Def("top", <<>>, <<Net("x", Bus(1, 0)), Insts("b", "bus", 3, 0, <<Named_("k", I("x"))>>),
                                 Inst("u", "leaf", <<Named_("j", Part(I("b"), Num(at[1]), Num(at[2])))>>)>>),
               Def("leaf", <<IfPorts("j", fl, 1 - fl)>>, Uses(e)), IBus}, FALSE) :
        at \in {<<2, 1>>, <<1, 2>>, <<1, 0>>}, fl \in {0, 1}, e \in {Elm("j", Num(0), "a"), Elm("j", Num(1), "d"), Index(Elm("j", Num(1), "d"), Num(2))}}

-----------------------------------------------------------------------------
(* Arrays of instances, unpacked arrays through ports, and what ends it.   *)

ArrayDesigns ==
    {DesignOf({Def("top", <<>>, TopNets \o <<Net("z", Bus(1, 0)), Insts("u", "m", l, 1 - l, <<Named_("p", act), Named_("o", o)>>)>>),
               Def("m", <<Port("p", "input", s), Port("o", "output", s)>>, <<Net("x", Wire), To(I("o"), And(I("p"), I("x")))>>)}, elide) :
        l \in {0, 1}, s \in {Wire, Bus(1, 0)}, elide \in BOOLEAN,
        act \in {I("y"), I("x"), I("t"), Part(I("t"), Num(2), Num(1)), Part(I("d"), Num(1), Num(2)), Cat(<<I("y"), I("z")>>), Cat(<<I("x"), Index(I("a"), Num(2))>>)},
        o \in {I("q"), Part(I("t"), Num(3), Num(2)), Cat(<<I("y"), I("z")>>), Cat(<<Index(I("t"), Num(0)), Index(I("t"), Num(3))>>)}}
    \cup
    {DesignOf({Def("top", <<>>, <<Net("a", Array(1, 0)), Net("b", Array(0, 2)), Net("q", Array(0, 1)), Inst("u", "m", <<Named_("p", act), Named_("o", o)>>)>>),
               Def("m", <<Port("p", "input", Array(l, 1 - l)), Port("o", "output", Array(l, 1 - l))>>,
                   <<To(Index(I("o"), Num(0)), Index(I("p"), Num(1))), Does(<<Set(I("o"), I("p"))>>)>>)}, FALSE) :
        l \in {0, 1}, act \in {I("a"), I("q"), Part(I("b"), Num(1), Num(2))}, o \in {I("q"), I("a")}}

\* Instances of nothing, of one name twice, of themselves, and of the clock cell.
Gate == Def("gated_clk_cell", <<Port("clk_in", "input", Wire), Port("en", "input", Wire), Port("clk_out", "output", Wire)>>,
            <<To(I("clk_out"), I("clk_in"))>>)
EndDesigns ==
    {DesignOf({Def("top", <<>>, <<Net("x", Wire), Net("y", Wire), Inst("u", "m", <<Named_("p", I("x")), Named_("o", I("y"))>>)>>),
               Def("m", <<Port("p", "input", Wire), Port("o", "output", Wire)>>, <<Net("x", Wire)>> \o its), Gate}, elide) :
        its \in {<<Inst("v", "none", <<>>)>>, <<Inst("v", "m", <<Named_("p", I("p"))>>)>>,
                 <<Inst("v", "gated_clk_cell", <<Named_("clk_in", I("p")), Named_("clk_out", I("x"))>>), To(I("o"), I("x"))>>,
                 <<Inst("v", "gated_clk_cell", <<Ordered(I("p")), Ordered(Num(1)), Ordered(I("o"))>>)>>,
                 <<Inst("v", "leaf", <<>>), Inst("v", "leaf", <<>>)>>}, elide \in BOOLEAN}

-----------------------------------------------------------------------------
(* Bind directives: of the unit, of the top, of a block, of every copy of  *)
(* a loop and of a definition, to an instance or a definition by one name, *)
(* to a path, and into instances that are bound themselves.                *)

To_(id, type, at, n, def, cs) ==
    [Item EXCEPT !.k = "bind", !.def = def, !.conns = cs, !.bind = [id |-> id, n |-> N(n), type |-> N(type), at |-> at]]
Abs(e) == IdOf("$root", e.path)
Watch == Def("watch", <<Port("c", "input", Wire), Port("r", "output", Wire)>>,
             <<Net("x", Wire), To(I("x"), I("c")), To(I("r"), And(I("c"), I("x")))>>)
Probe == Def("probe", <<Port("c", "input", Wire)>>, <<Net("x", Wire), Does(<<Set(I("x"), I("c"))>>)>>)
Mid(items) == Def("mid", <<Port("p", "input", Wire)>>, <<Net("x", Wire), Net("y", Wire), Inst("s", "leaf", <<Named_("i", I("p"))>>)>> \o items)
Top(items) == Def("top", <<>>, <<Net("x", Wire), Net("y", Wire), Net("p", Wire), Inst("u", "mid", <<Named_("p", I("x"))>>),
                                 If(Num(1), N("g"), <<Inst("s", "leaf", <<Named_("i", I("y"))>>), Inst("u", "mid", <<Named_("p", I("y"))>>)>> \o items.block,
                                    <<>>),
                                 For("i", Num(2), N("f"), <<Inst("s", "leaf", <<Named_("i", I("p"))>>)>> \o items.loop)>> \o items.plain)
NoBinds == [plain |-> <<>>, block |-> <<>>, loop |-> <<>>]
Bound_(top, mid, unit, elide) ==
    [DesignOf({Top(top), Mid(mid), Def("leaf", <<Port("i", "input", Wire)>>, <<Net("x", Wire), Net("y", Wire), To(I("x"), I("i"))>>),
               Watch, Probe}, elide) EXCEPT !.binds = unit, !.params = N("W") :> 1]
Watched == {<<Named_("c", I("x")), Named_("r", I("y"))>>, <<Ordered(I("x"))>>}
Into == {<<"mid", <<>>>>, <<"leaf", <<>>>>, <<"u", <<>>>>, <<"s", <<>>>>, <<"u", <<H("u", "s")>>>>, <<"top", <<H("top", "u")>>>>,
         <<"u", <<Abs(H("top", "u")), H("g", "s")>>>>, <<"f", <<IdOf("", <<Seg(N("f"), <<Num(1)>>), Seg(N("s"), <<>>)>>)>>>>,
         <<"no", <<H("u", "no")>>>>}
Placed_(b) == {Bound_([NoBinds EXCEPT ![k] = <<b>>], <<>>, <<>>, FALSE) : k \in DOMAIN NoBinds}
              \cup {Bound_(NoBinds, <<b>>, <<>>, FALSE), Bound_(NoBinds, <<>>, <<b>>, FALSE), Bound_(NoBinds, <<>>, <<b>>, TRUE)}
\* A directive of every copy binds to its own, one of the unit to the copy its parameter names.
Nth(x) == IdOf("", <<Seg(N("f"), <<x>>), Seg(N("s"), <<>>)>>)
Chained(to, at) == <<To_(1, "u", <<>>, "k", "watch", <<Ordered(I("x"))>>), To_(2, to, at, "k2", "probe", <<Ordered(I("x"))>>)>>
BoundDesigns ==
    UNION {Placed_(To_(1, t[1], t[2], "k", "watch", cs)) : t \in Into, cs \in Watched}
    \cup {Bound_([NoBinds EXCEPT !.loop = <<To_(1, "f", <<Nth(I("i"))>>, "k", "probe", <<Ordered(I("x"))>>)>>], <<>>, <<>>, FALSE),
          Bound_(NoBinds, <<>>, <<To_(1, "f", <<Nth(I("W"))>>, "k", "probe", <<Ordered(I("x"))>>)>>, FALSE),
          Bound_([NoBinds EXCEPT !.plain = <<To_(1, "f", <<Nth(I("x"))>>, "k", "probe", <<>>)>>], <<>>, <<>>, FALSE),
          Bound_([NoBinds EXCEPT !.plain = <<If(Num(0), N("h"), <<To_(1, "mid", <<>>, "k", "probe", <<>>)>>, <<>>)>>], <<>>, <<>>, FALSE),
          Bound_(NoBinds, <<>>, <<To_(1, "leaf", <<>>, "k", "leaf", <<>>)>>, FALSE),
          Bound_(NoBinds, <<>>, <<To_(1, "leaf", <<>>, "k", "probe", <<Ordered(I("z"))>>), To_(2, "leaf", <<>>, "k", "probe", <<Ordered(I("x"))>>)>>, FALSE)}
    \cup {Bound_(NoBinds, <<>>, <<To_(1, "leaf", <<>>, "k", "watch", <<Named_("c", e), Named_("r", I("y"))>>)>>, elide) :
             e \in {I("i"), I("z"), And(I("i"), I("x"))}, elide \in BOOLEAN}
    \cup {Bound_([NoBinds EXCEPT !.plain = Chained(t[1], t[2])], <<>>, <<>>, elide) :
             t \in {<<"watch", <<>>>>, <<"u", <<H("u", "k")>>>>, <<"k", <<>>>>}, elide \in BOOLEAN}
    \cup {Bound_(NoBinds, Chained(t[1], t[2]), <<>>, FALSE) : t \in {<<"watch", <<>>>>, <<"k", <<>>>>}}

MCDesigns == PortDesigns \cup FormDesigns \cup LevelDesigns \cup HideDesigns \cup BindDesigns \cup GenDesigns \cup PathDesigns
             \cup IfaceDesigns \cup IfaceArrayDesigns \cup ArrayDesigns \cup EndDesigns \cup BoundDesigns
=============================================================================
