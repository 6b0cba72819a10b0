----------------------------- MODULE NetMeaning ------------------------------
(***************************************************************************)
(* What an expression stands for, bit by bit: once as the text has it,     *)
(* where it is written (Mean), and once as the simulator reads the         *)
(* flattened design (Read).  The simulator is outside this repository; how *)
(* it looks a name up is taken from what elaborate.rs says of it where it  *)
(* roots a substituted name and where it leaves a port's net out.          *)
(*                                                                         *)
(* A value is a number, or bits, lowest first, with the shape the labels   *)
(* of a select refer to: elements l..r of ew bits each, the fields of a    *)
(* struct, c the value of a parameter, arr an unpacked array.              *)
(*                                                                         *)
(* A world w is a flattened design: nets (flat name -> shape), elided, the *)
(* connections conns, the subroutines subs, and, for Mean, insts (path ->  *)
(* its definition def, its parent, scope g, genvars, conns and slot there) *)
(* with text, the items of every instance, each with the blocks g it is in.*)
(***************************************************************************)
EXTENDS GenBlocks

Shape(l, r, ew) == [l |-> l, r |-> r, ew |-> ew, fields |-> Empty, c |-> None, arr |-> FALSE, delay |-> FALSE,
                   var |-> FALSE]
Constant(v) == [Shape(0, 0, 1) EXCEPT !.c = <<v>>]
Count(l, r) == IF l >= r THEN l - r + 1 ELSE r - l + 1
Size(s) == Count(s.l, s.r) * s.ew

Number(v) == [k |-> "num", v |-> v]
Bits(b, s) == [k |-> "bits", b |-> b, s |-> s]
Vector(b) == Bits(b, Shape(Len(b) - 1, 0, 1))
Lost == Vector(<<[lost |-> TRUE]>>)
NumBits(v, n) == [i \in 1 .. n |-> [c |-> (v \div 2 ^ (i - 1)) % 2]]
AsBits(v, n) == CASE v.k = "num" -> NumBits(v.v, n)
                  [] v.k = "fill" -> [i \in 1 .. n |-> [c |-> v.v]]
                  [] OTHER -> v.b
Same(v, w) == IF v.k = "num" /\ w.k = "num" THEN v = w
              ELSE AsBits(v, Len(IF w.k = "num" THEN v.b ELSE w.b)) = AsBits(w, Len(IF v.k = "num" THEN w.b ELSE v.b))

\* A value assigned to something of shape s: cut, or filled with zeros.
Padded(v, s, pad) ==
    LET b == AsBits(v, Size(s))
    IN  Bits([i \in 1 .. Size(s) |-> IF i <= Len(b) THEN b[i] ELSE pad], s)
Undriven == [z |-> TRUE]
Resized(v, s) == Padded(v, s, [c |-> 0])

Own(n, s) == Bits([i \in 1 .. Size(s) |-> [net |-> n, at |-> i]], s)
Pos(s, x) == (IF s.l >= s.r THEN x - s.r ELSE s.r - x) * s.ew
InRange(s, x) == Pos(s, x) >= 0 /\ Pos(s, x) < Size(s)
\* Elements of several bits may be structs.
ElementShape(s) == [Shape(s.ew - 1, 0, 1) EXCEPT !.fields = IF s.ew > 1 THEN s.fields ELSE @]
At(v, x) ==
    CASE v.k = "num" /\ x.k = "num" -> Vector(NumBits(v.v \div 2 ^ x.v, 1))
      [] v.k = "num" -> Vector(<<[pick |-> v.v, by |-> x.b]>>)
      [] x.k # "num" -> Vector(<<[pick |-> v.b, by |-> x.b, from |-> <<v.s.l, v.s.r, v.s.ew>>]>>)
      [] OTHER -> IF InRange(v.s, x.v)
                  THEN Bits(SubSeq(v.b, Pos(v.s, x.v) + 1, Pos(v.s, x.v) + v.s.ew), ElementShape(v.s)) ELSE Lost
Slice(v, l, r) ==
    CASE v.k = "num" -> Vector(NumBits(v.v \div 2 ^ r.v, l.v - r.v + 1))
      [] InRange(v.s, l.v) /\ InRange(v.s, r.v) /\ Pos(v.s, l.v) >= Pos(v.s, r.v) ->
           Bits(SubSeq(v.b, Pos(v.s, r.v) + 1, Pos(v.s, l.v) + v.s.ew), Shape(Count(l.v, r.v) - 1, 0, v.s.ew))
      [] OTHER -> Lost
Field(v, f) ==
    IF v.k = "bits" /\ f \in DOMAIN v.s.fields
    THEN Vector(SubSeq(v.b, v.s.fields[f][2] + 1, v.s.fields[f][1] + 1)) ELSE Lost
\* Bits that are all known are a number.
Settled(v) == IF v.k = "bits" /\ \A i \in DOMAIN v.b : DOMAIN v.b[i] = {"c"}
              THEN <<FoldRight(LAMBDA x, n : 2 * n + x.c, v.b, 0)>> ELSE IF v.k = "bits" THEN v.b ELSE <<v.v>>
Joined(vs) == Vector(FlattenSeq(Each(LAMBDA v : AsBits(v, 1), Reverse(vs))))
Applied(o, vs) == IF o = "{}" THEN Joined(vs)
                  ELSE IF o \in {"+", "-"} /\ \A i \in DOMAIN vs : vs[i].k = "num"
                  THEN Number(IF o = "+" THEN vs[1].v + vs[2].v ELSE vs[1].v - vs[2].v)
                  ELSE Vector(<<[op |-> o, of |-> Each(Settled, vs)]>>)

-----------------------------------------------------------------------------
(* What an expression is made of, each part with the names bound in it.    *)

In(es, b) == [i \in DOMAIN es |-> [e |-> es[i], b |-> b]]
Iter(n) == n :> [iter |-> n]
Constraints(it) == In(it.es, Empty)
                   \o FlattenSeq(Each(LAMBDA x : In(x.es, [n \in it.vars |-> [iter |-> n]]), it.items))
Operands(e) ==
    CASE e.k \in {"op", "other", "sys"} -> In(e.kids, Empty)
      [] e.k = "call" -> In(<<e.f>> \o e.kids, Empty)
      [] e.k = "with" -> LET n == IterArg(e.e)
                         IN  In(<<IF n = None THEN e.e ELSE e.e.f>>, Empty)
                             \o In(<<e.filter>>, IF n = None THEN Iter(<<"item">>) ELSE Iter(n))
      [] e.k = "randomize" -> In(<<e.e>>, Empty) \o FlattenSeq(Each(Constraints, e.items))
      [] e.k = "clocked" -> In(FlattenSeq(Each(LAMBDA ev : <<ev.e>> \o ev.iff, e.events)) \o <<e.body>>, Empty)
      [] e.k = "typed" -> In(<<e.t, e.e>>, Empty)
      [] e.k = "vec" -> In(e.dims, Empty)
      [] e.k = "type" -> In(<<e.t>>, Empty)
      [] OTHER -> <<>>
Operation(e) == CASE e.k = "op" -> e.o
                  [] e.k = "clocked" -> FoldLeft(LAMBDA o, ev : o \o " " \o ev.edge, e.k, e.events)
                  [] OTHER -> e.k
\* The type named n in scope p or around it: a name, or what a type parameter stands for.
TypeAt(w, p, n) ==
    LET found == SelectSeq(Each(LAMBDA q : q \o n, Outward(p)), LAMBDA x : x \in DOMAIN w.types)
    IN  IF found = <<>> THEN [k |-> "none"]
        ELSE IF w.types[found[1]] # None THEN w.types[found[1]][1] ELSE [k |-> "named", n |-> found[1]]

-----------------------------------------------------------------------------
(* A path leads through scopes to an object; what is left of it selects.   *)

Label(e) == const_eval(e)[1]
Folded(s) == FoldLeft(LAMBDA n, x : Elem(n, Label(x)), s.n, s.sels)
NameTo(path, k) == FlattenSeq([j \in 1 .. k |-> IF j < k THEN Folded(path[j]) ELSE path[j].n])
Scopes(path) == {k \in DOMAIN path : \A j \in 1 .. k - 1 : \A x \in Range(path[j].sels) : const_eval(x) # None}
Known(names, base, path) == {k \in Scopes(path) : base \o NameTo(path, k) \in names}
Written(w) == DOMAIN w.nets \cup w.subs
Flat(w) == Written(w) \ w.elided

\* The objects a conn connects element by element have a connection each.
IntoWhole(w, n) == {c \in w.conns : c.in /\ whole_net_ident_name(c.lhs) = n}
IntoElem(w, n, x) == {c \in w.conns : c.in /\ c.lhs = Index(make_ident_expr(n), Num(x))}
Labels(s) == [i \in 1 .. Count(s.l, s.r) |-> IF s.l >= s.r THEN s.r + i - 1 ELSE s.r - i + 1]

RECURSIVE Read(_, _, _, _), NetRead(_, _), Rest(_, _, _, _, _)
NetRead(w, n) ==
    LET s == w.nets[n]
        from(c) == Read(w, c.scope, Empty, c.rhs)
    IN  IF n \in w.subs THEN Vector(<<[sub |-> n]>>)
        ELSE IF s.c # None THEN Number(s.c[1])
        ELSE IF IntoWhole(w, n) # {} THEN Resized(from(CHOOSE c \in IntoWhole(w, n) : TRUE), s)
        ELSE IF \E x \in Range(Labels(s)) : IntoElem(w, n, x) # {}
        THEN Bits(FlattenSeq(Each(LAMBDA x : from(CHOOSE c \in IntoElem(w, n, x) : TRUE).b, Labels(s))), s)
        ELSE Own(n, s)
Rest(w, scope, bound, v, path) ==
    FoldLeft(LAMBDA x, s : FoldLeft(LAMBDA y, i : IF i.k = "range" THEN Slice(y, Read(w, scope, bound, i.l),
                                                                             Read(w, scope, bound, i.r))
                                                  ELSE At(y, Read(w, scope, bound, i)),
                                    IF s.n = None THEN x ELSE Field(x, s.n), s.sels),
             v, path)
\* The path of selects that follows the object found after k steps.
After(path, k) == <<Seg(None, path[k].sels)>> \o SubSeq(path, k + 1, Len(path))

\* A rooted name is absolute; another is looked up from the scope it is in outward, first all of
\* it, then its head.
Read(w, scope, bound, e) ==
    CASE e.k = "num" -> Number(e.v)
      [] e.k = "named" -> Vector(<<[type |-> e.n]>>)
      [] e.k = "fill" -> [k |-> "fill", v |-> e.v]
      [] e.k = "undriven" -> Vector([i \in 1 .. e.n |-> Undriven])
      [] e.k = "id" ->
           IF e.root = "" /\ e.path[1].n \in DOMAIN bound
           THEN Rest(w, scope, bound, Vector(<<[local |-> bound[e.path[1].n]]>>), After(e.path, 1))
           ELSE LET places == IF e.root = "$root" THEN <<None>> ELSE Outward(scope)
                    whole == SelectSeq(places, LAMBDA p : Len(e.path) \in Known(Flat(w), p, e.path))
                    found == IF whole # <<>> THEN whole ELSE SelectSeq(places, LAMBDA p : Known(Flat(w), p, e.path) # {})
                    k == Max(Known(Flat(w), found[1], e.path))
                IN  IF found = <<>> THEN Lost
                    ELSE Rest(w, scope, bound, NetRead(w, found[1] \o NameTo(e.path, k)), After(e.path, k))
      [] e.k = "index" -> At(Read(w, scope, bound, e.e), Read(w, scope, bound, e.i))
      [] e.k = "part" -> Slice(Read(w, scope, bound, e.e), Read(w, scope, bound, e.l), Read(w, scope, bound, e.r))
      [] e.k = "member" -> Field(Read(w, scope, bound, e.e), e.m)
      [] e.k = "ref" -> Read(w, scope, bound, TypeAt(w, scope, e.n))
      [] e.k = "query" -> Applied("query", <<Read(w, scope, bound, e.t)>>)
      [] OTHER -> Applied(Operation(e), Each(LAMBDA x : Read(w, scope, x.b @@ bound, x.e), Operands(e)))

-----------------------------------------------------------------------------
(* The meaning of the text: i the instance, g the generate blocks around   *)
(* it, vals the values of the genvars, bound what statements around it     *)
(* bind.                                                                   *)

Place(i, g, vals, bound) == [i |-> i, g |-> g, vals |-> vals, bound |-> bound]
PortNames(def) == {def.ports[j].n : j \in DOMAIN def.ports}
PortOf(def, p) == def.ports[CHOOSE j \in DOMAIN def.ports : def.ports[j].n = p]

\* What the text of an instance declares directly in the blocks g.
DeclaredIn(w, i, g) ==
    UNION {Range(t.item.names) : t \in {u \in Range(w.text[i]) : u.g = g}}
    \cup {<<t.g[Len(g) + 1]>> : t \in {u \in Range(w.text[i]) : IsStrictPrefix(g, u.g)}}
    \cup (IF g = None THEN PortNames(w.insts[i].def) \cup DOMAIN w.insts[i].params ELSE {})
Lexical(w, i, g, h) ==
    LET found == SelectSeq(Outward(g), LAMBDA b : h \in DeclaredIn(w, i, b) \/ (b = None /\ i \o h \in w.implicit))
    IN  IF found = <<>> THEN None ELSE <<i \o found[1] \o h>>

\* Outward through the instances: one of the module named h, or one that declares h.
RECURSIVE Upward(_, _, _, _)
Upward(w, i, g, h) ==
    IF i # None /\ <<w.insts[i].def.name>> = h THEN <<i>>
    ELSE IF i = None THEN None
    ELSE LET up == w.insts[i]
         IN  IF Lexical(w, up.parent, up.g, h) # None THEN Lexical(w, up.parent, up.g, h)
             ELSE Upward(w, up.parent, up.g, h)

\* The actual of port p of instance i and the place it is written at: an expression of the
\* parent, a default of the definition, what is pulled, or nothing.
ParentPlace(w, i) == Place(w.insts[i].parent, w.insts[i].g, w.insts[i].vals, Empty)
Missing(port, pull, at) == IF port.dir # "input" THEN None
                           ELSE IF port.default # None THEN <<port.default[1], at>>
                           ELSE IF pull # None THEN <<[k |-> "fill", v |-> pull[1]], at>> ELSE None
ActualOf(w, i, p) ==
    LET up == w.insts[i]
        j == CHOOSE x \in DOMAIN up.def.ports : up.def.ports[x].n = p
        explicit == {c \in Range(up.conns) : c.how \in {"named", "implicit", "open"} /\ c.n = p}
        named == CHOOSE c \in explicit : TRUE
        parent(e) == <<e, ParentPlace(w, i)>>
    IN  IF j \in DOMAIN up.conns /\ up.conns[j].how = "ordered" THEN parent(up.conns[j].e)
        ELSE IF explicit # {} /\ named.how = "named" THEN parent(named.e)
        ELSE IF (IF explicit = {} THEN \E c \in Range(up.conns) : c.how = "wild" ELSE named.how = "implicit")
        THEN parent(make_ident_expr(p))
        ELSE Missing(up.def.ports[j], up.def.pull, Place(i, None, Empty, Empty))

RECURSIVE Mean(_, _, _), NetMean(_, _), IfaceMean(_, _, _), RestMean(_, _, _, _)
Owner(w, n) == LET owners == {i \in DOMAIN w.insts : IsPrefix(i, n)}
               IN  CHOOSE i \in owners : \A o \in owners : Len(o) <= Len(i)

\* The interface instance port p of instance i is bound to; at, the labels it is selected with.
Strip(w, e) ==
    LET last == e.path[Len(e.path)].n
    IN  IF Len(e.path) > 1 /\ last \in w.modports THEN IdOf(e.root, Front(e.path)) ELSE e
Bound(w, up, e, at) ==
    IF e.path[1].n \in PortNames(w.insts[up.parent].def) THEN IfaceMean(w, up.parent, e.path[1].n)
    ELSE [n |-> Lexical(w, up.parent, up.g, e.path[1].n)[1], at |-> at]
IfaceActual(w, up, e) ==
    IF e.k = "part" THEN Bound(w, up, Strip(w, e.e), <<e.l.v, e.r.v>>)
    ELSE IF e.k = "index" THEN Bound(w, up, Strip(w, e.e), <<e.i.v>>)
    ELSE Bound(w, up, Strip(w, e), Each(Label, Strip(w, e).path[Len(Strip(w, e).path)].sels))
IfaceMean(w, i, p) == IfaceActual(w, w.insts[i], ActualOf(w, i, p)[1])

NetMean(w, n) ==
    LET i == Owner(w, n)
        p == SubSeq(n, Len(i) + 1, Len(n))
        port == PortOf(w.insts[i].def, p)
        s == w.nets[n]
        actual == ActualOf(w, i, p)
        v == Mean(w, actual[2], actual[1])
        slot == w.insts[i].slot
    IN  IF n \in w.subs THEN Vector(<<[sub |-> n]>>)
        ELSE IF s.c # None THEN Number(s.c[1])
        ELSE IF p \notin PortNames(w.insts[i].def) \/ port.dir = "output" \/ i = None THEN Own(n, s)
        ELSE IF actual = None THEN Own(n, s)
        ELSE IF slot # None /\ v.k = "bits" /\ Len(v.b) = Size(s) * slot[2]
        THEN Bits(SubSeq(v.b, Size(s) * slot[1] + 1, Size(s) * (slot[1] + 1)), s)
        ELSE Padded(v, s, IF port.dir = "inout" THEN Undriven ELSE [c |-> 0])

RestMean(w, at, v, path) ==
    FoldLeft(LAMBDA x, s : FoldLeft(LAMBDA y, i : IF i.k = "range" THEN Slice(y, Mean(w, at, i.l), Mean(w, at, i.r))
                                                  ELSE At(y, Mean(w, at, i)),
                                    IF s.n = None THEN x ELSE Field(x, s.n), s.sels),
             v, path)

\* An object by its path, from the first step that is found.
Found(w, at, base, path) ==
    LET steps == <<Seg(base, path[1].sels)>> \o Tail(path)
        ks == Known(Written(w), None, steps)
        inst == IF Len(path) > 1 THEN NameTo(steps, 2) ELSE None
        iface == SubSeq(inst, 1, Len(inst) - 1)
        def == w.insts[iface].def
    IN  IF inst # None /\ iface \in DOMAIN w.insts /\ <<Leaf(inst)>> \in DOMAIN def.modports
        THEN RestMean(w, at, Mean(w, Place(iface, None, Empty, Empty), def.modports[<<Leaf(inst)>>]), After(path, 2))
        ELSE IF ks = {} THEN Lost
        ELSE RestMean(w, at, NetMean(w, NameTo(steps, Max(ks))), After(steps, Max(ks)))

\* An element of an interface port that is bound to a range of an array of interfaces.
Element(port, b, sels) ==
    LET pos == CHOOSE j \in 1 .. Count(port.arr[1], port.arr[2]) : Span(port.arr[1], port.arr[2])[j] = Label(sels[1])
    IN  Elem(b.n, Span(b.at[1], b.at[2])[pos])
IfaceBase(w, port, b, sels) == IF Len(b.at) = 2 THEN Element(port, b, sels)
                              ELSE IF Len(b.at) = 1 THEN Elem(b.n, b.at[1]) ELSE b.n
ThroughIface(w, at, base, path) == Found(w, at, base, <<Seg(base, <<>>)>> \o Tail(path))

Mean(w, at, e) ==
    CASE e.k = "num" -> Number(e.v)
      [] e.k = "fill" -> [k |-> "fill", v |-> e.v]
      [] e.k = "named" -> Vector(<<[type |-> e.n]>>)
      [] e.k = "id" ->
           LET h == e.path[1].n
               fold == IF Len(e.path) > 1 /\ \A x \in Range(e.path[1].sels) : const_eval(x) # None
                       THEN Folded(e.path[1]) ELSE h
               lexical == Lexical(w, at.i, at.g, fold)
               plain == Lexical(w, at.i, at.g, h)
               up == IF Len(e.path) > 1 THEN Upward(w, at.i, at.g, h) ELSE None
               port == at.i # None /\ h \in PortNames(w.insts[at.i].def)
           IN  IF h \in DOMAIN at.bound THEN RestMean(w, at, Vector(<<[local |-> at.bound[h]]>>), After(e.path, 1))
               ELSE IF h \in DOMAIN at.vals THEN Number(at.vals[h])
               ELSE IF port /\ PortOf(w.insts[at.i].def, h).dir = "iface"
               THEN ThroughIface(w, at, IfaceBase(w, PortOf(w.insts[at.i].def, h), IfaceMean(w, at.i, h), e.path[1].sels), e.path)
               ELSE IF plain # None THEN Found(w, at, plain[1], e.path)
               ELSE IF lexical # None THEN Found(w, at, lexical[1], <<Seg(fold, <<>>)>> \o Tail(e.path))
               ELSE IF up # None THEN Found(w, at, up[1], e.path)
               ELSE Lost
      [] e.k = "index" -> At(Mean(w, at, e.e), Mean(w, at, e.i))
      [] e.k = "part" -> Slice(Mean(w, at, e.e), Mean(w, at, e.l), Mean(w, at, e.r))
      [] e.k = "member" -> Field(Mean(w, at, e.e), e.m)
      [] e.k = "ref" -> Mean(w, at, TypeAt(w, at.i, e.n))
      [] e.k = "sys" /\ e.query /\ Bare(e.kids[1]) /\ e.kids[1].path[1].n \in DOMAIN w.insts[at.i].def.types ->
           Applied("query", <<Mean(w, at, w.insts[at.i].def.types[e.kids[1].path[1].n])>>)
      [] OTHER -> Applied(Operation(e), Each(LAMBDA x : Mean(w, [at EXCEPT !.bound = x.b @@ @], x.e), Operands(e)))

-----------------------------------------------------------------------------
(* The expressions of a statement, each with the names bound around it.    *)

\* A bound name stands for the place it is bound at.
RECURSIVE Spoken(_, _, _), SpokenList(_, _, _)
With(es, bound) == [i \in DOMAIN es |-> [e |-> es[i], bound |-> bound]]
Binds(names, at) == [n \in Range(names) |-> [at |-> at, j |-> CHOOSE j \in DOMAIN names : names[j] = n]]
SpokenList(stmts, bound, at) ==
    FoldLeft(LAMBDA acc, i : [out |-> acc.out \o Spoken(stmts[i], acc.bound, Append(at, i)),
                              bound |-> Binds(stmts[i].decls, Append(at, i)) @@ acc.bound],
             [out |-> <<>>, bound |-> bound], [i \in DOMAIN stmts |-> i]).out
Spoken(s, bound, at) ==
    With(s.es \o FlattenSeq(Each(LAMBDA ev : <<ev.e>> \o ev.iff, s.events)), bound)
    \o (IF s.t = None THEN <<>> ELSE With(<<s.t>>, bound))
    \o (IF s.k = "trigger" THEN With(<<make_ident_expr(s.name)>>, bound) ELSE <<>>)
    \o (IF s.k = "block" THEN SpokenList(s.body, bound, at)
        ELSE FlattenSeq([i \in DOMAIN s.body |-> Spoken(s.body[i], [n \in s.vars |-> [at |-> at, n |-> n]] @@ bound, Append(at, i))]))

\* Of an item: its own expressions, then those of its statements, under the formals; the formals
\* of a named property are around its expressions.
SpokenItem(item) ==
    With(item.es, IF item.k = "prop" THEN Binds(item.formals, <<>>) ELSE Empty) \o SpokenList(item.body, Binds(item.formals, <<>>), <<>>)

-----------------------------------------------------------------------------
(* The text with its generate constructs opened, nothing renamed.          *)

RECURSIVE Opened(_, _, _, _, _)
OpenedItem(it, params, g, vals, ordinal) ==
    LET sc(b) == gen_scope_name(b.label, ordinal)
        ps == vals @@ params
        loop == it.blocks[1]
        copy(v) == Opened(loop.items, params, g \o Elem(sc(loop), v), (it.names[1] :> v) @@ vals, 0).out
    IN  CASE it.k = "for" -> FlattenSeq(Each(copy, GenvarValues(it, generate_for_start(it, ps), ps)))
          [] it.k \in {"if", "case"} ->
               FlattenSeq(Each(LAMBDA b : Opened(b.items, params, g \o sc(b), vals, 0).out, TakenBlock(it, ps)))
          [] OTHER -> <<[g |-> g, vals |-> vals, item |-> it]>>
Opened(items, params, g, vals, ordinal) ==
    FoldLeft(LAMBDA acc, it :
                 IF it.k = "region"
                 THEN LET inner == Opened(AllItems(it), params, g, vals, acc.ordinal)
                      IN  [out |-> acc.out \o inner.out, ordinal |-> inner.ordinal]
                 ELSE LET n == acc.ordinal + (IF IsGenerate(it) THEN 1 ELSE 0)
                      IN  [out |-> acc.out \o OpenedItem(it, params, g, vals, n), ordinal |-> n],
             [out |-> <<>>, ordinal |-> ordinal], items)
=============================================================================
