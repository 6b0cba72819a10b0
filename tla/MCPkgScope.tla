----------------------------- MODULE MCPkgScope ------------------------------
EXTENDS PkgScope

N(w) == <<w>>
At(a, b) == <<a, b>>
Op(kids) == [k |-> "op", kids |-> kids]
Num == Op(<<>>)
Id(at, n) == [k |-> "id", at |-> at, path |-> <<n>>, sel |-> <<>>]
Type(at, n) == [Ref(n) EXCEPT !.at = at]
Bits == [k |-> "vec", at |-> None, dims |-> <<Num>>]
Atom == [k |-> "atom", at |-> None, n |-> N("int")]
EnumOf(ms) == [k |-> "enum", at |-> None, parts |-> <<>>, members |-> ms, inits |-> <<>>, dims |-> <<>>]
Typedef_(at, n, t) == [k |-> "typedef", at |-> at, n |-> n, t |-> t, udims |-> <<>>, forward |-> FALSE]
Var(at, n, t, init) == [k |-> "data", net |-> FALSE, t |-> t,
                        ds |-> <<[n |-> n, at |-> at, udims |-> <<>>, init |-> init]>>]
Func(at, n, stmts) == [k |-> "func", at |-> at, dpi |-> FALSE, n |-> n, scopes |-> <<>>, ret |-> Atom,
                       ports |-> <<>>, body |-> stmts]
Class_(at, n, items) == [k |-> "class", at |-> at, n |-> n, place |-> N("at"), ext |-> <<>>, impl |-> <<>>,
                         params |-> <<>>, items |-> items]
Import(ps) == [k |-> "import", at |-> None, of |-> ps]
Wild(p) == [p |-> p, n |-> None]
Named(p, n) == [p |-> p, n |-> n]
Module(n, items) == [k |-> "module", n |-> n, params |-> <<>>, ports |-> <<>>, items |-> items]
Package_(n, items) == [k |-> "package", n |-> n, items |-> items]
Process(s) == [k |-> "process", at |-> None, n |-> None, s |-> s]
Block_(stmts) == [k |-> "block", stmts |-> stmts]
Call_(at, n) == [k |-> "call", f |-> Id(at, n), args |-> <<>>]

pa == N("pa")
pb == N("pb")
pc == N("pc")
ty == N("T")        \* a type
mem == N("M")        \* a member of an enum
va == N("v")        \* a variable
sub == N("f")        \* a subroutine
m1 == N("m1")
m2 == N("m2")

-----------------------------------------------------------------------------
(* Two packages, one that passes on what it imports, declarations and      *)
(* imports of the unit, and two modules that refer to everything.          *)

Declare_(s, n, class) ==
    CASE n = ty -> <<IF class THEN Class_(At(s, ty), ty, <<>>) ELSE Typedef_(At(s, ty), ty, Bits)>>
      [] n = mem -> <<Typedef_(None, mangle(N("E"), s), EnumOf(<<mem>>))>>
      [] n = va -> <<Var(At(s, va), va, Bits, <<>>)>>
      [] n = sub -> <<Func(None, sub, <<>>)>>

Declares(s, ns, class) == Flat(LAMBDA n : IF n \in ns THEN Declare_(s, n, class) ELSE <<>>, <<ty, mem, va, sub>>)

\* References to all four, at the places <<s, name>>.
Refs(s) == <<Var(None, mangle(N("x"), s), Type(At(s, ty), ty), <<Id(At(s, mem), mem)>>),
             Process(Op(<<Id(At(s, va), va), Call_(At(s, sub), sub)>>))>>

Inside(s) == mangle(s, N("own"))
Src(c) ==
    <<Package_(pa, Declares(pa, c.a, c.class) \o
                   <<Func(None, N("g"), <<Var(None, N("y"), Type(At(Inside(pa), ty), ty), <<>>),
                                         Op(<<Id(At(Inside(pa), va), va)>>)>>)>>),
      Package_(pb, Declares(pb, c.b, c.class)),
      Package_(pc, c.c)>>
    \o Declares(N("unit"), c.unit, c.class)
    \o c.u1
    \o <<Module(m1, c.imports \o Declares(m1, c.local, FALSE) \o Refs(m1) \o
                    <<Process(Block_(Declares(N("b1"), c.block, FALSE) \o
                                     <<Var(None, N("z"), Type(At(N("b1"), ty), ty), <<>>), Op(<<Id(At(N("b1"), va), va)>>)>>))>>)>>
    \o c.u2
    \o <<Module(m2, Refs(m2))>>

All == {ty, mem, va, sub}
Base == [a |-> All, b |-> All, c |-> <<>>, class |-> FALSE, unit |-> {}, u1 |-> <<>>, u2 |-> <<>>,
         imports |-> <<>>, local |-> {}, block |-> {}]
WildOf(p) == <<Import(<<Wild(p)>>)>>
Exporting(imp, exp) == <<Import(<<imp>>), [k |-> "export", at |-> None, of |-> <<exp>>]>>
Passed == {Exporting(Wild(pa), Wild(pa)), Exporting(Named(pa, ty), Wild(AnyPackage)),
           <<[k |-> "export", at |-> None, of |-> <<Named(pb, va)>>]>>}
Imports == {<<>>, WildOf(pa), WildOf(pa) \o WildOf(pb), <<Import(<<Named(pa, ty), Wild(pb)>>)>>,
            WildOf(pc), <<Import(<<Named(pb, sub), Named(pc, va)>>)>>, <<Import(<<Named(pc, ty)>>)>>}

Variants ==
    [a : {All}, b : {{}, {ty, sub}, All}, c : {<<>>}, class : BOOLEAN, unit : {{}, {ty}, {sub, mem}},
     u1 : {<<>>, WildOf(pa), WildOf(pb)}, u2 : {<<>>, WildOf(pb)}, imports : {<<>>, WildOf(pa)},
     local : {{}}, block : {{}}]
    \cup
    [a : {All}, b : {All}, c : Passed, class : {FALSE}, unit : {{}}, u1 : {<<>>, WildOf(pb)}, u2 : {WildOf(pc)},
     imports : Imports, local : {{}, {ty, mem}, {va, sub}}, block : {{}, {ty}, {va}}]


-----------------------------------------------------------------------------
(* The rules of package scopes, said of the text: a name is what the       *)
(* innermost scope that declares it, imports it by name or imports it by a *)
(* wildcard says; a wildcard import of the unit counts from where it is    *)
(* written, and the first reference that finds a name through it settles   *)
(* the name for the unit.                                                  *)

unit == N("unit")
b1 == N("b1")
DeclaredBy(c, p) == CASE p = pa -> c.a [] p = pb -> c.b [] OTHER -> {}
ImportsIn(items) == UNION {Range(it.of) : it \in Range(OfKind(items, {"import"}))}
ExportsIn(items) == UNION {Range(it.of) : it \in Range(OfKind(items, {"export"}))}

\* The packages whose declaration of n is to be had from p.
Provided(c, p, n) ==
    IF p # pc THEN {o \in {p} : n \in DeclaredBy(c, o)}
    ELSE {o \in {pa, pb} : /\ n \in DeclaredBy(c, o)
                           /\ \/ Named(o, n) \in ExportsIn(c.c)
                              \/ /\ {Wild(o), Named(o, n)} \cap ImportsIn(c.c) # {}
                                 /\ {Wild(o), Wild(AnyPackage), Named(AnyPackage, n)} \cap ExportsIn(c.c) # {}}

\* An import by name names something the package provides.
Legal(c) == \A i \in ImportsIn(c.imports) : i.n # None => Provided(c, i.p, i.n) # {}

PackageDesigns == {[descs |-> Src(c), about |-> c, classes |-> FALSE] : c \in {v \in Variants : Legal(v)}}

Here(c, id, own, imports, n) ==
    LET explicit == UNION {Provided(c, i.p, n) : i \in {j \in imports : j.n = n}}
    IN  IF n \in own THEN {id}
        ELSE IF explicit # {} THEN explicit
        ELSE UNION {Provided(c, i.p, n) : i \in {j \in imports : j.n = None}}

InModule(c, n) == Here(c, m1, c.local, ImportsIn(c.imports), n)
UnitFirst(c, n) == Here(c, unit, c.unit, ImportsIn(c.u1), n)
UnitThen(c, n) == IF InModule(c, n) = {} /\ Cardinality(UnitFirst(c, n)) = 1 THEN UnitFirst(c, n)
                  ELSE Here(c, unit, c.unit, ImportsIn(c.u1) \cup ImportsIn(c.u2), n)

\* The declarations that the name n means at a place: none, one, or an ambiguity.
Denoted(c, s, n) ==
    CASE s = m2 -> UnitThen(c, n)
      [] s = b1 /\ n \in c.block -> {b1}
      [] s = Inside(pa) -> {pa}
      [] OTHER -> IF InModule(c, n) # {} THEN InModule(c, n) ELSE UnitFirst(c, n)

Walked == todo = <<>> /\ ~Untouched(info) /\ ~design.classes
Packages == {pa, pb}
Carried(s, n) == IF At(s, n) \in DOMAIN out THEN out[At(s, n)] ELSE <<n>>

\* A reference is spelled with the name that the declaration it denotes by the package scope
\* rules carries, which is no other package's; or it says which package, where the declaration
\* keeps its name and another has it too.  A type that two wildcard imports provide is reported
\* and nothing else is.
Unambiguous(c, s, n) == Cardinality(Denoted(c, s, n)) <= 1

\* The spelling of a reference that denotes the declaration of n by o, or by nobody (NoOwner).
SpelledAs(s, n, o) ==
    LET c == design.about
        others == {p \in Packages \ {o} : n \in DeclaredBy(c, p)}
    IN  IF o \notin Packages THEN out[At(s, n)] = <<n>>
        ELSE \/ /\ out[At(s, n)] = Carried(o, n)
                /\ s = Inside(o) \/ \A p \in others : Carried(p, n) # Carried(o, n)
             \/ out[At(s, n)] = <<o, n>> /\ Carried(o, n) = <<n>>

RefersToDeclaration ==
    Walked =>
      /\ \A s \in {m1, m2, b1, Inside(pa)}, n \in All :
           (At(s, n) \in DOMAIN out /\ Unambiguous(design.about, s, n)) =>
              LET d == Denoted(design.about, s, n)
              IN  SpelledAs(s, n, IF d = {} THEN None ELSE CHOOSE x \in d : TRUE)
      /\ errors = {n \in {ty} : \E s \in {m1, m2, b1} : ~Unambiguous(design.about, s, n)}

-----------------------------------------------------------------------------
(* Classes: of the unit, of a package, of a module and of a generate block *)
(* of it; one nested in another; a base, a method defined out of its block *)
(* and typedefs that depend on a type parameter.                           *)

ca == N("A")
cb == N("B")
cn == N("Nested")
ck == N("K")
ch == N("H")
cc == N("C")
cp == N("P")
cq == N("Q")
m3 == N("m3")
g1 == N("g1")

Extending(cls, base, args) ==
    [cls EXCEPT !.ext = <<[at |-> None, scopes |-> <<>>, n |-> base, args |-> args]>>]
ClassScope(c, args) == [n |-> c, args |-> args]
OwnType(c, s) == IF s \in c.decl THEN <<Typedef_(At(s, ty), ty, Bits)>> ELSE <<>>
Method(s) == Func(None, N("go"), <<Var(None, N("l"), Type(At(Inside(s), ty), ty), <<>>)>>)
Generate_(conds, var, items) == [k |-> "generate", conds |-> conds, var |-> var, items |-> items]
KeywordArg == Id(None, N("byte"))
Parameter(p) == [k |-> "param", params |-> <<p>>]
TypeArg(t) == [k |-> "named", n |-> N("X"), e |-> [k |-> "type", t |-> t]]

\* class P #(type X, int W) with typedefs of X; class Q gives it an argument.
Generic == [Class_(None, cp, <<Typedef_(None, N("pt"), Type(None, N("X"))),
                              [Typedef_(None, N("ua"), Type(None, N("pt"))) EXCEPT !.udims = <<Num>>],
                              Var(None, N("i"), Type(At(cp, N("pt")), N("pt")), <<>>)>>)
              EXCEPT !.params = <<Parameter([k |-> "type", n |-> N("X"), init |-> <<Atom>>]),
                                  Parameter([k |-> "value", n |-> N("W"), init |-> <<Num>>])>>]

Src2(c) ==
    <<Package_(pa, OwnType(c, pa) \o
                   <<Class_(None, ck, OwnType(c, ck) \o <<Method(ck)>>),
                     Var(At(pa, va), va, Bits, <<>>),
                     Typedef_(None, N("pe"), EnumOf(<<mem>>)),
                     [k |-> "covergroup", at |-> At(pa, N("cg")), n |-> N("cg"), ports |-> <<>>, kids |-> <<>>],
                     [k |-> "let", at |-> None, n |-> sub, e |-> Num]>>),
      Package_(pb, <<Var(At(pb, va), va, Bits, <<>>),
                     [k |-> "covergroup", at |-> At(pb, N("cg")), n |-> N("cg"), ports |-> <<>>, kids |-> <<>>],
                     Func(None, sub, <<>>)>>)>>
    \o OwnType(c, unit)
    \o <<Class_(None, ca, OwnType(c, ca) \o <<Class_(None, cn, <<Method(cn)>>), Method(ca)>>),
         Extending(Class_(None, cb, OwnType(c, cb) \o <<Method(cb)>>), ca, <<>>),
         [Method(N("om")) EXCEPT !.scopes = <<ClassScope(ca, <<>>)>>],
         Generic,
         Extending(Class_(None, cq, <<Var(At(cq, N("u")), N("j"), Type(At(cq, N("pt")), N("pt")), <<>>),
                                     Var(None, N("k"), Type(At(cq, N("ua")), N("ua")), <<>>)>>), cp, <<KeywordArg>>),
         Class_(At(unit, cc), cc, <<>>)>>
    \o <<Module(m1, (IF c.wild THEN WildOf(pa) ELSE <<>>) \o
                    <<(IF c.derived THEN Extending(Class_(None, ch, <<Method(ch)>>), ca, <<>>)
                       ELSE Class_(None, ch, <<Method(ch)>>)),
                      Var(None, N("s"), [Type(At(Inside(N("scoped")), ty), ty) EXCEPT !.scopes = <<ClassScope(ca, <<>>)>>], <<>>),
                      Var(None, N("p"), [Type(At(m1, N("pt")), N("pt")) EXCEPT
                                           !.scopes = <<ClassScope(cp, <<TypeArg(Bits)>>)>>], <<>>)>>
                    \o (IF c.inner THEN <<Class_(At(m1, cc), cc, <<>>)>> ELSE <<>>) \o
                    <<Var(None, N("h"), Type(At(N("in m1"), cc), cc), <<>>),
                      Generate_(<<Num>>, None, (IF c.nested THEN <<[Class_(At(g1, cc), cc, <<>>) EXCEPT !.place = N("g1")]>>
                                                ELSE <<>>) \o
                                               <<Var(None, N("h"), Type(At(N("in g1"), cc), cc), <<>>)>>),
                      Process([k |-> "spec", at |-> At(N("spec"), cc), words |-> <<cc>>, e |-> Num])>>),
         Module(m3, <<Var(None, N("h"), Type(At(N("in m3"), cc), cc), <<>>)>> \o c.more)>>

\* The remaining forms: members of packages, key types, loops, instances, checkers, lets.
Forms ==
    <<Import(<<Named(pa, sub)>>),
      Generate_(<<>>, None, <<[k |-> "genvar", at |-> None, n |-> N("gv")]>>),
      Generate_(<<Num>>, N("gi"), <<Parameter([k |-> "value", n |-> N("L"), init |-> <<Num>>])>>),
      [k |-> "instance", at |-> None, n |-> N("u1"), params |-> <<Num>>, conns |-> <<Num>>],
      [k |-> "checker", at |-> None, n |-> N("chk"), items |-> <<>>],
      [k |-> "covergroup", at |-> None, n |-> N("cv"), ports |-> <<>>, kids |-> <<Num>>],
      [k |-> "typename", at |-> None, n |-> cc, kids |-> <<>>],
      [Var(None, N("as"), Bits, <<>>) EXCEPT !.ds[1].udims = <<[k |-> "assoc", t |-> Type(At(N("key"), cc), cc)],
                                                               [k |-> "assoc", t |-> Type(At(N("size"), sub), sub)]>>],
      Var(None, N("st"), [k |-> "struct", at |-> None, packed |-> TRUE, parts |-> <<Bits>>, dims |-> <<>>], <<>>),
      Var(None, N("vi"), [k |-> "interface", at |-> None, args |-> <<Num>>], <<>>),
      Process(Op(<<[k |-> "member", at |-> At(N("dot"), va), e |-> Id(None, pb), n |-> va],
                   [k |-> "for", vars |-> {va}, init |-> <<Num>>, body |-> <<Op(<<Id(At(N("loop"), va), va)>>)>>],
                   [k |-> "stmt", kids |-> <<Num>>],
                   [k |-> "constraint", foreach |-> {}, kids |-> <<Num>>],
                   [k |-> "constraint", foreach |-> {va}, kids |-> <<Num, Op(<<Id(At(N("each"), va), va)>>)>>],
                   [k |-> "foreach", e |-> Id(At(N("over"), va), va), vars |-> {cc}, body |-> <<Num>>]>>))>>

ClassVariants == [decl : SUBSET {pa, unit, ca, cb, ck}, wild : BOOLEAN, derived : BOOLEAN, inner : BOOLEAN,
                  nested : BOOLEAN, more : {<<>>}]
                 \cup [decl : {{ca, cb}}, wild : {TRUE}, derived : {TRUE}, inner : BOOLEAN, nested : {TRUE}, more : {Forms}]
ClassDesigns == {[descs |-> Src2(c), about |-> c, classes |-> TRUE] : c \in ClassVariants}

MCDesigns == PackageDesigns \cup ClassDesigns

\* Where the type name means, seen from a class: the class, its base, then the scopes around it.
FirstOf(c, scopes) == IF \E i \in DOMAIN scopes : scopes[i] \in c.decl
                      THEN scopes[Min({i \in DOMAIN scopes : scopes[i] \in c.decl})] ELSE None
TypeSeen(c, s) ==
    FirstOf(c, CASE s \in {ca, cn, N("om")} -> <<ca, unit>>
                 [] s = cb -> <<cb, ca, unit>>
                 [] s = ck -> <<ck, pa>>
                 [] s = N("scoped") -> <<ca>>
                 [] s = ch -> (IF c.derived THEN <<ca>> ELSE <<>>) \o (IF c.wild THEN <<pa>> ELSE <<>>) \o <<unit>>)
ClassSeen(c, s) == CASE s = N("in m1") -> IF c.inner THEN m1 ELSE unit
                     [] s = N("in g1") -> IF c.nested THEN g1 ELSE IF c.inner THEN m1 ELSE unit
                     [] s = N("in m3") -> unit

\* The type a class names is the one it declares, else its base's, else that of the scope around
\* it, and is spelled with the name that declaration carries; no two declarations of it carry the
\* same name.  A class of a module hides that of the unit there and nowhere else.  A typedef of a
\* type parameter is the argument that the `extends` clause or the scope gives.
ClassTypesFollow ==
    (todo = <<>> /\ ~Untouched(info) /\ design.classes) =>
      LET c == design.about
          means(s, n, d) == \/ d = None
                            \/ out[At(s, n)] = Carried(d, n)
                            \/ out[At(s, n)] = <<d, n>> /\ Carried(d, n) = <<n>>
          apart(ds, n) == \A d, e \in ds : d # e => Carried(d, n) # Carried(e, n)
      IN  /\ \A s \in {ca, cn, N("om"), cb, ck, ch, N("scoped")} : means(Inside(s), ty, TypeSeen(c, s))
          /\ \A s \in {N("in m1"), N("in g1"), N("in m3")} : means(s, cc, ClassSeen(c, s))
          /\ apart(c.decl, ty)
          /\ apart({unit} \cup (IF c.inner THEN {m1} ELSE {}) \cup (IF c.nested THEN {g1} ELSE {}), cc)
          /\ out[At(cp, N("pt"))] = <<N("X")>>
          /\ out[At(cq, N("pt"))] = <<N("byte")>> /\ out[At(cq, N("ua"))] = <<N("byte")>>
          /\ out[At(m1, N("pt"))] = <<N("vec")>>
          /\ errors = {}
==============================================================================
