------------------------------- MODULE PkgScope ------------------------------
(***************************************************************************)
(* The rewriting of src/pkg_scope.rs (struct Rw): a walk over the design   *)
(* with a stack of lexical scopes that renames the declarations whose name *)
(* is declared more than once and respells every reference to them.        *)
(*                                                                         *)
(* The walk is an agenda: todo holds the nodes still to be visited, the    *)
(* next one first, and a step visits one node, putting its parts in front. *)
(* Four kinds of entries are not nodes: "push" and "pop" of a scope,       *)
(* "const" (entering and leaving a constant context) and "inlined"         *)
(* (entering and leaving a type that replaced a typedef).                  *)
(***************************************************************************)
EXTENDS PkgNames

CONSTANT Designs      \* the designs to walk: descs, a sequence of descriptions, and what it is about

VARIABLES design, info,
          todo,
          frames,       \* the scopes, the innermost last
          in_const, inline_depth,
          out,          \* site -> what the name there is spelled now: a path of names
          errors        \* the names reported as ambiguous

vars == <<design, info, todo, frames, in_const, inline_depth, out, errors>>

Frame == [pkg |-> None, module |-> None, module_classes |-> Empty, types |-> {}, values |-> {},
          explicit |-> Empty, wild |-> <<>>, bound |-> Empty, inherits |-> FALSE,
          cls |-> None, bases |-> <<>>]

add_imports(f, items) ==
    LET all == Flat(LAMBDA it : it.of, OfKind(items, {"import"}))
    IN  [f EXCEPT !.explicit = FoldLeft(LAMBDA e, ii : IF ii.n = None THEN e ELSE (ii.n :> ii.p) @@ e, @, all),
                  !.wild = @ \o Flat(LAMBDA ii : IF ii.n = None THEN <<ii.p>> ELSE <<>>, all)]

unit_frame(descs) ==
    [Frame EXCEPT !.types = {d.n : d \in Range(OfKind(descs, {"typedef", "class"}))},
                  !.values = Union(LAMBDA d : IF d.k = "typedef" THEN enum_members(d.t)
                                              ELSE package_item_values(d), descs)]

\* Declarations that belong to one procedural scope; nested blocks have scopes of their own.
stmt_locals(f, stmts) ==
    [f EXCEPT !.values = @ \cup Union(LAMBDA s : CASE s.k = "data" -> Declared(s) \cup enum_members(s.t)
                                                   [] s.k = "typedef" -> enum_members(s.t)
                                                   [] OTHER -> {}, stmts),
              !.types = @ \cup {s.n : s \in Range(OfKind(stmts, {"typedef"}))}]

RECURSIVE module_item_names(_, _)
module_item_names(f, items) ==
    LET add(g, it) ==
          CASE it.k = "data" -> [g EXCEPT !.values = @ \cup Declared(it) \cup enum_members(it.t)]
            [] it.k = "param" -> [g EXCEPT !.types = @ \cup param_types(it), !.values = @ \cup param_names(it)]
            [] it.k = "typedef" -> [g EXCEPT !.types = @ \cup {it.n}, !.values = @ \cup enum_members(it.t)]
            [] it.k = "class" -> [g EXCEPT !.types = @ \cup {it.n}]
            [] it.k \in {"func", "let", "instance", "genvar"} -> [g EXCEPT !.values = @ \cup {it.n}]
            [] it.k = "import" -> add_imports(g, <<it>>)
            [] it.k = "generate" /\ it.conds = <<>> /\ it.var = None -> module_item_names(g, it.items)
            [] OTHER -> g
    IN  FoldLeft(add, f, items)

class_item_names(f, items) ==
    LET add(g, it) ==
          CASE it.k = "data" -> [g EXCEPT !.values = @ \cup Declared(it) \cup enum_members(it.t)]
            [] it.k = "func" -> [g EXCEPT !.values = @ \cup {it.n}]
            [] it.k = "typedef" -> [g EXCEPT !.types = @ \cup {it.n}, !.values = @ \cup enum_members(it.t)]
            [] it.k = "param" -> [g EXCEPT !.types = @ \cup param_types(it), !.values = @ \cup param_names(it)]
            [] it.k = "class" -> [g EXCEPT !.types = @ \cup {it.n}]
            [] it.k = "import" -> add_imports(g, <<it>>)
            [] OTHER -> g
    IN  FoldLeft(add, f, items)

-----------------------------------------------------------------------------
(* Looking a name up: the innermost scope that knows it decides.           *)

owner(q, n) == owner_in(info, q, n, 0, "types")
member_owner(q, n) == owner_in(info, q, n, 0, "members")
value_owner(q, n) == owner_in(info, q, n, 0, "values")

value_shadowed(n) == \E i \in DOMAIN frames : n \in frames[i].values
is_package(q) == q \in DOMAIN info.pkgs /\ ~value_shadowed(q)

\* What the wildcard imports of a scope provide under n.
Candidates(f, n, decls) == {owner_in(info, f.wild[i], n, 0, decls) : i \in DOMAIN f.wild} \ {None}

\* The package n is visible from by an explicit import, or by a wildcard import an earlier
\* reference went through.
Imported(f, n) == IF n \in DOMAIN f.explicit THEN f.explicit[n]
                  ELSE IF n \in DOMAIN f.bound THEN f.bound[n] ELSE None

Own(f, n, decls) == f.pkg # None /\ n \in info.pkgs[f.pkg][decls]

ClassChain(f) == IF f.cls = None THEN <<>> ELSE <<f.cls>> \o f.bases
DeclaringItself(f, n) == SelectSeq(ClassChain(f), LAMBDA c : /\ c = f.cls /\ c \in DOMAIN info.classes
                                                             /\ n \in info.classes[c].types)
Declaring(f, n) == SelectSeq(ClassChain(f), LAMBDA c : c \in DOMAIN info.classes /\ n \in info.classes[c].types)

DecidesType(f, n) ==
    \/ n \in DOMAIN f.module_classes
    \/ Declaring(f, n) # <<>>
    \/ n \in f.types
    \/ n \in info.colliding /\ (Own(f, n, "types") \/ Imported(f, n) # None \/ Candidates(f, n, "types") # {})

DecidesValue(f, n, decls) ==
    \/ Own(f, n, decls) \/ n \in f.values \/ (decls = "values" /\ f.inherits)
    \/ Imported(f, n) # None \/ Candidates(f, n, decls) # {}

Innermost(Decides(_)) == Max({0} \cup {i \in DOMAIN frames : Decides(frames[i])})
TypeScope(n) == Innermost(LAMBDA f : DecidesType(f, n))
ValueScope(n, decls) == Innermost(LAMBDA f : DecidesValue(f, n, decls))
Only(found) == IF Cardinality(found) = 1 THEN CHOOSE p \in found : TRUE ELSE None

Keep == [to |-> "keep"]
To(n) == [to |-> "name", n |-> n]

\* What a type name becomes, seen from the scope that decides it.
Owned(p, n) == IF p = None THEN Keep ELSE To(mangle(p, n))
InScope(f, n) ==
    CASE n \in DOMAIN f.module_classes -> To(f.module_classes[n])
      [] n \notin DOMAIN f.module_classes /\ Declaring(f, n) # <<>> ->
           IF n \in info.class_colliding THEN To(mangle(Head(Declaring(f, n)), n)) ELSE Keep
      [] OTHER ->
           IF n \notin info.colliding THEN Keep
           ELSE IF Own(f, n, "types") THEN To(mangle(f.pkg, n))
           ELSE IF n \in f.types THEN Keep
           ELSE IF Imported(f, n) # None THEN Owned(owner(Imported(f, n), n), n)
           ELSE IF Cardinality(Candidates(f, n, "types")) = 1 THEN Owned(Only(Candidates(f, n, "types")), n)
           ELSE [to |-> "ambiguous"]
Seen(i, n) == IF i = 0 THEN Keep ELSE InScope(frames[i], n)
resolve(n) == IF n \notin info.colliding \cup info.class_colliding \cup info.hiding THEN Keep
              ELSE Seen(TypeScope(n), n)

\* The package of an enum member, None when the bare name is left.
MemberFrom(f, n) ==
    IF Own(f, n, "members") THEN f.pkg
    ELSE IF n \in f.values THEN None
    ELSE IF Imported(f, n) # None THEN member_owner(Imported(f, n), n)
    ELSE Only(Candidates(f, n, "members"))
MemberSeen(i, n) == IF i = 0 THEN None ELSE MemberFrom(frames[i], n)
resolve_member(n) == IF n \notin info.colliding_members THEN None ELSE MemberSeen(ValueScope(n, "members"), n)

\* The package of a subroutine, parameter or variable; inside its package a name stays.
ValueFrom(f, n) ==
    IF n \in f.values \/ f.inherits THEN None
    ELSE IF Imported(f, n) # None THEN value_owner(Imported(f, n), n)
    ELSE Only(Candidates(f, n, "values"))
ValueSeen(i, n) == IF i = 0 \/ Own(frames[i], n, "values") THEN None ELSE ValueFrom(frames[i], n)
resolve_value(n) == IF n \notin info.colliding_values THEN None ELSE ValueSeen(ValueScope(n, "values"), n)

\* The storage of a package variable that is renamed.
Storage(p, n) == IF p # None /\ n \in info.pkgs[p].vars THEN mangle(p, n) ELSE None
StorageSeen(i, n) == IF i = 0 THEN None
                     ELSE Storage(IF Own(frames[i], n, "values") THEN frames[i].pkg ELSE ValueFrom(frames[i], n), n)
mangled_var(n) == IF n \in info.mangled_vars THEN StorageSeen(ValueScope(n, "values"), n) ELSE None

mangled_qualified(q, n) ==
    IF n \in info.mangled_vars /\ is_package(q) THEN Storage(value_owner(q, n), n) ELSE None

\* A reference that found n through exactly one of the wildcard imports makes it visible there.
BindIn(f, n, decls) ==
    LET by_wild == CASE decls = "types" -> /\ n \notin DOMAIN f.module_classes /\ Declaring(f, n) = <<>>
                                           /\ n \in info.colliding /\ n \notin f.types
                     [] decls = "members" -> n \in info.colliding_members /\ n \notin f.values
                     [] decls = "values" -> n \in info.colliding_values /\ n \notin f.values /\ ~f.inherits
    IN  IF /\ by_wild /\ ~Own(f, n, decls) /\ Imported(f, n) = None
           /\ Cardinality(Candidates(f, n, decls)) = 1
        THEN [f EXCEPT !.bound = (n :> Head(SelectSeq(f.wild, LAMBDA q : owner_in(info, q, n, 0, decls) # None))) @@ @]
        ELSE f
NotBound(i, n, decls) == frames
BindAt(i, n, decls) == IF i = 0 THEN frames ELSE [frames EXCEPT ![i] = BindIn(@, n, decls)]
bind_wild(n, decls) == BindAt(IF decls = "types" THEN TypeScope(n) ELSE ValueScope(n, decls), n, decls)

\* The name that class n, as written here, carries after the pass.
NamedClass(n, r) ==
    IF r.to = "name" /\ r.n \in DOMAIN info.classes THEN r.n
    ELSE IF n \in DOMAIN info.classes THEN n
    ELSE IF n \in DOMAIN info.class_by_bare /\ Len(info.class_by_bare[n]) = 1 THEN info.class_by_bare[n][1]
    ELSE None
class_named(n) == NamedClass(n, resolve(n))

\* `C`, `Outer::Inner`, `pkg::C`: the class such a path names, None when it names none.
class_path(segs) ==
    LET qualified == segs[1] \in DOMAIN info.pkgs
        rest == SubSeq(segs, IF qualified THEN 3 ELSE 2, Len(segs))
        first == CASE ~qualified -> class_named(segs[1])
                   [] qualified /\ Len(segs) > 1 ->
                        IF mangle(segs[1], segs[2]) \in DOMAIN info.classes THEN mangle(segs[1], segs[2])
                        ELSE IF segs[2] \in DOMAIN info.classes THEN segs[2] ELSE None
                   [] OTHER -> None
        into(c, s) == LET m == IF s \in info.class_colliding THEN mangle(c, s) ELSE s
                      IN  IF c # None /\ s \in info.classes[c].types /\ m \in DOMAIN info.classes THEN m ELSE None
    IN  IF value_shadowed(segs[1]) THEN None ELSE FoldLeft(into, first, rest)

TypeOfClass(c, n) == IF c # None /\ n \in info.classes[c].types THEN mangle(c, n) ELSE None
class_scoped_type(segs, n) == IF n \notin info.class_colliding THEN None ELSE TypeOfClass(class_path(segs), n)

MaxBases == 64
RECURSIVE BasesFrom(_, _)
BasesFrom(b, seen) ==
    IF b = None \/ b \in Range(seen) \/ Len(seen) > MaxBases THEN seen
    ELSE BasesFrom(IF b \in DOMAIN info.classes /\ info.classes[b].base # None
                   THEN class_named(info.classes[b].base) ELSE None, Append(seen, b))
class_bases(c) == IF info.classes[c].base = None THEN <<>>
                  ELSE BasesFrom(class_named(info.classes[c].base), <<>>)

-----------------------------------------------------------------------------
(* Typedefs of a class that depend on its type parameters are replaced by  *)
(* the type they stand for where they are named.                           *)

Missing == [found |-> FALSE]
Found(t, udims) == [found |-> TRUE, t |-> t, udims |-> udims]

RECURSIVE class_chain_type(_, _, _)
class_chain_type(c, n, maps) ==
    LET ci == info.classes[c]
        sub(r, m) == [r EXCEPT !.t = IF @.k = "none" THEN @ ELSE subst_type(@, m.t, m.v),
                               !.udims = subst_udims(@, m.v)]
        base == IF ci.base = None THEN None ELSE class_named(ci.base)
    IN  IF c \notin DOMAIN info.classes \/ Len(maps) = MaxBases THEN Missing
        ELSE IF n \in DOMAIN ci.inline
        THEN FoldRight(LAMBDA m, r : sub(r, m), maps, Found(ci.inline[n].t, ci.inline[n].udims))
        ELSE IF n \in ci.typedefs \cup ci.types \/ \E i \in DOMAIN ci.params : ci.params[i].n = n
        THEN Found(NoType, <<>>)
        ELSE IF base = None \/ base \notin DOMAIN info.classes THEN Missing
        ELSE class_chain_type(base, n, Append(maps, bind_params(info.classes[base].params, ci.ext_args)))

MaxInlineDepth == 8
inline_lookup(n) ==
    LET of(f) == IF f.cls = None THEN Missing ELSE class_chain_type(f.cls, n, <<>>)
        at(i) == IF i = 0 \/ frames[i].cls = None THEN Found(NoType, <<>>) ELSE of(frames[i])
    IN  IF inline_depth > MaxInlineDepth THEN Found(NoType, <<>>)
        ELSE at(Innermost(LAMBDA f : IF f.cls = None THEN n \in f.types ELSE of(f).found))

Packed(r) == IF r.udims = <<>> THEN r.t ELSE NoType
inline_type(n) == Packed(inline_lookup(n))
Unpacked(r) == IF r.udims = <<>> THEN Found(NoType, <<>>) ELSE r
inline_unpacked(n) == Unpacked(inline_lookup(n))

\* The replacement for a type reference: a bare name, or `C#(args)::n`.
Bound(t, m) == subst_type(t, m.t, m.v)
InlineOf(c, t, args) ==
    IF c = None \/ c \notin DOMAIN info.classes THEN NoType
    ELSE IF t.n \notin DOMAIN info.classes[c].inline \/ info.classes[c].inline[t.n].udims # <<>> THEN NoType
    ELSE merge_packed(Bound(info.classes[c].inline[t.n].t, bind_params(info.classes[c].params, args)), t.dims)
inline_ref(t) ==
    IF t.k # "ref" \/ t.args # <<>> THEN NoType
    ELSE IF t.scopes = <<>> THEN merge_packed(inline_type(t.n), t.dims)
    ELSE IF Len(t.scopes) # 1 \/ t.scopes[1].args = <<>> THEN NoType
    ELSE InlineOf(class_named(t.scopes[1].n), t, t.scopes[1].args)

-----------------------------------------------------------------------------
(* The parts of a node, in the order the walk takes them.                  *)

Push(f) == [k |-> "push", f |-> f]
Pop == [k |-> "pop"]
Scoped(f, nodes) == <<Push(f)>> \o nodes \o <<Pop>>
Const(nodes) == IF nodes = <<>> THEN <<>> ELSE <<[k |-> "const", by |-> 1]>> \o nodes \o <<[k |-> "const", by |-> 0]>>
Inlined(nodes) == <<[k |-> "inlined", by |-> 1]>> \o nodes \o <<[k |-> "inlined", by |-> 0]>>

dtype(t) == Const(<<t>>)
unpacked(dims) == Const(dims)
declarators(ds) == Flat(LAMBDA d : unpacked(d.udims) \o d.init \o
                                   (IF d.at = None THEN <<>> ELSE <<[k |-> "declare", d |-> d]>>), ds)
param_decl(pd) == Const(Flat(LAMBDA p : IF p.k = "type" THEN Flat(dtype, p.init) ELSE p.init, pd.params))
ports(ps) == Flat(LAMBDA p : dtype(p.t) \o p.init, ps)

body(stmts) == Scoped(stmt_locals(Frame, stmts), stmts)

subroutine_body(f) ==
    ports(f.ports)
      \o Scoped(stmt_locals([Frame EXCEPT !.inherits = f.scopes # <<>>,
                                          !.values = {f.ports[i].n : i \in DOMAIN f.ports}], f.body), f.body)

Now == Head(todo)
Visit(kinds) == todo # <<>> /\ Head(todo).k \in kinds
Then(nodes) == todo' = nodes \o Tail(todo)
Record(at, path) == out' = IF at = None THEN out ELSE (at :> path) @@ out

-----------------------------------------------------------------------------
Init ==
    /\ design \in Designs
    /\ info = collect(design.descs)
    /\ todo = IF Untouched(info) THEN <<>> ELSE design.descs
    /\ frames = <<unit_frame(design.descs)>>
    /\ in_const = 0 /\ inline_depth = 0
    /\ out = Empty /\ errors = {}

PushFrame ==
    /\ Visit({"push"})
    /\ frames' = Append(frames, Now.f)
    /\ Then(<<>>)
    /\ UNCHANGED <<design, info, in_const, inline_depth, out, errors>>

PopFrame ==
    /\ Visit({"pop"})
    /\ frames' = IF "restore" \in DOMAIN Now THEN Now.restore ELSE Front(frames)
    /\ Then(<<>>)
    /\ UNCHANGED <<design, info, in_const, inline_depth, out, errors>>

EnterLeave ==
    /\ Visit({"const", "inlined"})
    /\ LET by(n) == IF Now.by = 1 THEN n + 1 ELSE n - 1
       IN  IF Now.k = "const" THEN in_const' = by(in_const) /\ UNCHANGED inline_depth
           ELSE inline_depth' = by(inline_depth) /\ UNCHANGED in_const
    /\ Then(<<>>)
    /\ UNCHANGED <<design, info, frames, out, errors>>

Spelled(r, n) == IF r.to = "name" THEN r.n ELSE n
Report(r, n) == errors' = IF r.to = "ambiguous" THEN errors \cup {n} ELSE errors

\* A type name n that resolves to r, first of the path that goes on with more.
TypeHead(at, r, n, more) ==
    /\ Record(at, <<Spelled(r, n)>> \o more)
    /\ frames' = bind_wild(n, "types")
    /\ Report(r, n)

\* A bare type name in a type position.
type_ident(at, n) == TypeHead(at, resolve(n), n, <<>>)

\* A type name: bare, scoped by classes, scoped by a package, or of a class that collides.
Qualified(at, segs, o, n) ==
    Record(at, IF o = None THEN Append(segs, n)
               ELSE IF Len(segs) > 1 THEN <<mangle(o, segs[2])>> \o SubSeq(segs, 3, Len(segs)) \o <<n>>
               ELSE <<mangle(o, n)>>)
ScopedName(at, segs, c, n) ==
    IF c # None THEN Record(at, <<c>>) /\ frames' = bind_wild(segs[1], "types") /\ UNCHANGED errors
    ELSE IF is_package(segs[1])
    THEN /\ LET next == IF Len(segs) > 1 THEN segs[2] ELSE n
            IN  Qualified(at, segs, IF next \in info.colliding THEN owner(segs[1], next) ELSE None, n)
         /\ UNCHANGED <<frames, errors>>
    ELSE TypeHead(at, resolve(segs[1]), segs[1], Append(Tail(segs), n))
Names(scopes) == [i \in DOMAIN scopes |-> scopes[i].n]
type_name(at, scopes, n) ==
    IF scopes = <<>> THEN type_ident(at, n)
    ELSE ScopedName(at, Names(scopes), IF \A i \in DOMAIN scopes : scopes[i].args = <<>>
                                       THEN class_scoped_type(Names(scopes), n) ELSE None, n)

Shape(t) == IF t.k \in {"ref", "atom"} THEN t.n ELSE <<t.k>>

\* A data type: replaced by the type it stands for, or its parts.
Replaced(t, rep) ==
    /\ Then(Inlined(<<[rep EXCEPT !.at = t.at]>>))
    /\ Record(t.at, <<Shape(rep)>>)
    /\ UNCHANGED <<frames, errors>>
TypeParts(t) ==
    IF t.k = "ref"
    THEN Then(Flat(LAMBDA s : s.args, t.scopes) \o t.dims \o t.args) /\ type_name(t.at, t.scopes, t.n)
    ELSE /\ Then(CASE t.k = "vec" -> t.dims
                   [] t.k = "struct" -> Flat(dtype, t.parts) \o t.dims
                   [] t.k = "enum" -> Flat(dtype, t.parts) \o t.inits \o t.dims
                   [] t.k = "interface" -> t.args
                   [] OTHER -> <<>>)
         /\ UNCHANGED <<frames, out, errors>>
dtype_inner ==
    /\ Visit({"ref", "vec", "struct", "enum", "atom", "interface"})
    /\ \E rep \in {inline_ref(Now)} : IF rep.k # "none" THEN Replaced(Now, rep) ELSE TypeParts(Now)
    /\ UNCHANGED <<design, info, in_const, inline_depth>>

\* `x[N]` with a bare N: a size when N names a value two packages declare, else a key type.
Sized(t, p) ==
    /\ frames' = bind_wild(t.n, "values")
    /\ IF p = None THEN Then(dtype(t)) /\ UNCHANGED out ELSE Record(t.at, <<p, t.n>>) /\ Then(<<>>)
unpacked_inner ==
    /\ Visit({"assoc"})
    /\ LET t == Now.t
           bare == t.k = "ref" /\ t.scopes = <<>> /\ t.dims = <<>> /\ t.args = <<>>
       IN  IF /\ bare /\ resolve(t.n).to = "keep" /\ t.n \in info.colliding_values
              /\ \A i \in DOMAIN frames : t.n \notin frames[i].types
           THEN Sized(t, resolve_value(t.n))
           ELSE /\ frames' = IF bare THEN bind_wild(t.n, "types") ELSE frames
                /\ Then(dtype(t)) /\ UNCHANGED out
    /\ UNCHANGED <<design, info, in_const, inline_depth, errors>>

-----------------------------------------------------------------------------
(* Expressions.                                                            *)

\* The plain names of a chain `A::B`, None when it is anything else.
RECURSIVE scope_chain(_)
scope_chain(e) ==
    CASE e.k = "id" /\ e.sel = <<>> -> e.path
      [] e.k = "member" -> LET v == scope_chain(e.e) IN IF v = None THEN None ELSE Append(v, e.n)
      [] OTHER -> None

plain_ident(e) == e.k = "id" /\ Len(e.path) = 1 /\ e.sel = <<>>

\* `e.n` where e may be a package, a class or a value: renamed storage, a type of a class, a
\* type of a package, a value of a package.
MemberOf(at, e, n, chain, q) ==
    \E stored \in {IF q = None THEN None ELSE mangled_qualified(q, n)},
       c \in {IF chain = None THEN None ELSE class_scoped_type(chain, n)},
       o \in {IF q # None /\ n \in info.colliding /\ is_package(q) THEN owner(q, n) ELSE None},
       p \in {IF q # None /\ n \in info.colliding_values /\ is_package(q) THEN value_owner(q, n) ELSE None} :
      /\ IF stored # None THEN Record(at, <<stored>>) /\ Then(<<>>)
         ELSE IF c # None THEN Record(at, <<c>>) /\ Then(<<>>)
         ELSE IF o # None THEN Record(at, <<mangle(o, n)>>) /\ Then(<<>>)
         ELSE IF p # None THEN Record(at, <<p, n>>) /\ Then(<<>>)
         ELSE Then(<<e>>) /\ UNCHANGED out
      /\ frames' = IF stored = None /\ n \in info.class_colliding /\ chain # None
                   THEN bind_wild(chain[1], "types") ELSE frames
MemberAccess ==
    /\ Visit({"member"})
    /\ MemberOf(Now.at, Now.e, Now.n, scope_chain(Now.e), IF plain_ident(Now.e) THEN Now.e.path[1] ELSE None)
    /\ UNCHANGED <<design, info, in_const, inline_depth, errors>>

\* Renamed storage and the class a hierarchical path starts with.
PathHead(path) ==
    IF Len(path) > 1 /\ path[1] \in info.hiding /\ ~value_shadowed(path[1])
    THEN <<Spelled(resolve(path[1]), path[1])>> \o Tail(path) ELSE path
StoredIn(path, qualified, var) ==
    IF qualified # None THEN <<qualified>> \o SubSeq(path, 3, Len(path))
    ELSE IF var # None THEN <<var>> \o Tail(path) ELSE path
Stored(path) == StoredIn(path, IF Len(path) > 1 THEN mangled_qualified(path[1], path[2]) ELSE None,
                         mangled_var(path[1]))

\* A bare identifier that stands for no typedef: a type, a value, and outside constant contexts
\* an enum member.
BareName(at, n) ==
    LET types == n \in info.colliding \cup info.class_colliding \cup info.hiding /\ ~value_shadowed(n)
        decls == IF types THEN "types" ELSE IF n \in info.colliding_values THEN "values" ELSE "members"
        from(p) == IF p = None THEN <<n>> ELSE <<p, n>>
    IN  /\ Record(at, CASE decls = "types" -> <<Spelled(resolve(n), n)>>
                        [] decls = "values" -> from(resolve_value(n))
                        [] OTHER -> IF in_const = 0 THEN from(resolve_member(n)) ELSE <<n>>)
        /\ frames' = IF decls = "members" /\ in_const > 0 THEN frames ELSE bind_wild(n, decls)

\* An identifier: a class it starts with, renamed storage, a typedef that is replaced, a name.
Ident ==
    /\ Visit({"id"})
    /\ \E head \in {PathHead(Now.path)} : \E path \in {Stored(head)} :
         \E rep \in {IF Len(path) > 1 \/ Now.sel # <<>> \/ value_shadowed(path[1]) THEN NoType
                     ELSE inline_type(path[1])} :
           IF path # head
           THEN Record(Now.at, path) /\ Then(Now.sel) /\ frames' = bind_wild(Now.path[1], "values")
           ELSE IF rep.k = "ref" /\ rep.scopes = <<>> /\ rep.dims = <<>> /\ rep.args = <<>>
           THEN Record(Now.at, <<rep.n>>) /\ Then(<<>>) /\ UNCHANGED frames
           ELSE IF rep.k # "none"
           THEN /\ Record(Now.at, <<Shape(rep)>>) /\ UNCHANGED frames
                /\ Then(Inlined(dtype([rep EXCEPT !.at = Now.at])))
           ELSE /\ Then(Now.sel)
                /\ IF Len(path) = 1 /\ Now.sel = <<>> THEN BareName(Now.at, path[1])
                   ELSE Record(Now.at, path) /\ UNCHANGED frames
    /\ UNCHANGED <<design, info, in_const, inline_depth, errors>>

\* A call: a plain callee is qualified as a value and never as a type.
Call ==
    /\ Visit({"call"})
    /\ IF plain_ident(Now.f)
       THEN /\ Record(Now.f.at, SelectSeq(<<resolve_value(Now.f.path[1])>>, LAMBDA p : p # None) \o Now.f.path)
            /\ frames' = bind_wild(Now.f.path[1], "values")
            /\ Then(Now.args)
       ELSE Then(<<Now.f>> \o Now.args) /\ UNCHANGED <<frames, out>>
    /\ UNCHANGED <<design, info, in_const, inline_depth, errors>>

\* A specialization keeps its arguments as text: only classes that hide others are respelled.
Specialization ==
    /\ Visit({"spec"})
    /\ LET edit(n) == IF n \in info.hiding /\ ~value_shadowed(n) THEN Spelled(resolve(n), n) ELSE n
       IN  Record(Now.at, [i \in DOMAIN Now.words |-> edit(Now.words[i])])
    /\ Then(<<Now.e>>)
    /\ UNCHANGED <<design, info, frames, in_const, inline_depth, errors>>

\* Every other expression, every constraint and every statement without a scope of its own is
\* walked through, its parts in the order of the text.
expr ==
    /\ Visit({"op", "type", "named"})
    /\ Then(CASE Now.k = "op" -> Now.kids [] Now.k = "type" -> dtype(Now.t) [] Now.k = "named" -> <<Now.e>>)
    /\ UNCHANGED <<design, info, frames, in_const, inline_depth, out, errors>>

constraint ==
    /\ Visit({"constraint"})
    /\ Then(IF Now.foreach = {} THEN Now.kids
            ELSE <<Head(Now.kids)>> \o Scoped([Frame EXCEPT !.values = Now.foreach], Tail(Now.kids)))
    /\ UNCHANGED <<design, info, frames, in_const, inline_depth, out, errors>>

stmt ==
    /\ Visit({"stmt"})
    /\ Then(Now.kids)
    /\ UNCHANGED <<design, info, frames, in_const, inline_depth, out, errors>>

-----------------------------------------------------------------------------
(* Statements with a scope of their own, and declarations.                 *)

\* A block, a `for` with its loop variables, a `foreach` with its indices.
Block ==
    /\ Visit({"block", "for", "foreach"})
    /\ Then(CASE Now.k = "block" -> body(Now.stmts)
              [] Now.k = "for" -> Scoped([Frame EXCEPT !.values = Now.vars], Now.init \o Now.body)
              [] Now.k = "foreach" -> <<Now.e>> \o Scoped([Frame EXCEPT !.values = Now.vars], Now.body))
    /\ UNCHANGED <<design, info, frames, in_const, inline_depth, out, errors>>

\* A declaration of a type that has unpacked dimensions of its own takes them on (`ua_t u`
\* becomes `T u[3]`).
SplicedWith(dd, r) ==
    IF r.t.k = "none" THEN dd
    ELSE [dd EXCEPT !.t = [r.t EXCEPT !.at = dd.t.at],
                    !.ds = [i \in DOMAIN @ |-> [@[i] EXCEPT !.udims = @ \o r.udims]]]
splice_unpacked(dd) ==
    IF dd.t.k = "ref" /\ dd.t.scopes = <<>> /\ dd.t.dims = <<>> /\ dd.t.args = <<>> /\ dd.ds # <<>>
    THEN SplicedWith(dd, inline_unpacked(dd.t.n)) ELSE dd

\* The package or the class whose items are walked: what decides how a declaration is renamed.
InPackage == frames[Len(frames)].pkg
InClass == frames[Len(frames)].cls

DataDecl ==
    /\ Visit({"data"})
    /\ \E dd \in {splice_unpacked(Now)} :
           /\ Then(dtype(dd.t) \o declarators(dd.ds))
           /\ Record(IF dd = Now THEN None ELSE dd.t.at, <<Shape(dd.t)>>)
    /\ UNCHANGED <<design, info, frames, in_const, inline_depth, errors>>

\* The name of a variable, after its initializer; one that two packages declare is renamed.
Declare ==
    /\ Visit({"declare"})
    /\ LET n == Now.d.n
       IN  Record(Now.d.at, <<IF InPackage # None /\ n \in info.mangled_vars THEN mangle(InPackage, n) ELSE n>>)
    /\ Then(<<>>)
    /\ UNCHANGED <<design, info, frames, in_const, inline_depth, errors>>

Typedef ==
    /\ Visit({"typedef"})
    /\ LET n == Now.n
           renamed == IF InPackage # None THEN (IF n \in info.colliding THEN mangle(InPackage, n) ELSE n)
                      ELSE IF InClass # None
                      THEN (IF n \in info.class_colliding /\ n \in info.classes[InClass].types
                            THEN mangle(InClass, n) ELSE n)
                      ELSE IF Now.forward /\ n \in info.hiding THEN Spelled(resolve(n), n) ELSE n
       IN  Record(Now.at, <<renamed>>)
    /\ Then(dtype(Now.t) \o unpacked(Now.udims))
    /\ UNCHANGED <<design, info, frames, in_const, inline_depth, errors>>

ParamDecl ==
    /\ Visit({"param"})
    /\ Then(param_decl(Now))
    /\ UNCHANGED <<design, info, frames, in_const, inline_depth, out, errors>>

\* A function or a task; the formals and the body of an out-of-block method are in its class.
MethodScopes(segs) ==
    IF ~is_package(segs[1]) \/ Len(segs) = 1 THEN <<Spelled(resolve(segs[1]), segs[1])>> \o Tail(segs)
    ELSE IF segs[2] \in info.colliding /\ owner(segs[1], segs[2]) # None
    THEN <<mangle(owner(segs[1], segs[2]), segs[2])>> \o SubSeq(segs, 3, Len(segs)) ELSE segs
Subroutine ==
    /\ Visit({"func"})
    /\ IF Now.scopes = <<>>
       THEN /\ Record(Now.at, <<Now.n>>) /\ UNCHANGED frames
            /\ Then(dtype(Now.ret) \o subroutine_body(Now))
       ELSE \E named \in {MethodScopes(Names(Now.scopes))} : \E c \in {class_path(named)} :
              /\ Record(Now.at, Append(named, Now.n))
              /\ frames' = IF is_package(Now.scopes[1].n) /\ Len(Now.scopes) > 1 THEN frames
                           ELSE bind_wild(Now.scopes[1].n, "types")
              /\ Then(dtype(Now.ret) \o IF c = None THEN subroutine_body(Now)
                                        ELSE Scoped([Frame EXCEPT !.inherits = TRUE, !.cls = c,
                                                                  !.bases = class_bases(c)], subroutine_body(Now)))
    /\ UNCHANGED <<design, info, in_const, inline_depth, errors>>

\* `import Q::n` of a renamed declaration names its owner; a unit import counts from here on.
ImportTo(ii, value, type) ==
    IF ii.n = None THEN ii
    ELSE IF ii.n \in info.colliding_values THEN (IF value = None THEN ii ELSE [ii EXCEPT !.p = value])
    ELSE IF ii.n \in info.colliding /\ type # None THEN [p |-> type, n |-> mangle(type, ii.n)] ELSE ii
import_decl ==
    /\ Visit({"import", "export"})
    /\ \E now \in {[Now EXCEPT !.of = [i \in DOMAIN @ |->
                       ImportTo(@[i], value_owner(@[i].p, @[i].n), owner(@[i].p, @[i].n))]]} :
           /\ Record(Now.at, Flat(LAMBDA ii : <<ii.p, ii.n>>, now.of))
           /\ frames' = IF Len(frames) = 1 /\ InPackage = None /\ Now.k = "import"
                        THEN <<add_imports(frames[1], <<now>>)>> ELSE frames
    /\ Then(<<>>)
    /\ UNCHANGED <<design, info, in_const, inline_depth, errors>>

\* A class: its own name, its base in the enclosing scope, then its items in its own scope.
ClassName(n) ==
    IF InPackage # None THEN (IF n \in info.colliding THEN mangle(InPackage, n) ELSE n)
    ELSE IF InClass # None THEN (IF n \in info.class_colliding THEN mangle(InClass, n) ELSE n)
    ELSE IF Len(frames) > 1 /\ n \in info.hiding THEN Spelled(resolve(n), n) ELSE n
BaseName(x) ==
    IF x.scopes = <<>> THEN resolve(x.n)
    ELSE IF is_package(x.scopes[1]) /\ Len(x.scopes) = 1 /\ x.n \in info.colliding
    THEN Owned(owner(x.scopes[1], x.n), x.n) ELSE Keep
ClassScopeOf(c, named, bases) ==
    class_item_names([Frame EXCEPT !.inherits = c.ext # <<>>,
                                   !.cls = IF named \in DOMAIN info.classes THEN named ELSE None,
                                   !.bases = bases,
                                   !.types = UNION {param_types(pd) : pd \in Range(c.params)},
                                   !.values = UNION {param_names(pd) : pd \in Range(c.params)}], c.items)
Class ==
    /\ Visit({"class"})
    /\ \E named \in {ClassName(Now.n)} :
         LET at == IF Now.at = None THEN Empty ELSE Now.at :> <<named>>
             items == Flat(param_decl, Now.params) \o Now.items
         IN  IF Now.ext = <<>>
             THEN /\ out' = at @@ out
                  /\ UNCHANGED <<frames, errors>>
                  /\ Then(Now.impl \o Scoped(ClassScopeOf(Now, named, <<>>), items))
             ELSE \E x \in {Now.ext[1]} : \E r \in {BaseName(x)} :
                  /\ out' = at @@ (IF x.at = None THEN Empty ELSE x.at :> <<Spelled(r, x.n)>>) @@ out
                  /\ IF x.scopes = <<>> THEN Report(r, x.n) /\ frames' = bind_wild(x.n, "types")
                     ELSE UNCHANGED <<frames, errors>>
                  /\ Then(Now.impl \o Scoped(ClassScopeOf(Now, named, BasesFrom(class_named(Spelled(r, x.n)), <<>>)),
                                              x.args \o items))
    /\ UNCHANGED <<design, info, in_const, inline_depth>>

-----------------------------------------------------------------------------
(* Modules, packages and what they hold.                                   *)

module_class_bindings(f, items) ==
    LET owners == {i \in DOMAIN frames : frames[i].module # None}
        own == IF f.module # None THEN f.module ELSE frames[Max(owners)].module
        here == {c \in Range(OfKind(items, {"class"})) : c.n \in info.hiding}
    IN  IF f.module = None /\ owners = {} THEN f
        ELSE [f EXCEPT !.module_classes = [n \in {c.n : c \in here} |->
                 ModuleClassName(own, CHOOSE c \in here : c.n = n, info.repeated)]]

\* Header first, without the classes of the body; then the body in a scope inside it.
module_body ==
    /\ Visit({"module"})
    /\ LET m == Now
           header == add_imports([Frame EXCEPT !.module = m.n,
                                               !.types = UNION {param_types(pd) : pd \in Range(m.params)},
                                               !.values = UNION {param_names(pd) : pd \in Range(m.params)}
                                                            \cup {m.ports[i].n : i \in DOMAIN m.ports}], m.items)
           inside == [module_item_names(module_class_bindings([Frame EXCEPT !.module = m.n], m.items), m.items)
                        EXCEPT !.module = None]
       IN  Then(Scoped(header, Flat(param_decl, m.params) \o ports(m.ports) \o Scoped(inside, m.items)))
    /\ UNCHANGED <<design, info, frames, in_const, inline_depth, out, errors>>

\* A region is transparent; the block of a condition or of a loop owns its declarations.
Generate ==
    /\ Visit({"generate"})
    /\ LET g == Now
           block == Scoped(module_item_names(module_class_bindings(Frame, g.items), g.items), g.items)
       IN  Then(CASE g.conds = <<>> /\ g.var = None -> g.items
                  [] g.conds # <<>> /\ g.var = None -> Const(g.conds) \o block
                  [] OTHER -> Scoped([Frame EXCEPT !.values = {g.var}], Const(g.conds) \o block))
    /\ UNCHANGED <<design, info, frames, in_const, inline_depth, out, errors>>

\* Processes, instances, checkers, covergroups and lets.
Item ==
    /\ Visit({"process", "instance", "checker", "covergroup", "let", "genvar"})
    /\ Then(CASE Now.k = "process" -> body(<<Now.s>>)
              [] Now.k = "instance" -> Const(Now.params) \o Now.conns
              [] Now.k = "checker" -> Scoped(module_item_names(Frame, Now.items), Now.items)
              [] Now.k = "covergroup" -> ports(Now.ports) \o Now.kids
              [] Now.k = "let" -> <<Now.e>>
              [] OTHER -> <<>>)
    /\ Record(Now.at, <<IF Now.k = "covergroup" /\ InPackage # None /\ Now.n \in info.colliding
                       THEN mangle(InPackage, Now.n) ELSE Now.n>>)
    /\ UNCHANGED <<design, info, frames, in_const, inline_depth, errors>>

\* The class an out-of-class constraint belongs to; an interface a class implements.
class_name_string ==
    /\ Visit({"typename"})
    /\ type_ident(Now.at, Now.n)
    /\ Then(Now.kids)
    /\ UNCHANGED <<design, info, in_const, inline_depth>>

\* A package sees its own declarations and imports and nothing of the compilation unit.
Package ==
    /\ Visit({"package"})
    /\ frames' = <<add_imports([Frame EXCEPT !.pkg = Now.n, !.values = Union(package_item_values, Now.items)],
                               Now.items)>>
    /\ Then(Now.items \o <<[k |-> "pop", restore |-> frames]>>)
    /\ UNCHANGED <<design, info, in_const, inline_depth, out, errors>>

Done == todo = <<>> /\ UNCHANGED vars

Next ==
    \/ PushFrame \/ PopFrame \/ EnterLeave
    \/ dtype_inner \/ unpacked_inner
    \/ MemberAccess \/ Ident \/ Call \/ Specialization \/ expr \/ constraint \/ stmt
    \/ Block \/ DataDecl \/ Declare \/ Typedef \/ ParamDecl \/ Subroutine \/ import_decl \/ Class
    \/ module_body \/ Generate \/ Item \/ class_name_string \/ Package
    \/ Done

Spec == Init /\ [][Next]_vars
=============================================================================
