------------------------------- MODULE PkgNames ------------------------------
(***************************************************************************)
(* The names of a parsed design, as src/pkg_scope.rs collects them before  *)
(* it rewrites any (struct Info): what every package declares, imports and *)
(* exports, which names are declared more than once, and for every class   *)
(* its own type names, its base and the typedefs that depend on a type     *)
(* parameter.                                                              *)
(*                                                                         *)
(* A name is a sequence of identifiers: <<"T">> is a bare name, <<"pa",    *)
(* "T">> the qualified spelling `pa::T`, which is one name to the code.    *)
(* A node of the syntax tree is a record with a kind k; nodes that the     *)
(* pass only walks through are of kind "op" and keep their parts (kids).   *)
(***************************************************************************)
EXTENDS Naturals, Sequences, FiniteSets, SequencesExt, FiniteSetsExt, Functions, TLC

None == <<>>
NoType == [k |-> "none"]

mangle(owner, n) == owner \o n

Empty == [x \in {} |-> None]
Flat(F(_), s) == FlattenSeq([i \in DOMAIN s |-> F(s[i])])
Union(F(_), s) == UNION {F(s[i]) : i \in DOMAIN s}
OfKind(items, kinds) == SelectSeq(items, LAMBDA it : it.k \in kinds)

-----------------------------------------------------------------------------
(* Types: a reference (scopes, name, packed dimensions, arguments), a bit  *)
(* vector, a struct, an enum, an integer atom, any other.                  *)

\* `type_has_args`, `type_mentions`: does a typedef of this type stay with the simulator;
\* does it name one of ns.
RECURSIVE type_has_args(_), type_mentions(_, _)
type_has_args(t) ==
    CASE t.k = "ref" -> t.args # <<>> \/ t.scopes # <<>>
      [] t.k \in {"struct", "enum"} -> \E i \in DOMAIN t.parts : type_has_args(t.parts[i])
      [] t.k = "interface" -> TRUE
      [] OTHER -> FALSE

type_mentions(t, ns) ==
    CASE t.k = "ref" -> t.scopes = <<>> /\ t.n \in ns
      [] t.k \in {"struct", "enum"} -> \E i \in DOMAIN t.parts : type_mentions(t.parts[i], ns)
      [] OTHER -> FALSE

\* The outer dimensions come first; an atom becomes the vector of its bits.
merge_packed(rep, outer) ==
    CASE rep.k = "none" \/ outer = <<>> -> rep
      [] rep.k \in {"vec", "ref", "enum"} \/ (rep.k = "struct" /\ rep.packed) ->
           [rep EXCEPT !.dims = outer \o @]
      [] rep.k = "atom" -> [k |-> "vec", at |-> None, dims |-> Append(outer, [k |-> "op", kids |-> <<>>])]
      [] OTHER -> NoType

\* Bare value names replaced in a constant expression.
RECURSIVE subst_expr(_, _)
subst_expr(e, vmap) ==
    CASE e.k = "id" /\ Len(e.path) = 1 /\ e.sel = <<>> /\ e.path[1] \in DOMAIN vmap ->
           [k |-> "op", kids |-> <<vmap[e.path[1]]>>]
      [] e.k = "op" -> [e EXCEPT !.kids = [i \in DOMAIN @ |-> subst_expr(@[i], vmap)]]
      [] e.k = "call" -> [e EXCEPT !.args = [i \in DOMAIN @ |-> subst_expr(@[i], vmap)]]
      [] OTHER -> e

subst_dims(dims, vmap) == [i \in DOMAIN dims |-> subst_expr(dims[i], vmap)]

subst_udims(dims, vmap) ==
    [i \in DOMAIN dims |-> IF dims[i].k = "assoc" THEN dims[i] ELSE subst_expr(dims[i], vmap)]

\* A type with every bare name of tmap replaced; NoType when one of them maps to nothing usable.
RECURSIVE subst_type(_, _, _)
subst_type(t, tmap, vmap) ==
    CASE t.k = "ref" /\ t.scopes = <<>> /\ t.n \in DOMAIN tmap ->
           merge_packed(tmap[t.n], subst_dims(t.dims, vmap))
      [] t.k \in {"ref", "vec"} -> [t EXCEPT !.dims = subst_dims(@, vmap)]
      [] t.k \in {"struct", "enum"} ->
           LET parts == [i \in DOMAIN t.parts |-> subst_type(t.parts[i], tmap, vmap)]
           IN  IF \E i \in DOMAIN parts : parts[i].k = "none" THEN NoType
               ELSE [t EXCEPT !.parts = parts, !.dims = subst_dims(@, vmap)]
      [] OTHER -> t

Ref(n) == [k |-> "ref", at |-> None, scopes |-> <<>>, n |-> n, dims |-> <<>>, args |-> <<>>]

\* A type argument that was parsed as an expression.
KeywordTypes == {<<w>> : w \in {"byte", "int", "logic"}}
keyword_type(n) == IF n = <<"logic">> THEN [k |-> "vec", at |-> None, dims |-> <<>>]
                   ELSE [k |-> "atom", at |-> None, n |-> n]
RECURSIVE arg_type(_)
arg_type(e) ==
    CASE e.k = "type" -> e.t
      [] e.k = "op" /\ Len(e.kids) = 1 -> arg_type(e.kids[1])
      [] e.k = "id" /\ Len(e.path) = 1 /\ e.sel = <<>> ->
           IF e.path[1] \in KeywordTypes THEN keyword_type(e.path[1]) ELSE Ref(e.path[1])
      [] OTHER -> NoType

\* The header parameters bound to the arguments, by position or by name, defaults for the rest.
bind_params(params, args) ==
    LET named(p) == {i \in DOMAIN args : args[i].k = "named" /\ args[i].n = p}
        given(i) == IF named(params[i].n) # {} THEN <<args[Max(named(params[i].n))].e>>
                    ELSE IF i \in DOMAIN args /\ args[i].k # "named" THEN <<args[i]>> ELSE <<>>
        bind(maps, i) ==
            LET p == params[i]
                g == given(i)
            IN  CASE p.k = "type" /\ g # <<>> -> [maps EXCEPT !.t = (p.n :> arg_type(g[1])) @@ @]
                  [] p.k = "type" /\ p.init = <<>> -> [maps EXCEPT !.t = (p.n :> NoType) @@ @]
                  [] p.k = "type" /\ p.init # <<>> /\ g = <<>> ->
                       [maps EXCEPT !.t = (p.n :> subst_type(p.init[1], maps.t, maps.v)) @@ @]
                  [] p.k = "value" /\ g # <<>> -> [maps EXCEPT !.v = (p.n :> g[1]) @@ @]
                  [] p.k = "value" /\ g = <<>> /\ p.init # <<>> -> [maps EXCEPT !.v = (p.n :> p.init[1]) @@ @]
                  [] OTHER -> maps
    IN  FoldLeft(bind, [t |-> Empty, v |-> Empty], [i \in DOMAIN params |-> i])

-----------------------------------------------------------------------------
(* What a declaration declares.                                            *)

enum_members(t) == IF t.k = "enum" THEN {t.members[i] : i \in DOMAIN t.members} ELSE {}

param_names(pd) == {p.n : p \in {q \in Range(pd.params) : q.k = "value"}}
param_types(pd) == {p.n : p \in {q \in Range(pd.params) : q.k = "type"}}

Declared(dd) == {dd.ds[i].n : i \in DOMAIN dd.ds}

\* The value names of a package item; an out-of-block method is not one.
package_item_values(it) ==
    CASE it.k = "param" -> param_names(it)
      [] it.k = "data" -> IF it.net THEN {} ELSE Declared(it)
      [] it.k = "func" -> IF it.scopes = <<>> THEN {it.n} ELSE {}
      [] it.k = "let" -> {it.n}
      [] OTHER -> {}

\* Typedefs and classes at the level of a module, its generate blocks included.
RECURSIVE module_level_types(_), module_level_members(_), module_dpi_names(_), module_classes(_)
module_level_types(items) ==
    Union(LAMBDA it : CASE it.k \in {"typedef", "class"} -> {it.n}
                        [] it.k = "generate" -> module_level_types(it.items)
                        [] OTHER -> {}, items)
module_level_members(items) ==
    Union(LAMBDA it : CASE it.k \in {"typedef", "data"} -> enum_members(it.t)
                        [] it.k = "generate" -> module_level_members(it.items)
                        [] OTHER -> {}, items)
module_dpi_names(items) ==
    Union(LAMBDA it : CASE it.k = "func" /\ it.dpi -> {it.n}
                        [] it.k = "generate" -> module_dpi_names(it.items)
                        [] OTHER -> {}, items)
module_classes(items) ==
    Flat(LAMBDA it : CASE it.k = "class" -> <<it>>
                       [] it.k = "generate" -> module_classes(it.items)
                       [] OTHER -> <<>>, items)

\* Every class that is not nested in another, with the scope it is declared in.
design_classes(descs) ==
    Flat(LAMBDA d : CASE d.k = "package" -> Flat(LAMBDA it : <<[scope |-> "package", of |-> d.n, c |-> it]>>,
                                                 OfKind(d.items, {"class"}))
                      [] d.k = "class" -> <<[scope |-> "unit", of |-> None, c |-> d]>>
                      [] d.k = "module" -> Flat(LAMBDA it : <<[scope |-> "module", of |-> d.n, c |-> it]>>,
                                                module_classes(d.items))
                      [] OTHER -> <<>>, descs)

RECURSIVE class_names_of(_)
class_names_of(c) == {c.n} \cup Union(class_names_of, OfKind(c.items, {"class"}))

\* A typedef that names a class only aliases a handle, which the simulator resolves.
class_typedef_renamable(td, class_names) ==
    ~td.forward /\ (td.t.k = "ref" => /\ td.t.args = <<>>
                                      /\ \A i \in DOMAIN td.t.scopes : td.t.scopes[i].args = <<>>
                                      /\ td.t.n \notin class_names)

\* The type names a class and its nested classes declare, one entry for each declaration.
RECURSIVE count_class_types(_, _)
count_class_types(c, class_names) ==
    Flat(LAMBDA it : CASE it.k = "typedef" /\ class_typedef_renamable(it, class_names) -> <<it.n>>
                       [] it.k = "class" -> <<it.n>> \o count_class_types(it, class_names)
                       [] OTHER -> <<>>, c.items)

-----------------------------------------------------------------------------
(* Classes by the name they carry after the pass.                          *)

\* The typedefs whose type depends on a type parameter, earlier ones expanded.
class_param_typedefs(c, class_names) ==
    LET type_params == UNION {param_types(pd) : pd \in Range(c.params)}
        packed(inline) == [n \in DOMAIN inline |->
                             IF inline[n].udims = <<>> THEN inline[n].t ELSE NoType]
        add(inline, td) ==
            LET t == subst_type(td.t, packed(inline), Empty)
            IN  IF \/ type_params = {} \/ type_has_args(td.t)
                   \/ ~class_typedef_renamable(td, class_names)
                   \/ t.k = "none" \/ ~type_mentions(t, type_params)
                THEN inline
                ELSE (td.n :> [t |-> t, udims |-> td.udims]) @@ inline
    IN  FoldLeft(add, Empty, OfKind(c.items, {"typedef"}))

RECURSIVE record_class(_, _, _, _)
record_class(c, named, class_colliding, class_names) ==
    LET nested == OfKind(c.items, {"class"})
        typedefs == OfKind(c.items, {"typedef"})
        own == SelectSeq(typedefs, LAMBDA td : class_typedef_renamable(td, class_names))
        info == [types |-> {td.n : td \in Range(own)} \cup {nc.n : nc \in Range(nested)},
                 base |-> IF c.ext = <<>> THEN None ELSE c.ext[1].n,
                 ext_args |-> IF c.ext = <<>> THEN <<>> ELSE c.ext[1].args,
                 typedefs |-> {td.n : td \in Range(typedefs)},
                 params |-> Flat(LAMBDA pd : pd.params, c.params),
                 inline |-> class_param_typedefs(c, class_names)]
        inner(nc) == record_class(nc, IF nc.n \in class_colliding THEN mangle(named, nc.n) ELSE nc.n,
                                  class_colliding, class_names)
    IN  Flat(inner, nested) \o <<[bare |-> c.n, named |-> named, info |-> info]>>

-----------------------------------------------------------------------------
(* Everything the rewriting reads.                                         *)

\* A package under a name: the items of all its declarations, in order.
Items(descs, p) == Flat(LAMBDA d : d.items, SelectSeq(descs, LAMBDA d : d.k = "package" /\ d.n = p))

pkg_info(items) ==
    [types |-> {it.n : it \in Range(OfKind(items, {"typedef", "class", "covergroup"}))},
     members |-> Union(LAMBDA it : enum_members(it.t), OfKind(items, {"typedef"})),
     values |-> Union(package_item_values, items),
     vars |-> Union(LAMBDA it : IF it.net THEN {} ELSE Declared(it), OfKind(items, {"data"})),
     explicit |-> SelectSeq(Flat(LAMBDA it : it.of, OfKind(items, {"import"})), LAMBDA ii : ii.n # None),
     wild |-> Flat(LAMBDA it : Flat(LAMBDA ii : IF ii.n = None THEN <<ii.p>> ELSE <<>>, it.of),
                   OfKind(items, {"import"})),
     exports |-> Flat(LAMBDA it : it.of, OfKind(items, {"export"}))]

\* The names that are declared outside every package.
other_types(descs) ==
    Union(LAMBDA d : CASE d.k \in {"typedef", "class", "covergroup"} -> {d.n}
                       [] d.k = "module" -> module_level_types(d.items)
                       [] OTHER -> {}, descs)
other_members(descs) ==
    Union(LAMBDA d : CASE d.k = "typedef" -> enum_members(d.t)
                       [] d.k = "module" -> module_level_members(d.items)
                       [] OTHER -> {}, descs)
other_values(descs) ==
    Union(LAMBDA d : CASE d.k = "module" -> module_dpi_names(d.items)
                       [] d.k \in {"package", "class", "typedef"} -> {}
                       [] OTHER -> package_item_values(d), descs)

\* Declared by two packages, or by a package and elsewhere.
clash(pkgs, decls, other) ==
    {n \in UNION {pkgs[p][decls] : p \in DOMAIN pkgs} :
       n \in other \/ Cardinality({p \in DOMAIN pkgs : n \in pkgs[p][decls]}) > 1}

\* Names some import or export of a package or of a module spells out: they keep their declared
\* name.  An import of the compilation unit is not asked: the code looks for it among the package
\* items of the unit, and the parser makes it a description of its own.
explicit_named(descs) ==
    LET named(items) == Union(LAMBDA it : {ii.n : ii \in Range(it.of)} \ {None}, OfKind(items, {"import"}))
        exported(items) == Union(LAMBDA it : {ii.n : ii \in Range(it.of)} \ {None}, OfKind(items, {"export"}))
    IN  Union(LAMBDA d : CASE d.k = "package" -> named(d.items) \cup exported(d.items)
                                             [] d.k = "module" -> named(d.items)
                                             [] OTHER -> {}, descs)

Count(s, x) == Cardinality({i \in DOMAIN s : s[i] = x})

\* The name of a class of a module that another lexical scope also declares.
ModuleClassName(owner, c, repeated) ==
    IF mangle(owner, c.n) \in repeated THEN mangle(mangle(owner, c.place), c.n) ELSE mangle(owner, c.n)

collect(descs) ==
    LET pkgs == [p \in {d.n : d \in Range(OfKind(descs, {"package"}))} |-> pkg_info(Items(descs, p))]
        other == other_types(descs)
        values == other_values(descs)
        colliding == clash(pkgs, "types", other)
        all == design_classes(descs)
        lexical == Flat(LAMBDA a : IF a.scope = "package" THEN <<>> ELSE <<a.c.n>>, all)
        hiding == {a.c.n : a \in {b \in Range(all) : b.scope = "module" /\ Count(lexical, b.c.n) > 1}}
        owned == Flat(LAMBDA a : IF a.scope = "module" /\ a.c.n \in hiding
                                 THEN <<mangle(a.of, a.c.n)>> ELSE <<>>, all)
        repeated == {n \in Range(owned) : Count(owned, n) > 1}
        class_names == UNION {class_names_of(a.c) : a \in Range(all)}
        counted == Flat(LAMBDA a : count_class_types(a.c, class_names), all)
        class_colliding == {n \in Range(counted) : \/ Count(counted, n) > 1 \/ n \in other
                                                   \/ \E p \in DOMAIN pkgs : n \in pkgs[p].types}
        named(a) == CASE a.scope = "package" /\ a.c.n \in colliding -> mangle(a.of, a.c.n)
                      [] a.scope = "module" /\ a.c.n \in hiding -> ModuleClassName(a.of, a.c, repeated)
                      [] OTHER -> a.c.n
        recorded == Flat(LAMBDA a : record_class(a.c, named(a), class_colliding, class_names), all)
    IN  [pkgs |-> pkgs,
         colliding |-> colliding,
         colliding_members |-> clash(pkgs, "members", other_members(descs)),
         colliding_values |-> clash(pkgs, "values", values),
         mangled_vars |-> {n \in clash(pkgs, "vars", {}) : n \notin values \cup explicit_named(descs)},
         class_colliding |-> class_colliding,
         hiding |-> hiding,
         repeated |-> repeated,
         classes |-> FoldLeft(LAMBDA f, r : (r.named :> r.info) @@ f, Empty, recorded),
         class_by_bare |-> [n \in {r.bare : r \in Range(recorded)} |->
                              Flat(LAMBDA r : IF r.bare = n THEN <<r.named>> ELSE <<>>, recorded)]]

\* Nothing is declared twice and no typedef depends on a parameter: the design is not touched.
Untouched(info) ==
    /\ info.colliding = {} /\ info.colliding_members = {} /\ info.colliding_values = {}
    /\ info.class_colliding = {} /\ info.hiding = {}
    /\ \A c \in DOMAIN info.classes : DOMAIN info.classes[c].inline = {}

\* The package whose declaration q::n denotes: q, or the package it exports n from, followed
\* MaxExportDepth deep.
MaxExportDepth == 8
AnyPackage == <<"*">>
RECURSIVE owner_in(_, _, _, _, _)
owner_in(info, q, n, depth, decls) ==
    LET pi == info.pkgs[q]
        matches(ex, p) == ex.p = AnyPackage \/ ex.p = p
        tries == Flat(LAMBDA ex :
                        IF ex.n # None /\ ex.n # n THEN <<>>
                        ELSE Flat(LAMBDA ii : IF ii.n = n /\ matches(ex, ii.p) THEN <<ii.p>> ELSE <<>>, pi.explicit)
                             \o SelectSeq(pi.wild, LAMBDA p : matches(ex, p))
                             \o IF ex.p # AnyPackage /\ ex.n # None THEN <<ex.p>> ELSE <<>>, pi.exports)
        found == SelectSeq([i \in DOMAIN tries |-> owner_in(info, tries[i], n, depth + 1, decls)],
                           LAMBDA o : o # None)
    IN  IF depth > MaxExportDepth \/ q \notin DOMAIN info.pkgs THEN None
        ELSE IF n \in pi[decls] THEN q
        ELSE IF found = <<>> THEN None ELSE Head(found)
==============================================================================
