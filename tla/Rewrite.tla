------------------------------- MODULE Rewrite -------------------------------
(***************************************************************************)
(* Moving text from the scope it was written in to another one             *)
(* (src/elaborate.rs, rewrite_expr_impl, rewrite_stmt and their helpers).  *)
(* The same operators put a module's body under the path of an instance,   *)
(* rename the declarations of a generate block and replace a genvar.       *)
(*                                                                         *)
(* A name is a sequence of identifiers, <<"u", "x">> for the flat `u.x`.   *)
(* An identifier expression is a path of segments, each a name and its     *)
(* selects: the flat name `u.x` is ONE segment, `u.x` as it is written is  *)
(* two.  A context c says how text is moved:                               *)
(*   prefix  the path of the instance;                                     *)
(*   ports   name -> the expression it stands for (port_map);              *)
(*   locals  the names the body declares (local_names);                    *)
(*   ifaces  interface port -> the interface instance (interface_map);     *)
(*   modports  member of an interface instance -> a modport expression;    *)
(*   bound   names that statements bind (STMT_LOCALS_TLS);                 *)
(*   types   type parameter -> its type (the TYPE_BIND_ thread locals);    *)
(*   up      the scopes of the design (UpwardScopes).                      *)
(***************************************************************************)
EXTENDS Integers, Sequences, FiniteSets, SequencesExt, FiniteSetsExt, Functions, TLC

None == <<>>
Empty == [n \in {} |-> None]
Leaf(n) == n[Len(n)]
Each(F(_), s) == [i \in DOMAIN s |-> F(s[i])]

Num(v) == [k |-> "num", v |-> v]
Seg(n, sels) == [n |-> n, sels |-> sels]
IdOf(root, path) == [k |-> "id", root |-> root, path |-> path]
make_ident_expr(n) == IdOf("", <<Seg(n, <<>>)>>)
Index(e, i) == [k |-> "index", e |-> e, i |-> i]
Part(e, l, r) == [k |-> "part", e |-> e, l |-> l, r |-> r]
Member(e, n) == [k |-> "member", e |-> e, m |-> n]
Indexed(e, sels) == FoldLeft(Index, e, sels)

\* The parts of a node that only holds expressions together.
Kids(e) == CASE e.k \in {"op", "other", "call", "sys"} -> e.kids
             [] e.k = "range" -> <<e.l, e.r>>
             [] OTHER -> <<>>

-----------------------------------------------------------------------------
(* Constants, and two selects that choose the same bits.                   *)

\* Under parameters: names that are no parameter have no value.
RECURSIVE eval_const_expr(_, _)
Both(o, a, b) == IF a = None \/ b = None THEN None ELSE <<IF o = "+" THEN a[1] + b[1] ELSE a[1] - b[1]>>
eval_const_expr(e, params) ==
    CASE e.k = "num" -> <<e.v>>
      [] e.k = "id" -> IF Len(e.path) = 1 /\ e.path[1].n \in DOMAIN params THEN <<params[e.path[1].n]>> ELSE None
      [] e.k = "op" /\ e.o \in {"+", "-"} /\ Len(e.kids) = 2 ->
           Both(e.o, eval_const_expr(e.kids[1], params), eval_const_expr(e.kids[2], params))
      [] OTHER -> None
const_eval(e) == eval_const_expr(e, Empty)

same_const_expr(a, b) == const_eval(a) # None /\ const_eval(a) = const_eval(b)
same_const_range(a, b) ==
    /\ a.k = "range" /\ b.k = "range"
    /\ same_const_expr(a.l, b.l) /\ same_const_expr(a.r, b.r)

\* `whole_net_ident_name`: the flat name of an expression that is a whole net, rooted or not.
whole_net_ident_name(e) ==
    IF e.k = "id" /\ \A i \in DOMAIN e.path : e.path[i].sels = <<>>
    THEN FlattenSeq([i \in DOMAIN e.path |-> e.path[i].n]) ELSE None

Bare(e) == e.k = "id" /\ e.root = "" /\ Len(e.path) = 1 /\ e.path[1].sels = <<>>

\* `mark_actual_rooted`: every name of e is absolute from now on; a called subroutine and the
\* operators that are not ordinary operators keep theirs.
RECURSIVE mark_actual_rooted(_)
mark_actual_rooted(e) ==
    LET selects == Each(LAMBDA s : Seg(s.n, Each(mark_actual_rooted, s.sels)), e.path)
    IN  CASE e.k = "id" -> IdOf(IF e.root = "" THEN "$root" ELSE e.root, selects)
          [] e.k \in {"op", "sys"} -> [e EXCEPT !.kids = Each(mark_actual_rooted, @)]
          [] e.k = "call" ->
               [e EXCEPT !.kids = Each(mark_actual_rooted, @),
                         !.f = IF @.k = "id" THEN IdOf(@.root, mark_actual_rooted(@).path) ELSE mark_actual_rooted(@)]
          [] e.k = "index" -> Index(mark_actual_rooted(e.e), mark_actual_rooted(e.i))
          [] e.k = "part" -> Part(mark_actual_rooted(e.e), mark_actual_rooted(e.l), mark_actual_rooted(e.r))
          [] e.k = "member" -> Member(mark_actual_rooted(e.e), e.m)
          [] OTHER -> e

\* `root_mark_hier_ca_rhs`: what is assigned to a name of another scope is read where it is written.
RECURSIVE hier_lhs(_)
hier_lhs(e) == CASE e.k = "id" -> Len(e.path) > 1 \/ Len(e.path[1].n) > 1
                 [] e.k \in {"member", "index", "part"} -> hier_lhs(e.e)
                 [] OTHER -> FALSE
root_mark_hier_ca_rhs(lhs, rhs) == IF hier_lhs(lhs) THEN mark_actual_rooted(rhs) ELSE rhs

-----------------------------------------------------------------------------
(* Arrays of interfaces (elaborate/interface_arrays.rs).  An interface     *)
(* binding is an instance and at, the labels it was selected with: none,   *)
(* one element, or a range of elements.                                    *)

Elem(n, i) == [n EXCEPT ![Len(n)] = @ \o "[" \o ToString(i) \o "]"]
Span(l, r) == [i \in 1 .. (IF l <= r THEN r - l ELSE l - r) + 1 |-> IF l <= r THEN l + i - 1 ELSE l - i + 1]

\* Every element of a bound range is bound under the label the port's own declaration gives it.
register_views(ifaces, dims) ==
    LET ranged == {n \in DOMAIN ifaces \cap DOMAIN dims : /\ Len(ifaces[n].at) = 2
                                                       /\ Len(Span(ifaces[n].at[1], ifaces[n].at[2]))
                                                          = Len(Span(dims[n][1], dims[n][2]))}
        entries(n) == LET formal == Span(dims[n][1], dims[n][2])
                          actual == Span(ifaces[n].at[1], ifaces[n].at[2])
                      IN  [l \in {Elem(n, formal[i]) : i \in DOMAIN formal} |->
                              LET i == CHOOSE j \in DOMAIN formal : l = Elem(n, formal[j])
                              IN  [n |-> ifaces[n].n, at |-> <<actual[i]>>, label |-> formal[i]]]
    IN  FoldSet(LAMBDA n, m : entries(n) @@ m, ifaces, ranged)

View(f, a) == [base |-> a.n, fl |-> f[1], fr |-> f[2], al |-> a.at[1], ar |-> a.at[2]]
view(ifaces, n) ==
    IF n \notin DOMAIN ifaces \/ Len(ifaces[n].at) # 2 THEN None
    ELSE LET a == ifaces[n]
             labels(x) == {ifaces[m].label : m \in {d \in DOMAIN ifaces : ifaces[d].n = a.n /\ ifaces[d].at = <<x>>}}
         IN  IF labels(a.at[1]) = {} \/ labels(a.at[2]) = {} THEN None
             ELSE <<View(<<CHOOSE l \in labels(a.at[1]) : TRUE, CHOOSE l \in labels(a.at[2]) : TRUE>>, a)>>
bare_view(ifaces, e) == IF Bare(e) THEN view(ifaces, e.path[1].n) ELSE None

same_direction(v) == (v.fl <= v.fr) = (v.al <= v.ar)
Plus(a, b) == [k |-> "op", o |-> "+", kids |-> <<a, b>>]
Minus(a, b) == [k |-> "op", o |-> "-", kids |-> <<a, b>>]
view_index(v, i) ==
    LET sign == IF same_direction(v) THEN 1 ELSE -1
    IN  IF v.fl = v.fr THEN Num(v.al)
        ELSE IF const_eval(i) # None THEN Num(v.al - sign * v.fl + sign * const_eval(i)[1])
        ELSE IF same_direction(v) THEN Plus(Num(v.al), Minus(i, Num(v.fl)))
        ELSE Minus(Num(v.al), Minus(i, Num(v.fl)))
base_expr(v) == mark_actual_rooted(make_ident_expr(v.base))
element(v, i) == Index(base_expr(v), view_index(v, i))
range(v, l, r) == Part(base_expr(v), view_index(v, l), view_index(v, r))
rewrite_hier(v, path) ==
    IF path[1].sels = <<>>
    THEN FoldLeft(LAMBDA e, s : Indexed(Member(e, s.n), s.sels), range(v, Num(v.fl), Num(v.fr)), Tail(path))
    ELSE IdOf("$root", <<Seg(v.base, <<view_index(v, path[1].sels[1])>> \o Tail(path[1].sels))>> \o Tail(path))

-----------------------------------------------------------------------------
(* Upward names: the scopes of the design are up.children (path -> names), *)
(* up.defs (path -> definition), up.declared (definition -> the scope      *)
(* names in its text) and up.packages.                                     *)

add_instance(up, parent, path, def) ==
    LET leaf == SubSeq(path, Len(parent) + 1, Len(path))
        kids == IF parent \in DOMAIN up.children THEN up.children[parent] ELSE {}
    IN  [up EXCEPT !.children = (parent :> kids \cup {leaf}) @@ @, !.defs = (path :> def) @@ @]
declare(up, def, names) == IF def \in DOMAIN up.declared THEN up ELSE [up EXCEPT !.declared = (def :> names) @@ @]

Declares(up, p, h) == p \in DOMAIN up.defs /\ up.defs[p] \in DOMAIN up.declared /\ h \in up.declared[up.defs[p]]
ChildNamed(up, p, h) == p \in DOMAIN up.children /\ <<h>> \in up.children[p]

\* The scopes from p outward, and what a name headed by h means at the first that knows it.
Outward(p) == [i \in 1 .. Len(p) + 1 |-> SubSeq(p, 1, Len(p) - i + 1)]
Hit(up, cur, p, h) ==
    IF p # None /\ p \in DOMAIN up.defs /\ up.defs[p] = h THEN <<p>>
    ELSE IF p # cur /\ (ChildNamed(up, p, h) \/ Declares(up, p, h)) THEN <<p \o <<h>>>>
    ELSE None
upward_scope_rewrite(c, path) ==
    LET h == path[1].n[1]
        found == SelectSeq(Each(LAMBDA p : Hit(c.up, c.prefix, p, h), Outward(c.prefix)), LAMBDA x : x # None)
    IN  IF \/ Len(path) < 2 \/ path[1].sels # <<>> \/ Len(path[1].n) > 1
           \/ path[1].n \in c.bound \/ path[1].n \in c.up.packages
           \/ Declares(c.up, c.prefix, h) \/ ChildNamed(c.up, c.prefix, h)
           \/ found = <<>>
        THEN None
        ELSE <<IdOf("$root", Each(LAMBDA s : Seg(<<s>>, <<>>), found[1][1]) \o Tail(path))>>

-----------------------------------------------------------------------------
(* Names a construct binds hide the names around it.                       *)

without_declared(names, declared) == names \ declared
with_shadowed(c, names) == [c EXCEPT !.bound = @ \cup names, !.locals = without_declared(@, names),
                                     !.ports = Restrict(@, DOMAIN @ \ names)]

-----------------------------------------------------------------------------
(* Types: a vector or a reference to a named type, with dimensions that    *)
(* are expressions; the types of the members of a struct and the base type *)
(* of an enum are parts.                                                   *)

\* A class the instance declares, known under the path of the instance.
target(c, n) == LET e == c.ports[n]
                IN  IF n \in DOMAIN c.ports /\ Bare(e) /\ e.path[1].n = c.prefix \o n THEN e.path[1].n ELSE n
RECURSIVE class_data_type(_, _)
class_data_type(c, t) ==
    CASE t.k = "ref" -> [t EXCEPT !.n = target(c, @)]
      [] t.k = "parts" -> [t EXCEPT !.parts = Each(LAMBDA p : class_data_type(c, p), @)]
      [] OTHER -> t

\* What a type answers to $bits, $left, ...: known for a type parameter of the instance.
query_of_bound_type_param(c, e) ==
    IF e.query /\ Bare(e.kids[1]) /\ e.kids[1].path[1].n \in DOMAIN c.types
    THEN <<[k |-> "query", t |-> c.types[e.kids[1].path[1].n]]>> ELSE None

-----------------------------------------------------------------------------
(* Expressions.                                                            *)

CollidesNot(c, name, an) == FALSE
\* A substituted name that the body declares too would be found there first.
Collides(c, name, an) ==
    LET key == IF Len(name) > 1 /\ an[1] = name[1] THEN <<Leaf(name)>> ELSE name
    IN  <<Leaf(an)>> # key /\ (<<Leaf(an)>> \in c.locals \/ <<Leaf(an)>> \in DOMAIN c.ports)
Pasted(c, name, e) == IF whole_net_ident_name(e) # None /\ Collides(c, name, whole_net_ident_name(e))
                      THEN mark_actual_rooted(e) ELSE e

\* The selects of a reference over a connection that already selects: an index goes through a
\* part-select, which keeps the labels, and the same part-select twice is one.
GraftSelects(old, new) ==
    IF new = <<>> THEN old
    ELSE IF /\ Len(old) = 1 /\ old[1].k = "range"
            /\ \/ \A i \in DOMAIN new : new[i].k # "range"
               \/ Len(new) = 1 /\ same_const_range(old[1], new[1])
    THEN new ELSE old \o new

Tailed(path) == Len(path) > 1 \/ path[1].sels # <<>>
Graft(m, path) ==
    LET last == m.path[Len(m.path)]
    IN  [m EXCEPT !.path = Front(@) \o <<Seg(last.n, GraftSelects(last.sels, path[1].sels))>> \o Tail(path)]

\* A modport expression stands for a member of an interface instance.
ModportKey(inst, path) == IF Len(path) = 2 /\ path[1].sels = <<>> THEN <<inst \o path[2].n>> ELSE None

RECURSIVE rewrite_expr(_, _), rescope_expr(_, _), rewrite_constraint_item(_, _), rewrite_data_type(_, _),
          rewrite_type(_, _), specialized_receiver(_, _)

Selects(c, sels) == Each(LAMBDA s : rewrite_expr(c, s), sels)

IfaceName(b) == IF Len(b.at) = 1 THEN Elem(b.n, b.at[1]) ELSE b.n
InterfaceRef(c, path) ==
    LET b == c.ifaces[path[1].n]
        v == view(c.ifaces, path[1].n)
        mod == ModportKey(IfaceName(b), path)
    IN  IF v # None THEN rewrite_hier(v[1], Each(LAMBDA s : Seg(s.n, Selects(c, s.sels)), path))
        ELSE IF mod # None /\ mod[1] \in DOMAIN c.modports
        THEN Indexed(c.modports[mod[1]], Selects(c, path[2].sels))
        ELSE IdOf("", <<Seg(IfaceName(b), path[1].sels)>> \o Tail(path))

PortRef(c, path) ==
    LET name == path[1].n
        m == c.ports[name]
        mod == IF whole_net_ident_name(m) = None THEN None ELSE ModportKey(whole_net_ident_name(m), path)
        rooted == Pasted(c, name, m)
    IN  IF mod # None /\ mod[1] \in DOMAIN c.modports
        THEN Indexed(c.modports[mod[1]], Selects(c, path[2].sels))
        ELSE IF ~Tailed(path) THEN rooted
        ELSE IF m.k = "id" THEN Graft([m EXCEPT !.root = rooted.root], path)
        ELSE FoldLeft(LAMBDA e, s : Indexed(Member(e, s.n), Selects(c, s.sels)),
                      Indexed(m, Selects(c, path[1].sels)), Tail(path))

\* `Cfg.VLEN`: a member of a struct parameter is mapped under its dotted name.
Dotted(e) == IF whole_net_ident_name(e) # None /\ Len(e.path) > 1 THEN whole_net_ident_name(e) ELSE None

\* `$unit::x` is a name of its own only where something hides x.
strip_unit_scope_name(c, e) ==
    LET n == e.path[1].n
    IN  IF Len(n) = 2 /\ n[1] = "$unit" /\ n \notin c.locals
        THEN [e EXCEPT !.path[1] = Seg(Tail(n), @.sels)] ELSE e

RewriteIdent(c, e) ==
    LET name == e.path[1].n
        upward == upward_scope_rewrite(c, e.path)
    IN  CASE e.root # "" -> e
          [] e.root = "" /\ name \in DOMAIN c.ifaces -> InterfaceRef(c, e.path)
          [] OTHER ->
               IF Dotted(e) \in DOMAIN c.ports THEN c.ports[Dotted(e)]
               ELSE IF name \in DOMAIN c.ports THEN PortRef(c, e.path)
               ELSE IF name \in c.locals THEN [e EXCEPT !.path[1] = Seg(c.prefix \o name, @.sels)]
               ELSE IF upward # None THEN upward[1] ELSE e

\* A bit of a modport expression that is a part-select is a bit of its base.
RECURSIVE FromModport(_, _)
FromModport(c, e) ==
    LET inst == IF e.k = "id" /\ e.path[1].n \in DOMAIN c.ifaces THEN IfaceName(c.ifaces[e.path[1].n])
                ELSE whole_net_ident_name(rewrite_expr(c, IF e.k = "id" THEN e ELSE e.e))
    IN  CASE e.k = "id" -> /\ e.root = "" /\ ModportKey(inst, e.path) # None
                           /\ ModportKey(inst, e.path)[1] \in DOMAIN c.modports
          [] e.k = "member" -> inst \o e.m \in DOMAIN c.modports
          [] e.k = "part" -> FromModport(c, e.e)
          [] OTHER -> FALSE
FoldedIndex(base, i) ==
    LET low == IF base.l.v <= base.r.v THEN base.l.v ELSE base.r.v
    IN  Index(base.e, IF i.k = "num" THEN Num(low + i.v) ELSE Plus(Num(low), i))
RewriteIndex(c, e) ==
    LET v == bare_view(c.ifaces, e.e)
        base == rewrite_expr(c, e.e)
        i == rewrite_expr(c, e.i)
    IN  IF v # None THEN element(v[1], i)
        ELSE IF FromModport(c, e.e) /\ base.k = "part" /\ base.l.k = "num" /\ base.r.k = "num"
        THEN FoldedIndex(base, i) ELSE Index(base, i)

RewritePart(c, e) ==
    LET v == bare_view(c.ifaces, e.e)
        base == rewrite_expr(c, e.e)
        sel == rewrite_expr(c, [k |-> "range", l |-> e.l, r |-> e.r])
    IN  IF v # None THEN range(v[1], sel.l, sel.r)
        ELSE IF base.k = "part" /\ same_const_expr(base.l, sel.l) /\ same_const_expr(base.r, sel.r) THEN base
        ELSE Part(base, sel.l, sel.r)

RewriteMember(c, e) ==
    LET dotted == IF e.e.k = "id" /\ e.e.root = "" /\ whole_net_ident_name(e.e) # None
                  THEN whole_net_ident_name(e.e) \o e.m ELSE None
        base == rewrite_expr(c, e.e)
        path == Append(base.path, Seg(e.m, <<>>))
        upward == IF base.root = "" THEN upward_scope_rewrite(c, path) ELSE None
    IN  IF dotted \in DOMAIN c.ports THEN c.ports[dotted]
        ELSE IF base.k # "id" THEN Member(base, e.m)
        ELSE IF Bare([base EXCEPT !.root = ""]) /\ base.path[1].n \o e.m \in DOMAIN c.modports
        THEN c.modports[base.path[1].n \o e.m]
        ELSE IF upward # None THEN upward[1] ELSE IdOf(base.root, path)

\* An event formal of a checker carries its edge to the event that names it.
RewriteEvent(c, ev) ==
    LET e == rewrite_expr(c, ev.e)
        marked == ev.edge = "" /\ e.k = "sys" /\ e.edge # "" /\ Len(e.kids) = 1
    IN  [e |-> IF marked THEN e.kids[1] ELSE e, edge |-> IF marked THEN e.edge ELSE ev.edge,
         iff |-> Selects(c, ev.iff)]

RewriteCall(c, e) == IF e.k = "call" THEN [e EXCEPT !.f = rewrite_expr(c, @), !.kids = Selects(c, @)]
                     ELSE IF query_of_bound_type_param(c, e) # None THEN query_of_bound_type_param(c, e)[1]
                     ELSE [e EXCEPT !.kids = Selects(c, @)]

\* Patterns, types, `with` clauses and other forms that hold operands.
RewriteForm(c, e) ==
    CASE e.k = "other" -> [e EXCEPT !.kids = Selects(c, @)]
      [] e.k = "type" -> [e EXCEPT !.t = class_data_type(c, rewrite_data_type(c, @))]
      [] e.k = "typed" -> [e EXCEPT !.t = rewrite_type(c, @), !.e = rewrite_expr(c, @)]
      [] e.k = "with" -> rescope_expr(c, e)
      [] e.k = "randomize" -> [e EXCEPT !.e = rescope_expr(c, @),
                                        !.items = Each(LAMBDA it : rewrite_constraint_item(c, it), @)]
      [] OTHER -> e

rewrite_expr(c, e) ==
    CASE e.k = "id" -> RewriteIdent(c, strip_unit_scope_name(c, e))
      [] e.k = "op" -> [e EXCEPT !.kids = Selects(c, @)]
      [] e.k = "range" -> [e EXCEPT !.l = rewrite_expr(c, @), !.r = rewrite_expr(c, @)]
      [] e.k = "index" -> RewriteIndex(c, e)
      [] e.k = "part" -> RewritePart(c, e)
      [] e.k = "spec" -> [e EXCEPT !.e = specialized_receiver(c, @)]
      [] e.k = "member" -> RewriteMember(c, e)
      [] e.k \in {"call", "sys"} -> RewriteCall(c, e)
      [] e.k = "clocked" -> [e EXCEPT !.events = Each(LAMBDA ev : RewriteEvent(c, ev), @),
                                      !.body = rewrite_expr(c, @)]
      [] OTHER -> RewriteForm(c, e)

\* The owner of a specialized class keeps its shape.
specialized_receiver(c, e) == IF e.k = "member" THEN Member(specialized_receiver(c, e.e), e.m) ELSE rewrite_expr(c, e)

\* `rescope_expr`: only names change; a member access stays one.
IterArg(e) == IF e.k = "call" /\ Len(e.kids) = 1 /\ Bare(e.kids[1]) THEN e.kids[1].path[1].n ELSE None
rescope_expr(c, e) ==
    LET R(x) == rescope_expr(c, x)
        mapped == e.root = "" /\ e.path[1].n \in DOMAIN c.ports
        sels == IF mapped THEN e.path ELSE Each(LAMBDA s : Seg(s.n, Each(R, s.sels)), e.path)
        local == IF sels[1].n \in c.locals THEN [sels EXCEPT ![1] = Seg(c.prefix \o @.n, @.sels)] ELSE sels
        iter == IterArg(e.e)
    IN  CASE e.k = "id" -> IF e.root = "local" THEN IdOf("local", local) ELSE rewrite_expr(c, IdOf(e.root, sels))
          [] e.k = "member" -> Member(R(e.e), e.m)
          [] e.k = "index" -> Index(R(e.e), R(e.i))
          [] e.k = "part" -> Part(R(e.e), R(e.l), R(e.r))
          [] e.k = "range" -> [e EXCEPT !.l = R(@), !.r = R(@)]
          [] e.k = "op" -> [e EXCEPT !.kids = Each(R, @)]
          [] e.k = "call" -> [e EXCEPT !.f = R(@), !.kids = Each(R, @)]
          [] e.k = "sys" /\ query_of_bound_type_param(c, e) = None -> [e EXCEPT !.kids = Each(R, @)]
          [] e.k = "with" ->
               [e EXCEPT !.e = IF iter # None THEN [@ EXCEPT !.f = R(@)] ELSE R(@),
                         !.filter = rescope_expr(with_shadowed(c, {IF iter # None THEN iter ELSE <<"item">>}), @)]
          [] OTHER -> rewrite_expr(c, e)

\* A constraint of `randomize() with`: expressions, items, and the names a foreach binds; the
\* names a solve orders are names, not expressions.
rewrite_constraint_item(c, it) ==
    [it EXCEPT !.es = Each(LAMBDA x : rescope_expr(c, x), @),
               !.items = Each(LAMBDA x : rewrite_constraint_item(with_shadowed(c, it.vars), x), @),
               !.solve = Each(LAMBDA n : IF n \in c.locals \ DOMAIN c.ports THEN c.prefix \o n ELSE n, @)]

\* `rewrite_data_type_scoped`: the bounds of a type are expressions of the body.
rewrite_data_type(c, t) ==
    CASE t.k = "parts" -> [t EXCEPT !.parts = Each(LAMBDA p : rewrite_data_type(c, p), @)]
      [] OTHER -> [t EXCEPT !.dims = Selects(c, @)]

\* `rewrite_typed_pattern_type`: a type parameter, a type of the instance, or a type with bounds.
rewrite_type(c, t) ==
    IF t.k = "ref" /\ t.dims = <<>> /\ t.n \in DOMAIN c.types THEN c.types[t.n]
    ELSE IF t.k = "ref" /\ t.dims = <<>> /\ c.prefix # None /\ t.n \in c.locals
    THEN [t EXCEPT !.n = c.prefix \o @]
    ELSE class_data_type(c, rewrite_data_type(c, t))

-----------------------------------------------------------------------------
(* Statements: es, the expressions a statement evaluates where it stands;  *)
(* events, what it waits for (e, edge, iff);                               *)
(* body, its statements, which include the condition and the step of a     *)
(* loop and are under the names it binds (vars, of a for or foreach); in a *)
(* block a declaration (decls, its names; t, its type) hides names from    *)
(* what follows it; name, what an event trigger or a disable refers to.    *)

Stmt == [k |-> "plain", es |-> <<>>, events |-> <<>>, vars |-> {}, body |-> <<>>, decls |-> <<>>, t |-> None,
         label |-> None, name |-> None]

DeclaredNames(stmts) == UNION {Range(stmts[i].decls) : i \in DOMAIN stmts}
stmt_list_declared_names(stmts) == DeclaredNames(stmts)

RECURSIVE rewrite_stmt(_, _), rewrite_stmt_list_scoped(_, _)
\* An empty prefix is a renaming of the declarations themselves, which does not stop at them.
AfterDecl(c, names) == [c EXCEPT !.locals = without_declared(@, names),
                                 !.ports = IF c.prefix = None THEN @ ELSE Restrict(@, DOMAIN @ \ names)]
rewrite_stmt_list_scoped(c, stmts) ==
    LET c0 == [c EXCEPT !.bound = @ \cup DeclaredNames(stmts)]
        step(acc, s) == [out |-> Append(acc.out, rewrite_stmt(acc.c, s)), c |-> AfterDecl(acc.c, Range(s.decls))]
    IN  FoldLeft(step, [out |-> <<>>, c |-> c0], stmts).out

EventName(c, n) == IF n \in DOMAIN c.ports
                   THEN IF whole_net_ident_name(c.ports[n]) # None THEN whole_net_ident_name(c.ports[n]) ELSE n
                   ELSE IF n \in c.locals THEN c.prefix \o n ELSE n
Disabled(c, n) == IF n \in DOMAIN c.ports /\ Bare(c.ports[n]) THEN c.ports[n].path[1].n ELSE n

rewrite_event_control(c, ev) == [ev EXCEPT !.e = rewrite_expr(c, @), !.iff = Selects(c, @)]
Under(c, s, b) == rewrite_stmt(with_shadowed(c, s.vars), b)
StmtBody(c, s) == IF s.k = "block" THEN rewrite_stmt_list_scoped(c, s.body) ELSE Each(LAMBDA b : Under(c, s, b), s.body)
StmtType(c, t) == IF t = None THEN t ELSE class_data_type(c, t)
StmtName(c, s) == CASE s.name = None -> None
                    [] s.k = "trigger" -> EventName(c, s.name)
                    [] s.k = "disable" -> Disabled(c, s.name)
rewrite_stmt(c, s) ==
    [s EXCEPT !.es = Selects(c, @), !.events = Each(LAMBDA ev : rewrite_event_control(c, ev), @),
              !.body = StmtBody(c, s), !.t = StmtType(c, @), !.name = StmtName(c, s)]

\* `substitute_type_params_stmt`: declarations of a type parameter's type.
RECURSIVE substitute_type_params_stmt(_, _)
substitute_type_params_stmt(s, binds) ==
    [s EXCEPT !.t = IF @ # None /\ @.k = "ref" /\ @.dims = <<>> /\ @.n \in DOMAIN binds THEN binds[@.n] ELSE @,
              !.body = Each(LAMBDA b : substitute_type_params_stmt(b, binds), @)]

-----------------------------------------------------------------------------
(* A process's own locals that hide a name of the module are renamed       *)
(* before the process is flattened.                                        *)

RECURSIVE nested_redeclares(_), declarations(_, _, _, _)
nested_redeclares(s) == Range(s.decls) \cup UNION {nested_redeclares(s.body[i]) : i \in DOMAIN s.body}
declarations(c, s, map, own) ==
    [s EXCEPT !.t = IF @ = None THEN @ ELSE rewrite_data_type(c, @),
              !.decls = IF own THEN Each(LAMBDA n : IF n \in DOMAIN map THEN map[n].path[1].n ELSE n, @) ELSE @,
              !.body = Each(LAMBDA b : declarations(c, b, map, FALSE), @)]
rename_process_shadowed_locals(c0, s, module_names, salt) ==
    LET nested == UNION {nested_redeclares(s.body[i]) : i \in {j \in DOMAIN s.body : s.body[j].k # "decl"}}
        renamed == (DeclaredNames(s.body) \cap module_names) \ nested
        fresh(n) == IF s.label # None THEN s.label \o n ELSE <<n[1] \o "__shadow_" \o salt>>
        map == [n \in renamed |-> make_ident_expr(fresh(n))]
        c == [c0 EXCEPT !.prefix = None, !.ports = map, !.locals = {}]
        out == rewrite_stmt(c, s)
    IN  IF s.k # "block" \/ renamed = {} THEN s
        ELSE [out EXCEPT !.body = Each(LAMBDA b : declarations(c, b, map, TRUE), @)]
=============================================================================
