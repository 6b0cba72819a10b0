-------------------------------- MODULE Inline --------------------------------
(***************************************************************************)
(* Inlining (src/elaborate.rs, inline_module_items): a design of           *)
(* definitions and instances becomes one flat module.  Every instance gets *)
(* the path of its names in front of what its definition declares, every   *)
(* port a connection, and the text of the definition is moved under the    *)
(* path: subroutines, named properties and final blocks at once, processes *)
(* and assignments when they are asked for (PendingAlways,                 *)
(* PendingContAssign), each with the context its instance left.  A port    *)
(* that is only read and has the shape of what it is connected to is       *)
(* replaced by it in the body, and its own net may be left out.            *)
(*                                                                         *)
(* A definition has a name, a kind, ports (n, dir, shape, default, plain,  *)
(* and arr for an array of interfaces), params, items, the modport names   *)
(* and the modports expressions of an interface, types (type parameters)   *)
(* and pull, the value an unconnected input takes.                         *)
(***************************************************************************)
EXTENDS NetMeaning

CONSTANTS Designs, MaxDepth, MaxPasses

ASSUME InlineAssumption == MaxDepth \in Nat /\ MaxPasses \in Nat \ {0} /\ Designs # {}

VARIABLES
    design,     \* the definitions, the top, elide: whether ports may be left out, and the binds of the unit
    stack,      \* the instances whose children are being inlined, innermost first
    prepared,   \* <<definition, parameters>> -> its items, opened (InlineCache::prepared)
    nets,       \* flat name -> shape
    implicit,   \* the nets no declaration declares
    conns,      \* the connections of ports, continuous assignments
    pending,    \* lane -> the items whose text is still to be moved
    out,        \* the items whose text has been moved
    up,         \* the scopes of the design (upward_scopes)
    modports,   \* MODPORT_EXPR_TLS
    elided,     \* the nets of ports that were left out
    insts,      \* path -> the instance
    dotted,     \* the names no elided port may have (PORT_ELISION_DOTTED)
    bind_sites, \* the bind directives of the hierarchy so far, each with the scope it is in
    resolved,   \* path -> the directives that bind an instance there (resolved_binds)
    pass,       \* how often the design has been inlined before
    phase       \* "top", "inlining", "inlined", "flat", then "running", or the error that ended it

vars == <<design, stack, prepared, nets, implicit, conns, pending, out, up, modports, elided, insts, dotted,
          bind_sites, resolved, pass, phase>>
bindVars == <<bind_sites, resolved, pass>>

Lanes == {"process", "assign"}

-----------------------------------------------------------------------------
(* A definition's items, opened, and what they declare and drive.          *)

RECURSIVE collect_implicit_net_candidates(_), lvalue_base_names(_), Driven(_)
collect_implicit_net_candidates(e) ==
    IF Bare(e) THEN {e.path[1].n}
    ELSE IF e.k = "op" THEN UNION {collect_implicit_net_candidates(x) : x \in Range(e.kids)} ELSE {}
lvalue_base_names(e) ==
    CASE e.k = "id" -> {e.path[1].n}
      [] e.k \in {"index", "part", "member"} -> lvalue_base_names(e.e)
      [] e.k = "op" /\ e.o = "{}" -> UNION {lvalue_base_names(x) : x \in Range(e.kids)}
      [] OTHER -> {}
\* The first expression of an assignment is its target.
Driven(s) == (IF s.k = "assign" THEN lvalue_base_names(s.es[1]) ELSE {}) \cup UNION {Driven(b) : b \in Range(s.body)}
collect_driven_in_stmt(stmts) == UNION {Driven(s) : s \in Range(stmts)}

PortFor(def, j, cn) == IF cn.how = "ordered" THEN def.ports[j] ELSE PortOf(def, cn.n)
collect_body_driven_names(defs, items) ==
    UNION {CASE it.k = "assign" -> lvalue_base_names(it.es[1])
             [] it.k \in {"process", "final"} -> collect_driven_in_stmt(it.body)
             [] it.k = "inst" /\ it.def \in DOMAIN defs ->
                  UNION {lvalue_base_names(it.conns[j].e) :
                             j \in {x \in DOMAIN it.conns : /\ it.conns[x].how \in {"named", "ordered"}
                                                            /\ PortFor(defs[it.def], x, it.conns[x]).dir # "input"}}
             [] OTHER -> {} : it \in Range(items)}

ConnExprs(it) == {cn.e : cn \in {x \in Range(it.conns) : x.how \in {"named", "ordered"}}}
local_names(def, items) ==
    DOMAIN def.params \cup PortNames(def)
    \cup UNION {CASE it.k \in {"data", "sub", "prop", "typedef"} -> Range(it.names)
                  [] it.k = "process" -> UNION {BlockLabels(s) : s \in Range(it.body)}
                  [] it.k = "inst" -> Range(it.names)
                                      \cup UNION {collect_implicit_net_candidates(e) : e \in ConnExprs(it)}
                  [] it.k = "assign" -> collect_implicit_net_candidates(it.es[1])
                  [] it.k = "specify" -> UNION {collect_implicit_net_candidates(e) : e \in Range(it.es)}
                  [] OTHER -> {} : it \in Range(items)}

PreparedOf(defs, def, items) ==
    [items |-> items, locals |-> local_names(def, items),
     driven |-> collect_body_driven_names(defs, items) \cap PortNames(def)]
prepare_module_items(d, name, params) ==
    PreparedOf(d.defs, d.defs[name], collect_effective_items(d.defs[name].items, params))

-----------------------------------------------------------------------------
(* Arrays of instances: each element takes its part of an actual that is   *)
(* as wide as all of them, the rightmost the lowest.                       *)

RECURSIVE ai_conn_expr_width(_, _), ai_slice_expr(_, _, _, _), ai_slice_parts(_, _, _, _, _)
ai_conn_expr_width(widths, e) ==
    CASE e.k = "id" -> IF whole_net_ident_name(e) \in DOMAIN widths THEN widths[whole_net_ident_name(e)] ELSE 0
      [] e.k = "part" -> Count(Label(e.l), Label(e.r))
      [] e.k = "index" -> 1
      [] e.k = "op" /\ e.o = "{}" -> FoldLeft(LAMBDA n, x : n + ai_conn_expr_width(widths, x), 0, e.kids)
      [] OTHER -> 0
ai_slice_parts(widths, parts, cursor, off, n) ==
    IF parts = <<>> THEN <<>>
    ELSE LET w == ai_conn_expr_width(widths, Last(parts))
             from == IF off > cursor THEN off ELSE cursor
             to == IF off + n < cursor + w THEN off + n ELSE cursor + w
         IN  ai_slice_parts(widths, Front(parts), cursor + w, off, n)
             \o (IF from < to THEN <<ai_slice_expr(widths, Last(parts), from - cursor, to - from)>> ELSE <<>>)
ai_slice_expr(widths, e, off, n) ==
    IF e.k = "op" /\ e.o = "{}"
    THEN LET parts == ai_slice_parts(widths, e.kids, 0, off, n)
         IN  IF Len(parts) = 1 THEN parts[1] ELSE [e EXCEPT !.kids = parts]
    ELSE LET dir == IF e.k = "part" /\ Label(e.l) < Label(e.r) THEN -1 ELSE 1
             low == IF e.k = "part" THEN Label(e.r) + dir * off ELSE off
             base == IF e.k = "part" THEN e.e ELSE e
         IN  IF n = 1 THEN Index(base, Num(low)) ELSE Part(base, Num(low + dir * (n - 1)), Num(low))
ai_slice_conn(widths, cn, p, k, n) ==
    IF cn.how \in {"named", "ordered"} /\ ai_conn_expr_width(widths, cn.e) = p * n /\ n # 1
    THEN [cn EXCEPT !.e = ai_slice_expr(widths, @, p * k, p)] ELSE cn

\* The instances one item declares, in the order of their labels.
Hier(it, idx, n, conns_, slot) == [idx |-> idx, n |-> n, def |-> it.def, conns |-> conns_, slot |-> slot, over |-> it.over]
ai_expand_instances(defs, widths, it, idx) ==
    IF it.dims = <<>> \/ it.def \notin DOMAIN defs THEN <<Hier(it, idx, it.names[1], it.conns, None)>>
    ELSE LET l == it.dims[1]
             r == it.dims[2]
             n == Count(l, r)
             slot(x) == IF l >= r THEN x - r ELSE r - x
             sliced(x) == [j \in DOMAIN it.conns |->
                              ai_slice_conn(widths, it.conns[j], Size(PortFor(defs[it.def], j, it.conns[j]).shape), slot(x), n)]
         IN  [i \in 1 .. n |-> LET x == (IF l <= r THEN l ELSE r) + i - 1
                               IN  Hier(it, idx, Elem(it.names[1], x), sliced(x), <<slot(x), n>>)]

Widths(def, items) ==
    FoldLeft(LAMBDA f, it : IF it.k = "data" THEN [x \in Range(it.names) |-> Size(it.shape)] @@ f ELSE f,
             [p \in PortNames(def) |-> Size(PortOf(def, p).shape)], items)
Todo(d, name, prep) ==
    FlattenSeq([i \in DOMAIN prep.items |->
        IF prep.items[i].k = "inst"
        THEN ai_expand_instances(d.defs, Widths(d.defs[name], prep.items), prep.items[i], i) ELSE <<>>])

-----------------------------------------------------------------------------
(* Bind directives.  The instances they ask for are known only when the    *)
(* hierarchy is: a design is inlined, the directives met on the way are    *)
(* resolved in it, and if one has a new target the design is inlined again *)
(* with the instances bound so far (resolve_instance_binds of src/lib.rs). *)

SitesOf(path, items) ==
    Each(LAMBDA it : [scope |-> path \o it.scope, b |-> it, unit |-> FALSE], SelectSeq(items, LAMBDA it : it.k = "bind"))
Sites == bind_sites \o Each(LAMBDA b : [scope |-> None, b |-> b, unit |-> TRUE], design.binds)

\* What a label of a target may name: the parameters of the scopes around the directive, the
\* nearest first, or those of the compilation unit.
ParamsAt(p) == IF p \in DOMAIN insts THEN insts[p].params ELSE Empty
BindConstants(site) == IF site.unit THEN design.params
                       ELSE FoldLeft(LAMBDA env, p : env @@ ParamsAt(p), Empty, Outward(site.scope))
LabelAt(site, x) == eval_const_expr(x, BindConstants(site))
Joined_(site, e) == FlattenSeq(Each(LAMBDA s : FoldLeft(LAMBDA n, x : Elem(n, LabelAt(site, x)[1]), s.n, s.sels), e.path))
Nonconstant(site) == \E e \in Range(site.b.bind.at) : \E s \in Range(e.path) : \E x \in Range(s.sels) : LabelAt(site, x) = None

FirstHost(paths) == LET found == SelectSeq(paths, LAMBDA p : p \in DOMAIN insts) IN IF found = <<>> THEN {} ELSE {found[1]}
OutermostFirst(site, j, root) ==
    (IF j = <<design.top>> THEN <<None>> ELSE <<>>)
    \o (IF Len(j) > 1 /\ Head(j) = design.top THEN <<Tail(j)>> ELSE <<>>)
    \o (IF root THEN <<j>> ELSE Each(LAMBDA p : p \o j, Reverse(Outward(site.scope))))
\* Where a path may lead: from the top by its name, from $root, or from the scopes around.
Candidates(site, j, root) ==
    (IF j = <<design.top>> THEN <<None>> ELSE <<>>)
    \o (IF Len(j) > 1 /\ Head(j) = design.top THEN <<Tail(j)>> ELSE <<>>)
    \o (IF root THEN <<j>> ELSE Each(LAMBDA p : p \o j, Outward(site.scope)))
PathTargets(site) == UNION {FirstHost(Candidates(site, Joined_(site, e), e.root = "$root")) : e \in Range(site.b.bind.at)}
\* One identifier names an instance before it names a definition.
NameTargets(site) ==
    LET n == site.b.bind.type
        near == FirstHost(Each(LAMBDA p : p \o n, Outward(site.scope)))
    IN  IF near # {} THEN near ELSE {p \in DOMAIN insts : <<insts[p].def.name>> = n}
TargetsOf(site) == IF site.b.bind.at = <<>> THEN NameTargets(site) ELSE PathTargets(site)

AlreadyBound(bs, b) == \E x \in Range(bs) : x.bind.id = b.bind.id /\ x.scope = b.scope
Bind(rs, site) ==
    LET at(p) == IF p \in DOMAIN rs THEN rs[p] ELSE <<>>
    IN  [p \in {q \in TargetsOf(site) : ~AlreadyBound(at(q), site.b)} |-> Append(at(p), site.b)] @@ rs
resolve_instance_binds == FoldLeft(Bind, resolved, Sites)

\* A definition as it is at a path: the instances bound there stand at its end, and the nets
\* they name are names of it.
Instantiation(b) == [Item EXCEPT !.k = "inst", !.names = <<b.bind.n>>, !.def = b.def, !.conns = b.conns, !.over = b.over]
BoundAt(path) == IF path \in DOMAIN resolved THEN Each(Instantiation, Reverse(resolved[path])) ELSE <<>>
WithBound(prep, path) ==
    [prep EXCEPT !.items = @ \o BoundAt(path),
                 !.locals = @ \cup UNION {UNION {collect_implicit_net_candidates(e) : e \in ConnExprs(it)} : it \in Range(BoundAt(path))}]

-----------------------------------------------------------------------------
(* Entering a definition: its scopes are declared, its modport expressions *)
(* registered, its instances are to be inlined.                            *)

interface_signal_names(def) ==
    PortNames(def) \cup UNION {Range(it.names) : it \in {x \in Range(def.items) : x.k = "data"}}
RewriteModport(path, def, e) == rewrite_expr([Ctx EXCEPT !.prefix = path, !.locals = interface_signal_names(def)], e)
ModportsOf(d, path, it) ==
    IF it.k = "inst" /\ it.def \in DOMAIN d.defs /\ d.defs[it.def].kind = "interface"
    THEN [m \in {path \o it.names[1] \o n : n \in DOMAIN d.defs[it.def].modports} |->
              RewriteModport(path \o it.names[1], d.defs[it.def], d.defs[it.def].modports[<<Leaf(m)>>])]
    ELSE Empty
register_modport_expressions(d, path, name) ==
    FoldLeft(LAMBDA f, it : ModportsOf(d, path, it) @@ f, modports, d.defs[name].items)

Frame(d, path, name, params, prep, ports, ifaces) ==
    [path |-> path, def |-> name, params |-> params, ports |-> ports, ifaces |-> ifaces, todo |-> Todo(d, name, prep)]
CtxOf(f, prep) == [Ctx EXCEPT !.prefix = f.path, !.ports = f.ports, !.locals = prep.locals, !.ifaces = f.ifaces,
                              !.modports = modports, !.up = up]

-----------------------------------------------------------------------------
(* The actuals of an instance.                                             *)

Named(hi) == \E c \in Range(hi.conns) : c.how \in {"named", "implicit", "open", "wild"}
Explicit(hi, p) == {c \in Range(hi.conns) : c.how \in {"named", "implicit", "open"} /\ c.n = p}
\* How the j-th port is connected: by name, by the name it has itself, by its place, or not.
ConnOf(hi, def, j) ==
    LET p == def.ports[j].n
    IN  IF Named(hi)
        THEN IF Explicit(hi, p) # {} THEN (CHOOSE c \in Explicit(hi, p) : TRUE)
             ELSE [how |-> IF \E c \in Range(hi.conns) : c.how = "wild" THEN "implicit" ELSE "open", n |-> p, e |-> NoExpr]
        ELSE IF j \in DOMAIN hi.conns THEN hi.conns[j] ELSE [how |-> "open", n |-> p, e |-> NoExpr]

\* `resolve_upward_module_name`: an actual may name an instance around it by its definition.
Chain(d, path) == SelectSeq(Outward(path), LAMBDA p : p # None /\ p \in DOMAIN up.defs)
resolve_upward_module_name(d, c, e) ==
    LET h == e.path[1].n
        at == SelectSeq(Chain(d, c.prefix), LAMBDA p : <<up.defs[p]>> = h)
    IN  IF \/ e.k # "id" \/ e.root # "" \/ Len(e.path) < 2 \/ e.path[1].sels # <<>>
           \/ h \in c.locals \cup DOMAIN c.ports \cup DOMAIN c.ifaces \cup up.packages
           \/ c.prefix \o h \in DOMAIN insts \/ at = <<>>
        THEN e ELSE IdOf("$root", Each(LAMBDA s : Seg(<<s>>, <<>>), at[1]) \o Tail(e.path))
Rooted(e) == IF whole_net_ident_name(e) = None THEN mark_actual_rooted(e) ELSE e
Placed(d, c, cn, e) ==
    CASE cn.how = "named" -> Rooted(resolve_upward_module_name(d, c, e))
      [] cn.how = "ordered" -> Rooted(e)
      [] OTHER -> e
Actual(d, c, cn, p) ==
    Placed(d, c, cn, rewrite_expr(c, IF cn.how \in {"named", "ordered"} THEN cn.e ELSE make_ident_expr(p)))

Fill(v) == [k |-> "fill", v |-> v]
\* An input that is left open takes its default, else the pulled value, if there is one.
port_map(d, c, hi, def, params) ==
    LET conn(j) == ConnOf(hi, def, j)
        bound == {j \in DOMAIN def.ports : def.ports[j].dir # "iface" /\ conn(j).how # "open"}
        open == {j \in DOMAIN def.ports : /\ def.ports[j].dir = "input" /\ conn(j).how = "open"
                                          /\ (def.ports[j].default # None \/ def.pull # None)}
        at(n) == CHOOSE j \in DOMAIN def.ports : def.ports[j].n = n
    IN  [n \in {def.ports[j].n : j \in bound \cup open} |->
            IF at(n) \in bound THEN Actual(d, c, conn(at(n)), n)
            ELSE IF def.ports[at(n)].default # None THEN Num(Value(def.ports[at(n)].default[1], params))
            ELSE Fill(def.pull[1])]

\* `strip_modport_suffix`: the last name of an interface actual may be a modport of some interface.
Modports(d) == UNION {d.defs[n].views : n \in DOMAIN d.defs}
iface_conn_path(d, e) ==
    CASE e.k = "part" -> [n |-> whole_net_ident_name(e.e), at |-> <<Label(e.l), Label(e.r)>>, label |-> 0]
      [] e.k = "index" -> [n |-> whole_net_ident_name(e.e), at |-> <<Label(e.i)>>, label |-> 0]
      [] OTHER ->
           LET path == IF Len(e.path) > 1 /\ Last(e.path).n \in Modports(d) THEN Front(e.path) ELSE e.path
           IN  [n |-> NameTo(path, Len(path)), at |-> Each(Label, Last(path).sels), label |-> 0]
qualify_sibling_conn(b, prefix, siblings) ==
    IF prefix # None /\ <<b.n[1]>> \in siblings THEN [b EXCEPT !.n = prefix \o @] ELSE b
sub_interface_map(d, c, hi, def, siblings) ==
    LET conn(j) == ConnOf(hi, def, j)
        bound == {j \in DOMAIN def.ports : def.ports[j].dir = "iface" /\ conn(j).how # "open"}
        at(n) == CHOOSE j \in bound : def.ports[j].n = n
        whole(e, n) == [n |-> IF whole_net_ident_name(e) # None THEN whole_net_ident_name(e) ELSE c.prefix \o n,
                        at |-> <<>>, label |-> 0]
        from(cn, n, e) == IF cn.how = "implicit" THEN whole(e, n)
                          ELSE qualify_sibling_conn(iface_conn_path(d, e), c.prefix, siblings)
        binding(j, n) == from(conn(j), n, Actual(d, c, conn(j), n))
        dims == [n \in {def.ports[j].n : j \in {x \in bound : def.ports[x].arr # None}} |-> def.ports[at(n)].arr]
    IN  register_views([n \in {def.ports[j].n : j \in bound} |-> binding(at(n), n)], dims)

-----------------------------------------------------------------------------
(* The nets of an instance.                                                *)

collect_port_connection_net_candidates(items) ==
    UNION {UNION {collect_implicit_net_candidates(e) : e \in ConnExprs(it)} : it \in {x \in Range(items) : x.k = "inst"}}
Declared(path, def, params, items) ==
    LET put(f, it) == IF it.k = "data" THEN [x \in {path \o n : n \in Range(it.names)} |-> it.shape] @@ f ELSE f
    IN  FoldLeft(put, [x \in {path \o n : n \in PortNames(def) \cup DOMAIN params} |->
                          LET n == SubSeq(x, Len(path) + 1, Len(x))
                          IN  IF n \in PortNames(def) THEN PortOf(def, n).shape ELSE Constant(params[n])], items)
\* A name that only a connection mentions is a net of one bit, unless it is one of the ports.
ImplicitNets(path, def, items, declared) ==
    {path \o n : n \in (collect_port_connection_net_candidates(def.items)
                        \ (PortNames(def) \cup UNION {Range(it.names) : it \in Range(items)}))} \ DOMAIN declared

-----------------------------------------------------------------------------
(* The connections.                                                        *)

Assign(lhs, rhs, in, scope) == [lhs |-> lhs, rhs |-> rhs, in |-> in, scope |-> scope]

\* `port_conn_width`: None when the width cannot be told.
RECURSIVE port_conn_width(_, _)
port_conn_width(ns, e) ==
    LET base == IF e.k \in {"index", "part"} /\ e.e.k = "id" THEN NameTo(e.e.path, Len(e.e.path)) ELSE None
        parts == Each(LAMBDA x : port_conn_width(ns, x), e.kids)
    IN  CASE e.k = "id" -> IF whole_net_ident_name(e) \in DOMAIN ns THEN <<Size(ns[whole_net_ident_name(e)])>> ELSE None
          [] e.k = "index" -> IF base \in DOMAIN ns THEN <<ns[base].ew>> ELSE None
          [] e.k = "part" /\ const_eval(e.l) # None /\ const_eval(e.r) # None ->
               <<Count(Label(e.l), Label(e.r)) * (IF base \in DOMAIN ns THEN ns[base].ew ELSE 1)>>
          [] e.k = "op" /\ e.o = "{}" ->
               IF \E i \in DOMAIN parts : parts[i] = None THEN None ELSE <<FoldLeft(LAMBDA n, x : n + x[1], 0, parts)>>
          [] OTHER -> None

\* The elements of an array on either side of a connection, each in its declared order.
unpacked_connection_elements(ns, e) ==
    LET n == whole_net_ident_name(IF e.k = "part" THEN e.e ELSE e)
        span == IF e.k = "part" THEN Span(Label(e.l), Label(e.r)) ELSE Span(ns[n].l, ns[n].r)
    IN  IF e.k \notin {"id", "part"} \/ n = None THEN None
        ELSE IF n \notin DOMAIN ns \/ ~ns[n].arr THEN None
        ELSE Each(LAMBDA x : Index(make_ident_expr(n), Num(x)), span)
PairsByLabel(ns, formal, actual) ==
    Each(LAMBDA f : <<f, Index(actual, f.i)>>, unpacked_connection_elements(ns, make_ident_expr(formal)))
ElementPairs(ns, formal, actual) ==
    LET f == unpacked_connection_elements(ns, make_ident_expr(formal))
        a == unpacked_connection_elements(ns, actual)
    IN  IF a # None /\ Len(a) = Len(f) THEN [i \in DOMAIN f |-> <<f[i], a[i]>>]
        ELSE [i \in DOMAIN f |-> <<f[i], Index(actual, f[i].i)>>]

Narrower(ns, formal, actual) ==
    port_conn_width(ns, actual) # None /\ port_conn_width(ns, actual)[1] < Size(ns[formal])
\* The bits of an inout that a narrower actual does not reach stay undriven.
WithUndriven(ns, port, formal, actual) ==
    IF port.dir = "inout" /\ Narrower(ns, formal, actual)
    THEN [k |-> "op", o |-> "{}", kids |-> <<[k |-> "undriven", n |-> Size(ns[formal]) - port_conn_width(ns, actual)[1]], actual>>]
    ELSE actual
ConnectionsOf(ns, c, path, port, actual) ==
    LET formal == path \o port.n
        pairs == IF ns[formal].arr THEN ElementPairs(ns, formal, actual) ELSE <<<<make_ident_expr(formal), actual>>>>
    IN  {IF port.dir = "output" THEN Assign(pr[2], pr[1], FALSE, c.prefix)
         ELSE Assign(pr[1], WithUndriven(ns, port, formal, pr[2]), TRUE, c.prefix) : pr \in Range(pairs)}

\* A port on a net takes the net's delay.
RECURSIVE is_net_lvalue(_, _)
is_net_lvalue(ns, e) ==
    CASE e.k = "op" -> e.o = "{}" /\ \A x \in Range(e.kids) : is_net_lvalue(ns, x)
      [] e.k \in {"index", "part"} -> is_net_lvalue(ns, e.e)
      [] e.k = "id" -> whole_net_ident_name(e) \in DOMAIN ns /\ ~ns[whole_net_ident_name(e)].var
      [] OTHER -> FALSE
Undelayed(ns, path, pm) ==
    [x \in DOMAIN ns |-> IF \E n \in DOMAIN pm : x = path \o n /\ is_net_lvalue(ns, pm[n])
                         THEN [ns[x] EXCEPT !.delay = FALSE] ELSE ns[x]]

-----------------------------------------------------------------------------
(* Which ports the body reads as their actuals.                            *)

RECURSIVE port_actual_is_simple(_), RootOf(_)
port_actual_is_simple(e) ==
    CASE e.k \in {"num", "fill"} -> TRUE
      [] e.k = "id" -> \A s \in Range(e.path) : \A x \in Range(s.sels) :
                           IF x.k = "range" THEN const_eval(x.l) # None /\ const_eval(x.r) # None ELSE const_eval(x) # None
      [] e.k = "index" -> port_actual_is_simple(e.e) /\ const_eval(e.i) # None
      [] e.k = "part" -> port_actual_is_simple(e.e) /\ const_eval(e.l) # None /\ const_eval(e.r) # None
      [] e.k = "member" -> port_actual_is_simple(e.e)
      [] e.k = "op" -> e.o = "{}" /\ \A x \in Range(e.kids) : port_actual_is_simple(x)
      [] OTHER -> FALSE
RootOf(e) == IF e.k \in {"index", "part"} THEN RootOf(e.e) ELSE e

\* Labels other than [N:0], or elements of several bits (packed_full_dims).
HasDims(s) == s.r # 0 \/ s.l < 0 \/ s.ew > 1
Labelled(s) == s.r # 0 \/ s.l < 0
Layout(s) == DOMAIN s.fields # {} \/ s.ew > 1
OtherLabels(ns, s, actual) ==
    \/ Labelled(s)
    \/ /\ ~HasDims(s)
       /\ whole_net_ident_name(actual) \in DOMAIN ns /\ HasDims(ns[whole_net_ident_name(actual)])
OtherWidth(ns, s, actual) == port_conn_width(ns, actual) # None /\ port_conn_width(ns, actual) # <<Size(s)>>
Unlaid(ns, s, actual) ==
    /\ DOMAIN s.fields # {} /\ s.ew = 1
    /\ ~(whole_net_ident_name(RootOf(actual)) \in DOMAIN ns /\ Layout(ns[whole_net_ident_name(RootOf(actual))]))
KeepsNet(ns, s, actual) ==
    \/ s.delay \/ ~port_actual_is_simple(actual) \/ s.ew > 1 \/ OtherLabels(ns, s, actual)
    \/ actual.k = "fill" \/ Unlaid(ns, s, actual) \/ OtherWidth(ns, s, actual)
no_subst_ports(ns, path, def, prep, pm) ==
    {n \in DOMAIN pm : \/ ns[path \o n].arr
                       \/ /\ PortOf(def, n).dir = "input" /\ n \notin prep.driven
                          /\ KeepsNet(ns, ns[path \o n], pm[n])}
\* What the body's names stand for: the actuals, and the types and classes of the instance.
TypesOf(items) == UNION {Range(it.names) : it \in {x \in Range(items) : x.k \in {"class", "typedef"}}}
rewrite_port_map(ns, path, def, prep, pm) ==
    [n \in TypesOf(prep.items) |-> make_ident_expr(path \o n)]
    @@ Restrict(pm, {n \in DOMAIN pm : PortOf(def, n).dir # "output"} \ no_subst_ports(ns, path, def, prep, pm))

-----------------------------------------------------------------------------
(* Ports nobody can see.  The census holds every name that is written      *)
(* after a dot; `.name(` of a connection is not.                           *)

RECURSIVE DottedIn(_), ItemsWithin(_)
DottedIn(e) ==
    CASE e.k = "id" -> {e.path[j].n : j \in 2 .. Len(e.path)} \cup UNION {UNION {DottedIn(x) : x \in Range(s.sels)} : s \in Range(e.path)}
      [] e.k = "member" -> {e.m} \cup DottedIn(e.e)
      [] e.k = "index" -> DottedIn(e.e) \cup DottedIn(e.i)
      [] e.k = "part" -> DottedIn(e.e)
      [] e.k = "call" -> DottedIn(e.f) \cup UNION {DottedIn(x) : x \in Range(e.kids)}
      [] OTHER -> UNION {DottedIn(x) : x \in Range(Kids(e))}
ItemsWithin(items) == Range(items) \cup UNION {ItemsWithin(AllItems(it)) : it \in Range(items)}
ExprsWithin(it) == Range(it.es) \cup (IF it.k = "bind" THEN Range(it.bind.at) ELSE {}) \cup {cn.e : cn \in Range(it.conns \o it.over)} \cup UNION {StmtExprs(s) : s \in Range(it.body)}
\* Of a class, every name: its code runs in the scope of whatever instance calls it.
Census(it) == UNION {DottedIn(e) \cup (IF it.k = "class" THEN HeadsOf(e) ELSE {}) : e \in ExprsWithin(it)}
record_reference_census(d) == UNION {UNION {Census(it) : it \in ItemsWithin(d.defs[n].items)} : n \in DOMAIN d.defs}
                              \cup UNION {Census(b) : b \in Range(d.binds)}

port_elision_blocked_by_items(d, items) ==
    \E it \in Range(items) : it.k \in {"class", "clocking", "checker", "let", "specify", "alias", "bind", "dpi", "nettype"}
                             \/ (it.k = "inst" /\ it.def \notin DOMAIN d.defs)
Elidable(d, ns, path, def, prep, pm, kept, n) ==
    /\ n \in DOMAIN kept /\ n \notin dotted /\ n \notin prep.driven
    /\ PortOf(def, n).dir = "input" /\ PortOf(def, n).plain
    /\ ~Layout(ns[path \o n]) /\ ~HasDims(ns[path \o n]) /\ ~ns[path \o n].delay /\ ~ns[path \o n].arr
ElidedPorts(d, ns, path, def, prep, pm, kept) ==
    IF ~d.elide \/ def.kind # "module" \/ port_elision_blocked_by_items(d, prep.items) THEN {}
    ELSE {path \o n : n \in {x \in DOMAIN pm : Elidable(d, ns, path, def, prep, pm, kept, x)}}

-----------------------------------------------------------------------------
(* Moving an item of the body under the path.                              *)

EagerKinds == {"sub", "prop", "final", "clocking", "specify", "class"}
Deferred(it) == it.k \in {"process", "assign"} \/ (it.k = "data" /\ it.es # <<>> /\ it.def = "net")
Eager(def, it) == it.k \in EagerKinds \/ (it.k = "data" /\ it.es # <<>> /\ it.def = "var")
                  \/ (def.kind = "program" /\ it.k = "process")
Lane(it) == IF it.k = "process" THEN "process" ELSE "assign"

\* In a class only the names of the instance's types change, those its method does not hide.
ClassNames(c) == {n \in DOMAIN c.ports : c.ports[n] = make_ident_expr(c.prefix \o n)}
\* A subroutine's formals and locals, and a named property's formals, hide names of the module.
HeadCtx(c, it) ==
    CASE it.k = "sub" -> [c EXCEPT !.locals = without_declared(@, Range(it.formals) \cup stmt_list_declared_names(it.body))]
      [] it.k = "prop" -> [c EXCEPT !.locals = without_declared(@, Range(it.formals)),
                                    !.ports = Restrict(@, DOMAIN @ \ Range(it.formals))]
      [] it.k = "class" -> [Ctx EXCEPT !.ports = Restrict(c.ports, ClassNames(c)), !.modports = c.modports]
      [] OTHER -> c
MethodCtx(c, it) == [HeadCtx(c, it) EXCEPT !.prefix = c.prefix, !.up = c.up,
                        !.ports = Restrict(@, DOMAIN @ \ (Range(it.formals) \cup stmt_list_declared_names(it.body)))]
BodyCtx_(c, it) == CASE it.k = "sub" -> with_shadowed(HeadCtx(c, it), Range(it.formals))
                     [] it.k = "class" -> MethodCtx(c, it)
                     [] OTHER -> c
BodyOf(c, it) == rewrite_stmt(BodyCtx_(c, it), [Stmt EXCEPT !.k = IF it.k = "sub" THEN "block" ELSE @, !.body = it.body]).body
Moved(c, it) == [it EXCEPT !.es = Selects(HeadCtx(c, it), @), !.body = BodyOf(c, it)]
Emitted(c, idx, it) == [inst |-> c.prefix, idx |-> idx, item |-> Moved(c, it)]
\* `materialize`: a deferred item, with the types of its instance.
materialize(p, scopes) ==
    LET c == [p.c EXCEPT !.up = scopes, !.modports = modports]
        moved == Moved(c, p.item)
    IN  [inst |-> c.prefix, idx |-> p.idx,
         item |-> [moved EXCEPT !.body = Each(LAMBDA s : substitute_type_params_stmt(s, c.types), @)]]

Pend(c, idx, it) == [c |-> [c EXCEPT !.up = NoScopes, !.modports = Empty], idx |-> idx, item |-> it]
Awaiting(def, lane, it) == Deferred(it) /\ ~Eager(def, it) /\ Lane(it) = lane
PendIn(lane, c, def, items) ==
    FlattenSeq([j \in DOMAIN items |-> IF Awaiting(def, lane, items[j]) THEN <<Pend(c, j, items[j])>> ELSE <<>>])

-----------------------------------------------------------------------------
(* The steps.                                                              *)

NewInst(def, params, parent, g, vals, text, slot) ==
    [def |-> def, params |-> params, parent |-> parent, g |-> g, vals |-> vals, conns |-> text, slot |-> slot]
Key(name, params) == <<name, params>>
PreparedAt(f) == WithBound(prepared[Key(f.def, f.params)], f.path)
\* An instance as it is written, in the text of its parent or of a directive.
TextAt(f, idx) == LET text == Opened(design.defs[f.def].items, f.params, None, Empty, 0).out
                  IN  IF idx \in DOMAIN text THEN text[idx] ELSE [g |-> None, vals |-> Empty, item |-> PreparedAt(f).items[idx]]

\* The parameters an instance gives its definition, evaluated in the scope of the instance.
OverridesOf(f, def, hi) ==
    [n \in DOMAIN def.params |->
        LET given == {i \in DOMAIN hi.over : hi.over[i].n = n}
        IN  IF given = {} THEN def.params[n] ELSE Value(hi.over[CHOOSE i \in given : TRUE].e, f.params)]

Init ==
    \E d \in Designs :
        /\ design = d
        /\ phase = "top"
        /\ dotted = record_reference_census(d)
        /\ prepared = Empty /\ stack = <<>> /\ implicit = {} /\ nets = Empty /\ up = NoScopes /\ modports = Empty
        /\ insts = Empty /\ conns = {} /\ out = {} /\ elided = {}
        /\ pending = [lane \in Lanes |-> <<>>]
        /\ bind_sites = <<>> /\ resolved = Empty /\ pass = 0

\* `prepare_module_items`: the first instance with these parameters opens the definition.
Needed == IF phase = "top" THEN <<Key(design.top, design.defs[design.top].params)>>
          ELSE IF phase = "inlining" /\ stack # <<>> /\ Head(stack).todo # <<>> /\ Head(Head(stack).todo).def \in DOMAIN design.defs
          THEN <<Key(Head(Head(stack).todo).def, OverridesOf(Head(stack), design.defs[Head(Head(stack).todo).def], Head(Head(stack).todo)))>>
          ELSE <<>>
Prepare ==
    /\ Needed # <<>> /\ Needed[1] \notin DOMAIN prepared
    /\ \E key \in {Needed[1]} :
           prepared' = (key :> prepare_module_items(design, key[1], key[2])) @@ prepared
    /\ UNCHANGED <<design, stack, nets, implicit, conns, pending, out, up, modports, elided, insts, dotted, bindVars, phase>>

\* The top is elaborated by itself: its nets are there before its instances are inlined.
EnterTop ==
    /\ phase = "top" /\ Key(design.top, design.defs[design.top].params) \in DOMAIN prepared
    /\ \E top \in {design.defs[design.top]} : \E prep \in {prepared[Key(top.name, top.params)]} :
       \E declared \in {Declared(None, top, top.params, prep.items)} :
        /\ stack' = <<Frame(design, None, top.name, top.params, WithBound(prep, None), Empty, Empty)>>
        /\ bind_sites' = SitesOf(None, prep.items)
        /\ implicit' = ImplicitNets(None, top, prep.items, declared)
        /\ nets' = declared @@ [n \in implicit' |-> Shape(0, 0, 1)]
        /\ up' = [declare(NoScopes, top.name, DeclaredScopes(top.items)) EXCEPT !.defs = None :> top.name]
        /\ modports' = register_modport_expressions(design, None, top.name)
        /\ insts' = None :> NewInst(top, top.params, None, None, Empty, <<>>, None)
    /\ phase' = "inlining"
    /\ UNCHANGED <<design, prepared, conns, pending, out, elided, dotted, resolved, pass>>

Next_(f) == [f EXCEPT !.todo = Tail(@)]
Working == phase = "inlining" /\ stack # <<>>
Current == Head(stack).todo # <<>>

Flattened(f, hi, def, params, prep, path, pm, im, ns, kept, gone) ==
    \E c \in {[Ctx EXCEPT !.prefix = path, !.ports = kept, !.locals = prep.locals, !.ifaces = im,
                           !.modports = modports, !.up = up, !.types = def.types]} :
    \E parent \in {CtxOf(f, PreparedAt(f))} :
    \E text \in {TextAt(f, hi.idx)} :
        /\ nets' = ns
        /\ conns' = conns \cup {a \in UNION {ConnectionsOf(ns, parent, path, PortOf(def, n), pm[n]) : n \in DOMAIN pm} :
                                    ~(a.in /\ whole_net_ident_name(a.lhs) \in gone)}
        /\ elided' = elided \cup gone
        /\ out' = out \cup {Emitted(c, j, prep.items[j]) : j \in {x \in DOMAIN prep.items : Eager(def, prep.items[x])}}
        /\ pending' = [lane \in Lanes |-> pending[lane] \o PendIn(lane, c, def, prep.items)]
        /\ up' = declare(add_instance(up, f.path, path, def.name), def.name, DeclaredScopes(def.items))
        /\ modports' = register_modport_expressions(design, path, def.name)
        /\ insts' = (path :> NewInst(def, params, f.path, text.g, text.vals, text.item.conns, hi.slot)) @@ insts
        /\ bind_sites' = bind_sites \o SitesOf(path, prep.items)
        /\ stack' = <<Frame(design, path, def.name, params, WithBound(prep, path), kept, im), Next_(f)>> \o Tail(stack)

\* A gated clock cell with both its clocks connected is no instance.
ClockOnly(hi, pm) == hi.def = "gated_clk_cell" /\ {<<"clk_in">>, <<"clk_out">>} \subseteq DOMAIN pm
Siblings(prep) == UNION {Range(it.names) : it \in {x \in Range(prep.items) : x.k = "inst"}}

\* `inline_module_items`, one instance: connected, declared, its body moved or set aside.
InlineInstance ==
    /\ Working /\ Current
    /\ \E f \in {Head(stack)} : \E hi \in {Head(f.todo)} :
        /\ hi.def \in DOMAIN design.defs
        /\ f.path \o hi.n \notin DOMAIN insts
        /\ Len(f.path \o hi.n) <= MaxDepth
        /\ \E def \in {design.defs[hi.def]} :
           \E params \in {OverridesOf(f, def, hi)} :
           \E prep \in {prepared[k] : k \in DOMAIN prepared \cap {Key(hi.def, params)}} :
           \E path \in {f.path \o hi.n} :
           \E c \in {CtxOf(f, PreparedAt(f))} :
           \E pm \in {port_map(design, c, hi, def, params)} :
           \E im \in {sub_interface_map(design, c, hi, def, Siblings(PreparedAt(f)))} :
           \E declared \in {Declared(path, def, params, prep.items)} :
           \E new \in {ImplicitNets(path, def, WithBound(prep, path).items, declared)} :
           \E ns \in {Undelayed(declared @@ [n \in new |-> Shape(0, 0, 1)] @@ nets, path, pm)} :
           \E kept \in {rewrite_port_map(ns, path, def, prep, pm)} :
           \E gone \in {ElidedPorts(design, ns, path, def, prep, pm, kept)} :
               /\ ~ClockOnly(hi, pm)
               /\ implicit' = implicit \cup new
               /\ Flattened(f, hi, def, params, prep, path, pm, im, ns, kept, gone)
               /\ UNCHANGED <<design, prepared, dotted, resolved, pass, phase>>

\* A gated clock is passed on as if the cell were a wire.
PassClock ==
    /\ Working /\ Current
    /\ \E f \in {Head(stack)} : \E hi \in {Head(f.todo)} :
        /\ hi.def \in DOMAIN design.defs /\ f.path \o hi.n \notin DOMAIN insts
        /\ \E c \in {CtxOf(f, PreparedAt(f))} :
           \E pm \in {port_map(design, c, hi, design.defs[hi.def], Empty)} :
               /\ ClockOnly(hi, pm)
               /\ conns' = conns \cup {Assign(pm[<<"clk_out">>], pm[<<"clk_in">>], FALSE, f.path)}
               /\ stack' = <<Next_(f)>> \o Tail(stack)
    /\ UNCHANGED <<design, prepared, nets, implicit, pending, out, up, modports, elided, insts, dotted, bindVars, phase>>

\* An instance of nothing, a second instance of one name, or instances without end.
Refuse ==
    /\ Working /\ Current
    /\ \E f \in {Head(stack)} : \E hi \in {Head(f.todo)} :
        phase' = CASE hi.def \notin DOMAIN design.defs -> "missing"
                   [] f.path \o hi.n \in DOMAIN insts -> "duplicate"
                   [] Len(f.path \o hi.n) > MaxDepth -> "depth"
                   [] OTHER -> phase
    /\ phase' # phase
    /\ UNCHANGED <<design, stack, prepared, nets, implicit, conns, pending, out, up, modports, elided, insts, dotted, bindVars>>

Leave ==
    /\ Working /\ ~Current
    /\ stack' = Tail(stack)
    /\ UNCHANGED <<design, prepared, nets, implicit, conns, pending, out, up, modports, elided, insts, dotted, bindVars, phase>>

\* Targets of deferred assignments that nothing declares are nets of one bit.
create_implicit_nets_for_pending ==
    {p.c.prefix \o n : <<p, n>> \in
        {<<p, n>> \in Range(pending["assign"]) \X UNION {q.c.locals : q \in Range(pending["assign"])} :
            /\ p.item.k = "assign" /\ n \in collect_implicit_net_candidates(p.item.es[1]) \ DOMAIN p.c.ports
            /\ p.c.prefix \o n \notin DOMAIN nets}}

\* What the top itself holds is moved last, with an empty path; an assignment to a name of an
\* instance is read where it is written.
TopInterfaces == {it.names[1] : it \in {x \in Range(design.defs[design.top].items) :
                     x.k = "inst" /\ x.def \in DOMAIN design.defs /\ design.defs[x.def].kind = "interface"}}
TopItem(it) == IF it.k = "assign" THEN [it EXCEPT !.es[2] = root_mark_hier_ca_rhs(it.es[1], @)] ELSE it
FinishTop ==
    /\ phase = "inlining" /\ stack = <<>>
    /\ \E new \in {create_implicit_nets_for_pending} :
       \E c \in {[Ctx EXCEPT !.locals = DOMAIN nets \cup new, !.modports = modports, !.up = up,
                    !.ifaces = [n \in TopInterfaces |-> [n |-> n, at |-> <<>>, label |-> 0]]]} :
       \E items \in {prepared[Key(design.top, design.defs[design.top].params)].items} :
           /\ nets' = nets @@ [n \in new |-> Shape(0, 0, 1)]
           /\ implicit' = implicit \cup new
           /\ out' = out \cup {[inst |-> None, idx |-> j, item |-> Moved(c, TopItem(items[j]))] :
                                 j \in {x \in DOMAIN items : Deferred(items[x]) \/ Eager(design.defs[design.top], items[x])}}
           /\ conns' = {[a EXCEPT !.lhs = s[1], !.rhs = s[2]] : <<a, s>> \in {<<a, Selects(c, <<a.lhs, a.rhs>>)>> : a \in conns}}
    /\ phase' = "inlined"
    /\ UNCHANGED <<design, stack, prepared, pending, up, modports, elided, insts, dotted, bindVars>>

\* The directives of the whole design have no new target: the design is done.
Unresolved == phase = "inlined" /\ \A i \in DOMAIN Sites : ~Nonconstant(Sites[i])
SettleBinds ==
    /\ Unresolved /\ resolve_instance_binds = resolved
    /\ phase' = "flat"
    /\ UNCHANGED <<design, stack, prepared, nets, implicit, conns, pending, out, up, modports, elided, insts, dotted, bindVars>>

\* Some have: the design is elaborated once more from nothing, but for what they are bound to.
InlineAgain ==
    /\ Unresolved /\ resolve_instance_binds # resolved /\ pass + 1 < MaxPasses
    /\ resolved' = resolve_instance_binds /\ pass' = pass + 1
    /\ prepared' = Empty /\ stack' = <<>> /\ implicit' = {} /\ nets' = Empty /\ up' = NoScopes /\ modports' = Empty
    /\ insts' = Empty /\ conns' = {} /\ out' = {} /\ elided' = {}
    /\ pending' = [lane \in Lanes |-> <<>>] /\ bind_sites' = <<>>
    /\ phase' = "top"
    /\ UNCHANGED <<design, dotted>>

\* A label that is no constant, or directives that find new targets for ever.
RefuseBinds ==
    /\ phase = "inlined"
    /\ phase' = IF ~Unresolved THEN "nonconstant" ELSE "diverged"
    /\ Unresolved => resolve_instance_binds # resolved /\ pass + 1 = MaxPasses
    /\ UNCHANGED <<design, stack, prepared, nets, implicit, conns, pending, out, up, modports, elided, insts, dotted, bindVars>>

\* The simulator asks for the next item of a lane.
Materialize(lane) ==
    /\ phase = "flat" /\ pending[lane] # <<>>
    /\ out' = out \cup {materialize(Head(pending[lane]), up)}
    /\ pending' = [pending EXCEPT ![lane] = Tail(@)]
    /\ UNCHANGED <<design, stack, prepared, nets, implicit, conns, up, modports, elided, insts, dotted, bindVars, phase>>

\* The simulator (outside this repository) runs a process without the frames of its blocks: it
\* asks for the locals that hide a name of the module to be renamed.
Unshadowed_(o, names) ==
    IF o.item.k # "process" THEN o
    ELSE [o EXCEPT !.item.body = Each(LAMBDA s : rename_process_shadowed_locals([Ctx EXCEPT !.up = up, !.modports = modports],
                                                                               s, names, ToString(o.idx)), @)]
RenameLocals ==
    /\ phase = "flat" /\ \A lane \in Lanes : pending[lane] = <<>>
    /\ \E names \in {DOMAIN nets, {<<Leaf(n)>> : n \in DOMAIN nets}} : out' = {Unshadowed_(o, names) : o \in out}
    /\ phase' = "running"
    /\ UNCHANGED <<design, stack, prepared, nets, implicit, conns, pending, up, modports, elided, insts, dotted, bindVars>>

Next == Prepare \/ EnterTop \/ InlineInstance \/ PassClock \/ Refuse \/ Leave \/ FinishTop
        \/ SettleBinds \/ InlineAgain \/ RefuseBinds
        \/ (\E lane \in Lanes : Materialize(lane)) \/ RenameLocals
Spec == Init /\ [][Next]_vars

-----------------------------------------------------------------------------
(* Properties.                                                             *)

World ==
    [nets |-> nets, elided |-> elided, conns |-> conns, implicit |-> implicit, insts |-> insts,
     modports |-> Modports(design),
     subs |-> UNION {{o.inst \o n : n \in Range(o.item.names)} : o \in {x \in out : x.item.k \in {"sub", "prop"}}},
     types |-> FoldSet(LAMBDA i, f : [n \in {i \o x : x \in DOMAIN insts[i].def.types} |-> <<insts[i].def.types[<<Leaf(n)>>]>>]
                                    @@ [n \in {i \o x : x \in TypesOf(insts[i].def.items)} |-> None] @@ f, Empty, DOMAIN insts),
     text |-> [i \in DOMAIN insts |-> Opened(insts[i].def.items, insts[i].params, None, Empty, 0).out]]

ReadAs(w, o, src, got, t) ==
    /\ Len(src) = Len(got)
    /\ \A j \in DOMAIN src : Same(Read(w, o.inst, got[j].bound, got[j].e),
                                  Mean(w, Place(o.inst, t.g, t.vals, src[j].bound), src[j].e))

(* The text of the flat design means what it meant where it was written:   *)
(* every expression of every item that has been moved stands for the bits  *)
(* its names have by the rules of scope, whether it was moved at once or   *)
(* after the whole design was known, whether a port was replaced by its    *)
(* actual or kept, renamed with its generate block, passed through several *)
(* instances, left out, or reached through an interface.                   *)
ReadsAsWritten ==
    (phase \in {"flat", "running"} /\ \A lane \in Lanes : pending[lane] = <<>>) =>
        \A w \in {World} : \A o \in out : \A t \in {w.text[o.inst][o.idx]} :
            ReadAs(w, o, SpokenItem(t.item), SpokenItem(o.item), t)

Pairs(lv, rv) == {<<lv.b[j], rv.b[j]>> : j \in DOMAIN lv.b \cap DOMAIN rv.b}
FormalOf(a) == whole_net_ident_name(IF a.rhs.k = "index" THEN a.rhs.e ELSE a.rhs)
Outputs(w, i) == {p \in PortNames(w.insts[i].def) : PortOf(w.insts[i].def, p).dir = "output" /\ ActualOf(w, i, p) # None}
SlotOf(v, s, slot) == IF slot # None /\ Len(v.b) = Size(s) * slot[2]
                      THEN Vector(SubSeq(v.b, Size(s) * slot[1] + 1, Size(s) * (slot[1] + 1))) ELSE v

(* An output drives the bits its actual names where the instance is        *)
(* written, lowest with lowest, an element of an array of instances its    *)
(* own part of them, and nothing else.                                     *)
OutputsJoined ==
    phase = "flat" =>
        \A w \in {World} : \A i \in DOMAIN insts \ {None} : \A p \in Outputs(w, i) :
            UNION {Pairs(Read(w, a.scope, Empty, a.lhs), Read(w, i, Empty, a.rhs)) : a \in {x \in conns : ~x.in /\ FormalOf(x) = i \o p}}
            = Pairs(SlotOf(Mean(w, ActualOf(w, i, p)[2], ActualOf(w, i, p)[1]), w.nets[i \o p], w.insts[i].slot),
                    Own(i \o p, w.nets[i \o p]))

\* The directives of the finished design: those of the unit, and those of the text of its instances.
Directives(w) ==
    {[i |-> None, scope |-> None, env |-> design.params, b |-> b] : b \in Range(design.binds)}
    \cup UNION {{[i |-> i, scope |-> i \o t.g, env |-> t.vals @@ insts[i].params, b |-> t.item] :
                     t \in {x \in Range(w.text[i]) : x.item.k = "bind"}} : i \in DOMAIN insts}
\* The instance a path leads to from the nearest scope it leads to one from.
Nearest(scope, n) ==
    LET from == {k \in 0 .. Len(scope) : SubSeq(scope, 1, k) \o n \in DOMAIN insts}
    IN  IF from = {} THEN {} ELSE {SubSeq(scope, 1, Max(from)) \o n}
Led(dir, e) ==
    LET j == FlattenSeq(Each(LAMBDA s : FoldLeft(LAMBDA n, x : Elem(n, Value(x, dir.env)), s.n, s.sels), e.path))
    IN  IF Head(j) = design.top THEN {Tail(j)} \cap DOMAIN insts
        ELSE Nearest(IF e.root = "$root" THEN None ELSE dir.scope, j)
Meant(dir) ==
    IF dir.b.bind.at # <<>> THEN UNION {Led(dir, e) : e \in Range(dir.b.bind.at)}
    ELSE IF Nearest(dir.scope, dir.b.bind.type) # {} THEN Nearest(dir.scope, dir.b.bind.type)
    ELSE {p \in DOMAIN insts : <<insts[p].def.name>> = dir.b.bind.type}
\* The instances the text of their parent asks for.
InText(w, p) ==
    UNION {{p \o t.g \o n : n \in IF t.item.dims = <<>> THEN {t.item.names[1]}
                                  ELSE {Elem(t.item.names[1], x) : x \in Range(Span(t.item.dims[1], t.item.dims[2]))}} :
           t \in {x \in Range(w.text[p]) : x.item.k = "inst"}}

(* The instances of the finished hierarchy are those its text asks for and *)
(* those its directives bind, at every target they have in that hierarchy, *)
(* bound instances and directives inside them included, and no others.     *)
BindsApplied ==
    phase = "flat" =>
        \A w \in {World} :
            {<<insts[i].parent, i, insts[i].def.name, insts[i].conns>> :
                 i \in DOMAIN insts \ ({None} \cup UNION {InText(w, p) : p \in DOMAIN insts})}
            = UNION {{<<p, p \o dir.b.bind.n, dir.b.def, dir.b.conns>> : p \in Meant(dir)} : dir \in Directives(w)}
=============================================================================
