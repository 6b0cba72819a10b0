------------------------------ MODULE GenBlocks ------------------------------
(***************************************************************************)
(* Generate constructs (src/elaborate.rs): the blocks of a module that are *)
(* taken become items of the module, and what a block declares is renamed  *)
(* with the block's name in front, so that `x` of block g is the module's  *)
(* `g.x`.  A genvar is replaced by its value in every copy of a loop.      *)
(*                                                                         *)
(* An item is a record of one shape: names it declares, its type t, the    *)
(* expressions es and statements body it holds, the formals of a           *)
(* subroutine, conns (how, port n, actual e) and def of an instance, the   *)
(* blocks (cond, label, items) of a generate construct, scope, the blocks  *)
(* a process or an instance came from, and bind, what a directive says of  *)
(* its targets.                                                            *)
(***************************************************************************)
EXTENDS Rewrite

NoExpr == [k |-> "none"]
NoType == [k |-> "vec", dims |-> <<>>]
NoScopes == [children |-> Empty, defs |-> Empty, declared |-> Empty, packages |-> {}]
Ctx == [prefix |-> None, ports |-> Empty, locals |-> {}, ifaces |-> Empty, modports |-> Empty, bound |-> {},
        types |-> Empty, up |-> NoScopes]
Item == [k |-> "other", names |-> <<>>, t |-> NoType, es |-> <<>>, body |-> <<>>, formals |-> <<>>, conns |-> <<>>,
         over |-> <<>>, def |-> "", dims |-> <<>>, blocks |-> <<>>, scope |-> None, shape |-> None, bind |-> None]
Block(label, cond, items) == [label |-> label, cond |-> cond, items |-> items]

Gathered(F(_), items) == UNION {F(items[i]) : i \in DOMAIN items}
AllItems(item) == FlattenSeq(Each(LAMBDA b : b.items, item.blocks))

-----------------------------------------------------------------------------
(* The names a block renames: its data when data is set, its subroutines   *)
(* always.                                                                 *)

OwnNames(item, data) == IF (item.k \in {"data", "inst"} /\ data) \/ item.k = "sub" THEN Range(item.names) ELSE {}

RECURSIVE collect_renamed_decl_names(_, _), collect_own_decl_names(_, _), collect_instance_names_in_items(_)
collect_renamed_decl_names(items, data) ==
    Gathered(LAMBDA it : OwnNames(it, data) \cup collect_renamed_decl_names(AllItems(it), data), items)
collect_own_decl_names(items, data) ==
    Gathered(LAMBDA it : IF it.k = "region" THEN collect_own_decl_names(AllItems(it), data) ELSE OwnNames(it, data), items)
collect_instance_names_in_items(items) ==
    Gathered(LAMBDA it : (IF it.k = "inst" THEN Range(it.names) ELSE {})
                         \cup collect_instance_names_in_items(AllItems(it)), items)

\* A rename [sc, data]: the block's name goes before the last part of the name, after the
\* blocks around it.
Scope(sc) == [sc |-> sc, data |-> TRUE]
Subroutines(sc) == [sc |-> sc, data |-> FALSE]
apply(rn, n) == Front(n) \o rn.sc \o <<Leaf(n)>>
gen_renamed_ref(rn, n) == make_ident_expr(apply(rn, n))
Renaming(rn, ns) == [n \in ns |-> gen_renamed_ref(rn, n)]

\* What a nested block refers to: what is visible around it, and its own declarations.
gen_block_port_map(items, rn, enclosing) == Renaming(rn, collect_own_decl_names(items, rn.data)) @@ enclosing

\* The heads of names that lead to an instance through blocks already renamed.
RECURSIVE HeadsOf(_), StmtExprs(_), collect_scoped_instance_heads(_, _)
HeadsOf(e) ==
    CASE e.k = "id" -> {e.path[1].n} \cup UNION {UNION {HeadsOf(x) : x \in Range(s.sels)} : s \in Range(e.path)}
      [] e.k = "index" -> HeadsOf(e.e) \cup HeadsOf(e.i)
      [] e.k = "part" -> HeadsOf(e.e) \cup HeadsOf(e.l) \cup HeadsOf(e.r)
      [] e.k \in {"member", "typed", "spec"} -> HeadsOf(e.e)
      [] e.k = "call" -> HeadsOf(e.f) \cup UNION {HeadsOf(x) : x \in Range(e.kids)}
      [] OTHER -> UNION {HeadsOf(x) : x \in Range(Kids(e))}
StmtExprs(s) == Range(s.es) \cup UNION {{ev.e} \cup Range(ev.iff) : ev \in Range(s.events)} \cup UNION {StmtExprs(b) : b \in Range(s.body)}
ItemExprs(it) == IF it.k \in {"process", "assert", "final", "assign", "inst", "sub"}
                 THEN Range(it.es) \cup {cn.e : cn \in Range(it.conns)} \cup UNION {StmtExprs(s) : s \in Range(it.body)}
                 ELSE {}
collect_scoped_instance_heads(items, insts) ==
    Gathered(LAMBDA it : {h \in UNION {HeadsOf(e) : e \in ItemExprs(it)} : Len(h) > 1 /\ <<Leaf(h)>> \in insts}
                         \cup collect_scoped_instance_heads(AllItems(it), insts), items)

-----------------------------------------------------------------------------
(* Renaming.                                                               *)

Conns(c, conns) == Each(LAMBDA cn : [cn EXCEPT !.e = rewrite_expr(c, @)], conns)
Exprs(c, item) == [item EXCEPT !.es = Selects(c, @), !.conns = Conns(c, @), !.over = Conns(c, @),
                                     !.t = rewrite_data_type(c, @)]
\* The context of a body: the formals and locals of a subroutine hide what is renamed.
BodyCtx(c, item) == IF item.k = "sub" THEN with_shadowed(c, Range(item.formals) \cup stmt_list_declared_names(item.body))
                    ELSE c
rename_subroutine_body(c, item) == [item EXCEPT !.body = Each(LAMBDA s : rewrite_stmt(BodyCtx(c, item), s), @)]
Names(item, rn, set) == [item EXCEPT !.names = Each(LAMBDA n : IF n \in set THEN apply(rn, n) ELSE n, @)]

RenamedDecl(c, rn, set, item) == Names(Exprs(c, item), rn, set)
RenamedSubroutine(c, rn, set, item) == rename_subroutine_body(c, RenamedDecl(c, rn, set, item))
RenamedText(c, item) == rename_subroutine_body(c, Exprs(c, item))

RECURSIVE rename_item_decls(_, _, _, _)
RenamedBlock(c, rn, set, b) ==
    [b EXCEPT !.cond = Selects(c, @),
              !.items = Each(LAMBDA it : rename_item_decls([c EXCEPT !.ports = gen_block_port_map(b.items, rn, @)], rn, set, it), @)]
RenamedRegion(c, rn, set, b) == [b EXCEPT !.items = Each(LAMBDA it : rename_item_decls(c, rn, set, it), @)]
rename_item_decls(c, rn, set, item) ==
    CASE item.k = "data" -> RenamedDecl(c, rn, set, item)
      [] item.k = "sub" -> RenamedSubroutine(c, rn, set, item)
      [] item.k \in {"inst", "assign", "process", "assert"} -> RenamedText(c, item)
      [] item.k = "region" -> [item EXCEPT !.blocks = Each(LAMBDA b : RenamedRegion(c, rn, set, b), @)]
      [] item.k \in {"if", "case", "for"} ->
           [item EXCEPT !.es = Selects(c, @), !.blocks = Each(LAMBDA b : RenamedBlock(c, rn, set, b), @)]
      [] OTHER -> item

rename_decls_in_iter(items, rn) ==
    LET set == collect_renamed_decl_names(items, rn.data)
        own == collect_own_decl_names(items, rn.data)
        heads == collect_scoped_instance_heads(items, collect_instance_names_in_items(items)) \ own
        c == [Ctx EXCEPT !.ports = Renaming(rn, own \cup heads)]
    IN  IF set = {} THEN items ELSE Each(LAMBDA it : rename_item_decls(c, rn, set, it), items)

-----------------------------------------------------------------------------
(* The genvar of a copy is its value.                                      *)

genvar_const_expr(v) == Num(v)

RECURSIVE substitute_in_module_item(_, _)
SubstitutedText(c, item) == [item EXCEPT !.body = Each(LAMBDA s : rewrite_stmt(c, s), @)]
\* Of a bind directive the labels of its targets; what it connects is read where it is bound.
SubstitutedTarget(c, e) == [e EXCEPT !.path = Each(LAMBDA s : [s EXCEPT !.sels = Selects(c, @)], @)]
SubstitutedBlock(c, b) == [b EXCEPT !.cond = Selects(c, @), !.items = Each(LAMBDA it : substitute_in_module_item(c, it), @)]
substitute_in_module_item(c, item) ==
    CASE item.k \in {"data", "inst", "assign"} -> Exprs(c, item)
      [] item.k \in {"process", "assert", "final", "sub"} -> SubstitutedText(c, item)
      [] item.k = "bind" -> [item EXCEPT !.bind.at = Each(LAMBDA e : SubstitutedTarget(c, e), @)]
      [] item.k \in {"region", "if", "case", "for"} ->
           [item EXCEPT !.es = Selects(c, @), !.blocks = Each(LAMBDA b : SubstitutedBlock(c, b), @)]
      [] OTHER -> item
substitute_genvar_in_items(items, var, v) ==
    Each(LAMBDA it : substitute_in_module_item([Ctx EXCEPT !.ports = var :> genvar_const_expr(v)], it), items)

-----------------------------------------------------------------------------
(* Expansion.  es of a loop is its start, condition and step; of a case    *)
(* its selector; of an if nothing, each block has its condition.           *)

\* Instances and processes of a block carry its name; an assertion becomes a process of it.
prefix_gen_scope(items, sc) ==
    Each(LAMBDA it : CASE it.k = "inst" -> [it EXCEPT !.names = Each(LAMBDA n : sc \o n, @), !.scope = sc \o @]
                       [] it.k \in {"process", "bind"} -> [it EXCEPT !.scope = sc \o @]
                       [] it.k = "assert" -> [it EXCEPT !.k = "process", !.scope = sc]
                       [] OTHER -> it, items)

gen_scope_name(label, ordinal) == IF label # None THEN label ELSE <<"genblk" \o ToString(ordinal)>>

\* 0 for an expression that has no value.
Value(e, params) == LET v == eval_const_expr(e, params) IN IF v = None THEN 0 ELSE v[1]
Less(e, params) == Value(e.kids[1], params) < Value(e.kids[2], params)
Holds(e, params) == IF e.k = "op" /\ e.o = "<" THEN Less(e, params) ELSE Value(e, params) # 0

generate_for_start(item, params) == Value(item.es[1], params)
NextValue(item, v, params) == IF Value(item.es[3], params) = v THEN v + 1 ELSE Value(item.es[3], params)

\* The values the genvar takes: the condition is asked before every copy.
RECURSIVE GenvarValues(_, _, _)
GenvarValues(item, v, params) ==
    LET ps == (item.names[1] :> v) @@ params
    IN  IF ~Holds(item.es[2], ps) THEN <<>> ELSE <<v>> \o GenvarValues(item, NextValue(item, v, ps), params)

\* The block of an if or a case that is taken: the first that holds, else the default.
TakenBlock(item, params) ==
    LET holds(b) == IF item.k = "if" THEN b.cond = <<>> \/ Holds(b.cond[1], params)
                    ELSE \E x \in Range(b.cond) : Value(x, params) = Value(item.es[1], params)
        first == SelectSeq(item.blocks, holds)
        default == SelectSeq(item.blocks, LAMBDA b : b.cond = <<>>)
    IN  IF first # <<>> THEN <<first[1]>> ELSE IF item.k = "case" /\ default # <<>> THEN <<default[1]>> ELSE <<>>

IsGenerate(item) == item.k \in {"if", "case", "for"}

\* The copies of one construct, the ordinal-th of its scope: their items, with the value of the
\* genvar, the scope they are in, and what is renamed.
Copy(items, sc, rn, vals) == [items |-> items, sc |-> sc, rn |-> rn, vals |-> vals]
Copies(item, params, ordinal) ==
    LET blockOf(b) == LET sc == gen_scope_name(b.label, ordinal)
                      IN  Copy(b.items, sc, IF b.label # None THEN Scope(sc) ELSE Subroutines(sc), Empty)
        loop == item.blocks[1]
        copy(v) == LET sc == Elem(gen_scope_name(loop.label, ordinal), v)
                   IN  Copy(substitute_genvar_in_items(loop.items, item.names[1], v), sc, Scope(sc), item.names[1] :> v)
    IN  IF item.k = "for" THEN Each(copy, GenvarValues(item, generate_for_start(item, params), params))
        ELSE Each(blockOf, TakenBlock(item, params))

RECURSIVE collect_effective_items_scoped(_, _, _), collect_effective_items(_, _)
Expanded(cp, params) ==
    prefix_gen_scope(collect_effective_items(rename_decls_in_iter(cp.items, cp.rn), cp.vals @@ params), cp.sc)
\* A region is no scope of its own: the ordinals run on.
collect_effective_items_scoped(items, params, ordinal) ==
    IF items = <<>> THEN <<>>
    ELSE LET it == Head(items)
             n == IF IsGenerate(it) THEN ordinal + 1 ELSE ordinal
         IN  IF it.k = "region" THEN collect_effective_items_scoped(AllItems(it) \o Tail(items), params, ordinal)
             ELSE (IF IsGenerate(it) THEN FlattenSeq(Each(LAMBDA cp : Expanded(cp, params), Copies(it, params, n))) ELSE <<it>>)
                  \o collect_effective_items_scoped(Tail(items), params, n)
collect_effective_items(items, params) == collect_effective_items_scoped(items, params, 0)

-----------------------------------------------------------------------------
(* The scopes a definition's text declares (UpwardScopes::declare).        *)

RECURSIVE BlockLabels(_), collect_scope_labels_in_items(_)
BlockLabels(s) == (IF s.label # None THEN {s.label} ELSE {}) \cup UNION {BlockLabels(b) : b \in Range(s.body)}
collect_scope_labels_in_items(items) ==
    Gathered(LAMBDA it : ({b.label : b \in Range(it.blocks)} \ {None})
                         \cup (IF it.k \in {"process", "final"} THEN UNION {BlockLabels(s) : s \in Range(it.body)} ELSE {})
                         \cup (IF it.k = "sub" THEN Range(it.names) ELSE {})
                         \cup collect_scope_labels_in_items(AllItems(it)), items)
DeclaredScopes(items) == {n[1] : n \in collect_instance_names_in_items(items) \cup collect_scope_labels_in_items(items)}
=============================================================================
