---------------------------- MODULE Parameters -----------------------------
(***************************************************************************)
(* How a module's parameters get their values (elaborate_module and        *)
(* inline_instances, src/elaborate.rs).  The header's are evaluated in     *)
(* order.  The body's are first seeded, in rounds over the whole body, so  *)
(* that one may be read before it is declared, and then walked in order;   *)
(* the walk also gives each a signal, which is what a name reads once the  *)
(* design runs, while the table sizes the declarations.  The header of an  *)
(* instance is evaluated in a table of its own, in which the overrides     *)
(* already stand.                                                          *)
(*                                                                         *)
(* A declaration is [n, t, init].  Reals, strings, arrays, assignment      *)
(* patterns, type parameters, packages and overrides of the root module    *)
(* are left out, and no name is declared twice.                            *)
(***************************************************************************)
EXTENDS ConstEval

CONSTANTS Designs,    \* [header, body, child, ovr, funcs, types, dims, calls]
          SeedRounds  \* rounds of the seeding (8)

ASSUME SeedAssumption == SeedRounds \in Nat \ {0}

VARIABLES design,     \* the text
          phase,      \* header, seed, walk, size, connect, instance, override, done,
                      \* each over declarations of its own
          at,         \* the declaration that is next
          parameters, \* the module's table
          signals,    \* what a parameter's name reads
          layout,     \* members of parameters of a struct type
          elem,       \* elements of parameters of a packed array type
          seeded,     \* names the seeding has set
          changed,    \* whether this round of the seeding set one
          round,
          deferred,   \* parameters left to the simulator
          sizes,      \* the dimensions evaluated
          child       \* sub_local_params, the instance's table

vars == <<design, phase, at, parameters, signals, layout, elem, seeded, changed, round, deferred, sizes, child>>

-----------------------------------------------------------------------------

Env(table, own) == [params |-> table, table |-> parameters, own |-> own, layout |-> layout, elem |-> elem,
                    types |-> design.types, funcs |-> design.funcs, fname |-> "-"]
Top == Env(parameters, TRUE)
Child == Env(child, FALSE)

\* register_packed_param_shape and tls_register_struct_layout
Registered(shape) == layout' = shape.layout /\ elem' = shape.elem

-----------------------------------------------------------------------------
(* Actions *)

Init == /\ design \in Designs
        /\ phase = "header"
        /\ at = 1
        /\ parameters = <<>>
        /\ signals = <<>>
        /\ layout = <<>>
        /\ elem = <<>>
        /\ seeded = {}
        /\ changed = FALSE
        /\ round = 1
        /\ deferred = {}
        /\ sizes = <<>>
        /\ child = <<>>

\* The declarations a phase goes through, and the one that is next.
Declarations == CASE phase = "header" -> design.header
                  [] phase \in {"seed", "walk"} -> design.body
                  [] phase = "size" -> design.dims
                  [] phase = "connect" ->
                       LET ns == SetToSeq(DOMAIN design.ovr) IN [i \in DOMAIN ns |-> [n |-> ns[i], init |-> design.ovr[ns[i]]]]
                  [] phase = "instance" -> design.child.header
                  [] phase = "override" -> design.child.body
                  [] phase = "done" -> <<>>
Reading(p) == phase = p /\ at <= Len(Declarations)
Turn(p, next) == phase = p /\ at > Len(Declarations) /\ phase' = next /\ at' = 1
Current == Declarations[at]

\* What it is worth.  An override is an expression in the module's scope, and
\* the instance's table holds what it came to as it stands.
Overriding == phase \in {"instance", "override"} /\ Current.n \in DOMAIN design.ovr
Outcome == DeclaredValue(phase, Current, IF Overriding THEN Some(design.ovr[Current.n]) ELSE None,
                         IF Overriding THEN child[Current.n] ELSE Zero(IntWidth), Top,
                         IF phase \in {"instance", "override"} THEN Child ELSE Top)

\* A header parameter without an override.  The entries of the members of a
\* struct are left out of the table: a member is read through the layout.
HeaderParam(r) ==
  /\ Reading("header")
  /\ parameters' = (Current.n :> r.val) @@ parameters
  /\ Registered(r.shape)
  /\ at' = at + 1
  /\ UNCHANGED <<design, phase, signals, seeded, changed, round, deferred, sizes, child>>

HeaderEnds == /\ Turn("header", "seed")
              /\ UNCHANGED <<design, parameters, signals, layout, elem, seeded, changed, round, deferred, sizes, child>>

\* expr_refs_are_all_local: names, operators, conditionals and system calls;
\* a size cast is one, a cast to a type is not.
RECURSIVE RefsAllLocal(_)
RefsAllLocal(e) ==
  LET All(es) == \A i \in DOMAIN es : RefsAllLocal(es[i]) IN
  CASE e.k \in {"num", "id"} -> TRUE
    [] e.k = "un" -> RefsAllLocal(e.a)
    [] e.k = "bin" -> All(<<e.a, e.b>>)
    [] e.k = "cond" -> All(<<e.c, e.a, e.b>>)
    [] e.k = "sys" -> All(e.args)
    [] e.k = "cast" -> RefsAllLocal(e.a) /\ (e.how = "size" => RefsAllLocal(e.t)) /\ e.how # "type"
    [] e.k \in {"fill", "mem", "idx", "rng", "cat", "rep", "call", "type"} -> FALSE

\* expr_idents_all_known, of an expression the seeding admits.
RECURSIVE IdentsAllKnown(_, _)
IdentsAllKnown(e, env) ==
  LET All(es) == \A i \in DOMAIN es : IdentsAllKnown(es[i], env) IN
  CASE e.k = "id" -> Known_(env, e.n)
    [] e.k = "un" -> IdentsAllKnown(e.a, env)
    [] e.k = "bin" -> All(<<e.a, e.b>>)
    [] e.k = "cond" -> All(<<e.c, e.a, e.b>>)
    [] e.k = "sys" -> All(e.args)
    [] e.k = "cast" -> /\ IdentsAllKnown(e.a, env)
                       /\ e.how = "size" => IdentsAllKnown(e.t, env)
                       /\ e.how = "named" => Known_(env, e.t)
    [] e.k \in {"num", "fill", "type"} -> TRUE

\* Mutant: a parameter is seeded once.
SeedOnce(r) ==
  /\ Reading("seed")
  /\ LET d == Current
         sets == RefsAllLocal(d.init) /\ IdentsAllKnown(d.init, Top) /\ d.n \notin DOMAIN parameters
     IN IF sets
        THEN /\ parameters' = (d.n :> r.val) @@ parameters
             /\ seeded' = seeded \cup {d.n}
             /\ changed' = TRUE
        ELSE UNCHANGED <<parameters, seeded, changed>>
  /\ at' = at + 1
  /\ UNCHANGED <<design, phase, signals, layout, elem, round, deferred, sizes, child>>

\* One declaration of a round: seeded once every name it reads is known, and
\* again whenever that changes its value.
SeedParam(r) ==
  /\ Reading("seed")
  /\ LET d == Current
         sets == /\ RefsAllLocal(d.init)
                 /\ IdentsAllKnown(d.init, Top)
                 /\ d.n \in DOMAIN parameters => parameters[d.n] # r.val
     IN IF sets
        THEN /\ parameters' = (d.n :> r.val) @@ parameters
             /\ seeded' = seeded \cup {d.n}
             /\ changed' = TRUE
        ELSE UNCHANGED <<parameters, seeded, changed>>
  /\ at' = at + 1
  /\ UNCHANGED <<design, phase, signals, layout, elem, round, deferred, sizes, child>>

SeedRound ==
  /\ phase = "seed" /\ at > Len(Declarations)
  /\ at' = 1
  /\ changed' = FALSE
  /\ IF changed /\ round < SeedRounds THEN round' = round + 1 /\ UNCHANGED phase
                                      ELSE phase' = "walk" /\ UNCHANGED round
  /\ UNCHANGED <<design, parameters, signals, layout, elem, seeded, deferred, sizes, child>>

\* The walk.  The table keeps what the seeding put there.
WalkParam(r) ==
  /\ Reading("walk")
  /\ parameters' = parameters @@ (Current.n :> r.val)
  /\ signals' = (Current.n :> r.val) @@ signals
  /\ deferred' = IF r.defers THEN deferred \cup {Current.n} ELSE deferred
  /\ Registered(r.shape)
  /\ at' = at + 1
  /\ UNCHANGED <<design, phase, seeded, changed, round, sizes, child>>

WalkEnds == /\ Turn("walk", "size")
            /\ UNCHANGED <<design, parameters, signals, layout, elem, seeded, changed, round, deferred, sizes, child>>

\* A dimension of a port, a net or an array.
SizeDimension(r) ==
  /\ Reading("size")
  /\ sizes' = Append(sizes, r.size)
  /\ at' = at + 1
  /\ UNCHANGED <<design, phase, parameters, signals, layout, elem, seeded, changed, round, deferred, child>>

SizesEnd == /\ Turn("size", "connect")
            /\ UNCHANGED <<design, parameters, signals, layout, elem, seeded, changed, round, deferred, sizes, child>>

\* The instance: each override is first evaluated as it stands.
ConnectParam(r) ==
  /\ Reading("connect")
  /\ child' = (Current.n :> r.val) @@ child
  /\ at' = at + 1
  /\ UNCHANGED <<design, phase, parameters, signals, layout, elem, seeded, changed, round, deferred, sizes>>

ConnectEnds == /\ Turn("connect", "instance")
               /\ UNCHANGED <<design, parameters, signals, layout, elem, seeded, changed, round, deferred, sizes, child>>

\* A parameter of the instance's header.
InstanceParam(r) ==
  /\ Reading("instance")
  /\ child' = (Current.n :> r.val) @@ child
  /\ Registered(r.shape)
  /\ at' = at + 1
  /\ UNCHANGED <<design, phase, parameters, signals, seeded, changed, round, deferred, sizes>>

InstanceEnds == /\ Turn("instance", "override")
                /\ UNCHANGED <<design, parameters, signals, layout, elem, seeded, changed, round, deferred, sizes, child>>

\* An override of a parameter of the instance's body.
OverrideParam(r) ==
  /\ Reading("override")
  /\ child' = IF r.converts THEN (Current.n :> r.val) @@ child ELSE child
  /\ at' = at + 1
  /\ UNCHANGED <<design, phase, parameters, signals, layout, elem, seeded, changed, round, deferred, sizes>>

OverrideEnds == /\ Turn("override", "done")
                /\ UNCHANGED <<design, parameters, signals, layout, elem, seeded, changed, round, deferred, sizes, child>>

Done == phase = "done" /\ UNCHANGED vars

Declares == \E r \in {Outcome} :
              \/ HeaderParam(r) \/ SeedParam(r) \/ WalkParam(r) \/ SizeDimension(r)
              \/ ConnectParam(r) \/ InstanceParam(r) \/ OverrideParam(r)

Next == \/ at <= Len(Declarations) /\ Declares
        \/ HeaderEnds \/ SeedRound \/ WalkEnds \/ SizesEnd \/ ConnectEnds \/ InstanceEnds \/ OverrideEnds
        \/ Done

Spec == Init /\ [][Next]_vars
=============================================================================
