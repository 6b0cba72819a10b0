----------------------------- MODULE DesignRoots ----------------------------
(***************************************************************************)
(* From the parsed descriptions of all files to the root of the design     *)
(* (parse_and_elaborate in src/lib.rs): the name-keyed registry, the       *)
(* carrier of the compilation unit's declarations, command-line parameter  *)
(* overrides, library definitions, the choice of the top and the classes   *)
(* and typedefs registered again at the end.                               *)
(***************************************************************************)
EXTENDS Naturals, Sequences, FiniteSets, SequencesExt

CONSTANTS Names,       \* numbers: names are compared where the code sorts them
          Descs,       \* the descriptions a file may hold
          MaxDescs,    \* a bound on the descriptions
          Libraries,   \* what the library search may adopt: name -> description
          Tops,        \* the tops the command line may name, None among them
          Overrides    \* the modules an override may name, None for every one

None == 0

Hierarchy == {"module", "interface", "program"}

\* Only a hierarchy unit, a checker among them, instantiates anything or has an
\* initial block.
Description == [kind : Hierarchy \cup {"checker", "udp", "package", "class", "typedef", "forward"},
                name : Names, insts : SUBSET Names, initial : BOOLEAN, param : BOOLEAN,
                nested : SUBSET Names]
Plain(d) == d.kind \in Hierarchy \cup {"checker"} \/ (d.insts = {} /\ ~d.initial)

ASSUME NamesAssumption == Names \subseteq Nat \ {None} /\ IsFiniteSet(Names)
ASSUME DescsAssumption == Descs \subseteq Description /\ \A d \in Descs : Plain(d)
\* What a slot holds; a checker is a module there.
Definition == {d \in Description : d.kind # "checker" /\ Plain(d)}

ASSUME LibrariesAssumption ==
  \A l \in Libraries : DOMAIN l \subseteq Names /\ \A n \in DOMAIN l : l[n] \in Definition

VARIABLES decls,         \* the descriptions so far
          definitions,   \* name -> the description that has the slot
          class_defs, typedef_defs,   \* name -> position in decls
          top_module,
          def_source_pos,             \* names in the order they were first declared
          cli,           \* top_module_name, strict_top, the override, the library
          unit_carrier,  \* the definition that keeps every unit declaration
          explicit_def_names,
          hits,          \* definitions the override changed
          root,          \* the tops elaborated, in order
          classes, typedefs,          \* what is registered in the end
          phase

vars == <<decls, definitions, class_defs, typedef_defs, top_module, def_source_pos, cli, unit_carrier,
          explicit_def_names, hits, root, classes, typedefs, phase>>

Slot(n) == IF n \in DOMAIN definitions THEN definitions[n].kind ELSE "free"

\* f, and g where f says nothing.
Over(f, g) == [n \in DOMAIN f \cup DOMAIN g |-> IF n \in DOMAIN f THEN f[n] ELSE g[n]]
Put(f, n, x) == Over([m \in {n} |-> x], f)

Init ==
  /\ decls = <<>> /\ definitions = <<>> /\ class_defs = <<>> /\ typedef_defs = <<>>
  /\ top_module = None /\ def_source_pos = <<>>
  /\ cli \in [top : Tops, strict_top : BOOLEAN, override : Overrides, library : Libraries]
  /\ unit_carrier = None /\ explicit_def_names = {} /\ hits = 0
  /\ root = <<>> /\ classes = <<>> /\ typedefs = <<>> /\ phase = "declare"

-----------------------------------------------------------------------------
(* The registry *)

Next_position == Len(decls) + 1

\* The next description.
Declare(d, defs) ==
  /\ phase = "declare" /\ Len(decls) < MaxDescs /\ d \in Descs
  /\ decls' = Append(decls, d)
  /\ definitions' = defs
  /\ top_module' = IF d.kind \in {"module", "program", "udp"} THEN d.name ELSE top_module
  /\ def_source_pos' = IF d.kind \in Hierarchy /\ d.name \notin ToSet(def_source_pos)
                       THEN Append(def_source_pos, d.name) ELSE def_source_pos
  /\ UNCHANGED <<cli, unit_carrier, explicit_def_names, hits, root, classes, typedefs, phase>>

\* What a nested module leaves in the registry.
Inner(n) == [kind |-> "module", name |-> n, insts |-> {}, initial |-> FALSE, param |-> FALSE, nested |-> {}]

\* A module: its nested modules are hoisted, and the last definition wins.
DeclareModule(d) ==
  /\ d.kind = "module"
  /\ Declare(d, Put(Over([n \in d.nested |-> Inner(n)], definitions), d.name, d))
  /\ UNCHANGED <<class_defs, typedef_defs>>

\* An interface or a program.
DeclareUnit(d) ==
  /\ d.kind \in {"interface", "program"}
  /\ Declare(d, Put(definitions, d.name, d))
  /\ UNCHANGED <<class_defs, typedef_defs>>

DeclarePackage(d) ==
  /\ d.kind = "package"
  /\ Declare(d, Put(definitions, d.name, d))
  /\ UNCHANGED <<class_defs, typedef_defs>>

\* A checker is registered as a module.
DeclareChecker(d) ==
  /\ d.kind = "checker"
  /\ Declare(d, Put(definitions, d.name, [d EXCEPT !.kind = "module"]))
  /\ UNCHANGED <<class_defs, typedef_defs>>

DeclareUdp(d) ==
  /\ d.kind = "udp"
  /\ Declare(d, Put(definitions, d.name, d))
  /\ UNCHANGED <<class_defs, typedef_defs>>

\* A class never takes the slot of a module, an interface or a program.
DeclareClass(d) ==
  /\ d.kind = "class"
  /\ Declare(d, IF Slot(d.name) \in Hierarchy THEN definitions ELSE Put(definitions, d.name, d))
  /\ class_defs' = Put(class_defs, d.name, Next_position)
  /\ UNCHANGED typedef_defs

\* Neither does a typedef; a forward typedef takes a free slot only.
DeclareTypedef(d) ==
  /\ d.kind \in {"typedef", "forward"}
  /\ Declare(d, IF Slot(d.name) \in Hierarchy \/ (d.kind = "forward" /\ Slot(d.name) # "free")
                THEN definitions ELSE Put(definitions, d.name, d))
  /\ typedef_defs' = IF d.kind = "typedef" THEN Put(typedef_defs, d.name, Next_position) ELSE typedef_defs
  /\ UNCHANGED class_defs

-----------------------------------------------------------------------------
(* Overrides, the carrier and the library *)

\* collect_instantiated_modules over every definition
InstantiatedIn(defs) == UNION {defs[n].insts : n \in {m \in DOMAIN defs : defs[m].kind \in Hierarchy}}

\* apply_param_overrides: the definitions whose parameter gets a new default.
Overridden(defs, skip) ==
  {n \in DOMAIN defs \ skip : /\ defs[n].kind \in Hierarchy /\ defs[n].param
                              /\ cli.override \in {None, n}}

\* Where the sources first declare x, behind them all if they do not.
SourcePos(x) ==
  IF x \in ToSet(def_source_pos) THEN CHOOSE i \in DOMAIN def_source_pos : def_source_pos[i] = x
  ELSE Len(def_source_pos) + 1

Before(n, m) == SourcePos(n) < SourcePos(m) \/ (SourcePos(n) = SourcePos(m) /\ n < m)

First(cands) == IF cands = {} THEN None ELSE CHOOSE n \in cands : \A m \in cands \ {n} : Before(n, m)

Eligible == {n \in DOMAIN definitions : definitions[n].kind \in Hierarchy}

\* unit_carrier: the named top, or the first root in source order.
Carrier ==
  IF cli.top \in DOMAIN definitions THEN (IF cli.top \in Eligible THEN cli.top ELSE None)
  ELSE First(Eligible \ InstantiatedIn(definitions))

\* The end of the sources: the first application of the overrides and the
\* carrier of the unit's subroutines and parameters (there are some).
EndOfSources ==
  /\ phase = "declare"
  /\ hits' = Cardinality(Overridden(definitions, {}))
  /\ unit_carrier' = Carrier
  /\ explicit_def_names' = DOMAIN definitions
  /\ phase' = "library"
  /\ UNCHANGED <<decls, definitions, class_defs, typedef_defs, top_module, def_source_pos, cli, root,
                 classes, typedefs>>

\* What the search adopts: the least set of library definitions that leaves
\* nothing instantiated and not declared (SearchExact of LibrarySearch).
Adopted ==
  LET Missing == DOMAIN cli.library \ DOMAIN definitions
      With(S) == Over(definitions, [n \in S |-> cli.library[n]])
      Closed == {S \in SUBSET Missing : InstantiatedIn(With(S)) \cap Missing \subseteq S}
  IN With({n \in Missing : \A S \in Closed : n \in S})

\* What the second application of the overrides leaves alone.
Skip == explicit_def_names

Library ==
  /\ phase = "library"
  /\ definitions' = Adopted
  /\ hits' = hits + Cardinality(Overridden(Adopted, Skip))
  /\ phase' = "top"
  /\ UNCHANGED <<decls, class_defs, typedef_defs, top_module, def_source_pos, cli, unit_carrier,
                 explicit_def_names, root, classes, typedefs>>

-----------------------------------------------------------------------------
(* The top *)

\* The explicit definitions no other one instantiates.
Candidates ==
  {n \in explicit_def_names : /\ n \notin InstantiatedIn(definitions)
                              /\ definitions[n].kind \notin {"typedef", "forward", "udp"}}

\* The elements of S in the order Precedes.
InOrder(S, Precedes(_, _)) ==
  [i \in 1 .. Cardinality(S) |-> CHOOSE n \in S : Cardinality({m \in S : Precedes(m, n)}) = i - 1]

Units(cands) == {n \in cands : definitions[n].kind \in Hierarchy}

\* Mutant: the tops start in the order of their names.
ModuleCandidatesByName == InOrder(Units(Candidates), <)

\* Modules, interfaces and programs, in source order.
ModuleCandidates == InOrder(Units(Candidates), Before)

Least(S) == CHOOSE n \in S : \A m \in S : n <= m

\* The choice without a name: several modules are wrapped together; else the
\* last module or program read, if nothing instantiates it; else the only
\* candidate, or the first with an initial block.
Detect ==
  LET initials == {n \in Candidates : definitions[n].initial}
      pick == IF top_module \in Candidates THEN top_module
              ELSE IF Cardinality(Candidates) = 1 THEN Least(Candidates)
              ELSE IF initials # {} THEN Least(initials)
              ELSE IF top_module = None /\ Candidates # {} THEN Least(Candidates)
              ELSE top_module
  IN IF Len(ModuleCandidates) > 1 THEN ModuleCandidates
     ELSE IF pick = None THEN <<>> ELSE <<pick>>

Named == cli.top # None /\ cli.top \in DOMAIN definitions

\* "top module not found" if the name is strict, "No module found" if there is
\* nothing to elaborate: an empty root ends the elaboration.
SelectTop ==
  /\ phase = "top"
  /\ root' = IF Named THEN <<cli.top>> ELSE IF cli.top # None /\ cli.strict_top THEN <<>> ELSE Detect
  /\ phase' = IF root' = <<>> THEN "failed" ELSE "elaborate"
  /\ UNCHANGED <<decls, definitions, class_defs, typedef_defs, top_module, def_source_pos, cli, unit_carrier,
                 explicit_def_names, hits, classes, typedefs>>

\* Mutant: only what the registry still holds is registered.
ReregisterNot(held, kept) == held

\* The classes and typedefs whose slot another kind took are registered again.
Reregister(held, kept) == Over(held, kept)

\* The position of the description in a slot.
Position(n) == CHOOSE i \in DOMAIN decls : decls[i] = definitions[n] /\ \A j \in i+1 .. Len(decls) : decls[j] # decls[i]

Elaborate ==
  LET Held(kind) == [n \in {m \in explicit_def_names : definitions[m].kind = kind} |-> Position(n)]
  IN /\ phase = "elaborate"
     /\ classes' = Reregister(Held("class"), class_defs)
     /\ typedefs' = Reregister(Held("typedef"), typedef_defs)
     /\ phase' = "done"
     /\ UNCHANGED <<decls, definitions, class_defs, typedef_defs, top_module, def_source_pos, cli, unit_carrier,
                    explicit_def_names, hits, root>>

Next ==
  \/ \E d \in Descs : \/ DeclareModule(d) \/ DeclareUnit(d) \/ DeclarePackage(d) \/ DeclareChecker(d)
                      \/ DeclareUdp(d) \/ DeclareClass(d) \/ DeclareTypedef(d)
  \/ EndOfSources \/ Library \/ SelectTop \/ Elaborate
  \/ phase \in {"done", "failed"} /\ UNCHANGED vars

Spec == Init /\ [][Next]_vars

-----------------------------------------------------------------------------
(* Properties *)

Done == phase = "done"

\* The units a description declares: its own, and the modules nested in it.
UnitsOf(d) == (IF d.kind \in Hierarchy \cup {"checker", "udp"} THEN {d.name} ELSE {})
              \cup (IF d.kind = "module" THEN d.nested ELSE {})

\* decls[i] is the last description that declares the unit n, and what it says.
DeclaredLast(n, i) == n \in UnitsOf(decls[i]) /\ \A j \in i+1 .. Len(decls) : n \notin UnitsOf(decls[j])
LastAt(n) == CHOOSE i \in DOMAIN decls : DeclaredLast(n, i)
UnitOf(n) == IF n = decls[LastAt(n)].name THEN decls[LastAt(n)] ELSE Inner(n)

Declared == UNION {UnitsOf(decls[i]) : i \in DOMAIN decls}

\* The tops of the language: what the sources declare, whatever the registry
\* made of it, and nothing in the sources or adopted from the library
\* instantiates.  Of several units of one name the last one counts.
Uninstantiated ==
  LET adopted == DOMAIN definitions \ explicit_def_names
      instantiated == UNION ({UnitOf(m).insts : m \in Declared} \cup {definitions[m].insts : m \in adopted})
  IN {n \in Declared \ instantiated : UnitOf(n).kind # "udp"}

AutoTop == Done /\ ~Named

\* The units a later description of the kind has the name of.
TakenBy(kind) ==
  {n \in Declared : \E j \in LastAt(n)+1 .. Len(decls) : decls[j].kind = kind /\ decls[j].name = n}

\* More than one top, or one with an initial block.  A single one without is not
\* always found, nor one when a class has the name of the last unit read, a
\* primitive; and a package takes the slot of a unit declared before it, which
\* is then no top and instantiates nothing (README, observations).
TopsFound ==
  /\ TakenBy("package") = {}
  /\ \/ Cardinality(Uninstantiated) > 1
     \/ (\E n \in Uninstantiated : UnitOf(n).initial) /\ top_module \notin TakenBy("class")

\* The carrier of the compilation unit's declarations, chosen before the top
\* and in another way, is one of the roots: "Retain all bodies in a known
\* hierarchy root".  A library module may instantiate the carrier later, or be
\* the top that was named.
CarrierIsRoot ==
  (/\ Done /\ unit_carrier \in explicit_def_names
   /\ \A n \in DOMAIN definitions \ explicit_def_names : unit_carrier \notin definitions[n].insts
   /\ IF Named THEN cli.top \in explicit_def_names ELSE TopsFound)
  => unit_carrier \in ToSet(root)

\* root[i] starts before root[j]: it was declared first.
InSourceOrder ==
  \A i, j \in DOMAIN root : i < j =>
    \A l \in DOMAIN decls : (decls[l].kind \in Hierarchy /\ decls[l].name = root[j]) =>
      \E k \in 1 .. l : decls[k].kind \in Hierarchy /\ decls[k].name = root[i]

\* The design runs every module, interface and program the sources declare and
\* nothing instantiates, once, in source order, and nothing that is instantiated:
\* no initial block is left out and none runs twice (IEEE 1800 23.3.3); and the
\* declarations of the compilation unit are in a module that runs.
EveryTopRuns ==
  /\ CarrierIsRoot
  /\ AutoTop /\ TopsFound =>
       ToSet(root) = Uninstantiated /\ Len(root) = Cardinality(Uninstantiated) /\ InSourceOrder

Latest(kinds, n) == {i \in DOMAIN decls : decls[i].kind \in kinds /\ decls[i].name = n
                                          /\ \A j \in i+1 .. Len(decls) : ~(decls[j].kind \in kinds /\ decls[j].name = n)}

\* A class and a typedef live beside a module, an interface, a package or a
\* primitive of their name, in whatever order they are declared: the last one
\* of each name is registered.
DataNamesKept ==
  Done => \A n \in Names : /\ \A i \in Latest({"class"}, n) : n \in DOMAIN classes /\ classes[n] = i
                           /\ \A i \in Latest({"typedef"}, n) : n \in DOMAIN typedefs /\ typedefs[n] = i
=============================================================================
