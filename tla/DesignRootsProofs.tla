-------------------------- MODULE DesignRootsProofs -------------------------
(***************************************************************************)
(* The invariants of DesignRoots, for every set of names, descriptions and *)
(* libraries and any number of descriptions.                               *)
(*                                                                         *)
(* DataNamesKept follows from class_defs and typedef_defs having the last  *)
(* description of each name, and from a slot that holds a class or a       *)
(* typedef holding that one: only then is what Elaborate finds in the      *)
(* registry what the two maps have.  EveryTopRuns needs that the units are *)
(* sorted by where they were first declared (FirstDeclared), that sorting  *)
(* leaves every unit once (Sorted), that a slot holds the last unit of its *)
(* name the sources declare unless a package took it (UnitsHeld), and that *)
(* the library changes no slot of the sources between the choice of the    *)
(* carrier and that of the top (CarrierChosen, RootChosen).                *)
(***************************************************************************)
EXTENDS DesignRoots, OrderLemmas

-----------------------------------------------------------------------------
(* The inductive invariant *)

\* The phases a run goes through.
Phases == {"declare", "library", "top", "elaborate", "failed", "done"}

\* The registry: finitely many names, each slot what a slot holds.
SlotsOK ==
  /\ phase \in Phases
  /\ decls \in Seq(Descs) /\ def_source_pos \in Seq(Names)
  /\ top_module \in Names \cup {None} /\ cli.library \in Libraries
  /\ DOMAIN definitions \subseteq Names
  /\ \A n \in DOMAIN definitions : definitions[n] \in Definition
  /\ explicit_def_names \subseteq DOMAIN definitions

\* f has the position in ds of the last description of each name of the kind.
LastIn(ds, kind, f) ==
  /\ \A n \in DOMAIN f : f[n] \in DOMAIN ds /\ ds[f[n]].kind = kind /\ ds[f[n]].name = n
  /\ \A i \in DOMAIN ds : ds[i].kind = kind => ds[i].name \in DOMAIN f /\ i <= f[ds[i].name]

\* A slot among S that holds such a description holds the last one of its name.
HeldIn(ds, kind, f, S, defs) ==
  \A n \in S : defs[n].kind = kind => n \in DOMAIN f /\ defs[n] = ds[f[n]]

\* The slots the sources themselves have filled.
Own == IF phase = "declare" THEN DOMAIN definitions ELSE explicit_def_names

\* The same slots hold the same.
Agree(f, g) == DOMAIN f = DOMAIN g /\ \A n \in DOMAIN f : f[n] = g[n]

\* The last class and typedef of each name is remembered at its position.
DataNames ==
  /\ LastIn(decls, "class", class_defs) /\ LastIn(decls, "typedef", typedef_defs)
  /\ HeldIn(decls, "class", class_defs, Own, definitions)
  /\ HeldIn(decls, "typedef", typedef_defs, Own, definitions)
  /\ phase = "done" => Agree(classes, class_defs) /\ Agree(typedefs, typedef_defs)

\* One of the first l descriptions declares the unit x of the hierarchy.
DeclaredIn(ds, x, l) == \E k \in 1 .. l : ds[k].kind \in Hierarchy /\ ds[k].name = x

\* def_source_pos lists the units of the hierarchy as they were first declared.
FirstDeclared ==
  /\ \A i \in DOMAIN decls : decls[i].kind \in Hierarchy => decls[i].name \in ToSet(def_source_pos)
  /\ \A p \in DOMAIN def_source_pos : DeclaredIn(decls, def_source_pos[p], Len(decls))
  /\ \A l \in DOMAIN decls : \A p \in DOMAIN def_source_pos :
       decls[l].kind \in Hierarchy /\ decls[l].name = def_source_pos[p] =>
         \A q \in 1 .. p : DeclaredIn(decls, def_source_pos[q], l)

\* ds[i] is the last description that declares the unit n, says what it says of
\* it, and taken that a later one of the kind has its name.
Stands(ds, n, i) == i \in DOMAIN ds /\ n \in UnitsOf(ds[i]) /\ \A j \in i+1 .. Len(ds) : n \notin UnitsOf(ds[j])
Says(d, n) == IF n = d.name THEN d ELSE Inner(n)
Taken(ds, n, i, kind) == \E j \in i+1 .. Len(ds) : ds[j].kind = kind /\ ds[j].name = n

\* The slot x holds the unit u, a primitive unless data took its slot.
Holds(x, u, byclass) ==
  /\ u.kind # "udp" => x.kind \in Hierarchy /\ x.insts = u.insts /\ x.initial = u.initial
  /\ u.kind = "udp" /\ ~byclass => x.kind \in {"udp", "typedef"}

\* The slots S against the units that ds declares.
HeldUnits(ds, S, defs) ==
  /\ \A n, i : Stands(ds, n, i) /\ ~Taken(ds, n, i, "package") =>
        n \in S /\ Holds(defs[n], Says(ds[i], n), Taken(ds, n, i, "class"))
  /\ \A n \in S : defs[n].kind \in Hierarchy =>
        \E i : Stands(ds, n, i) /\ ~Taken(ds, n, i, "package") /\ Says(ds[i], n).kind # "udp"
  /\ \A i \in DOMAIN ds : \A n \in UnitsOf(ds[i]) : \E k : Stands(ds, n, k)

\* The registry has the units of the sources, the last unit read among them.
UnitsHeld ==
  /\ HeldUnits(decls, Own, definitions)
  /\ top_module # None => \E i \in DOMAIN decls : top_module \in UnitsOf(decls[i])

\* The roots of the explicit sources alone.
ExplicitUnits == {n \in explicit_def_names : definitions[n].kind \in Hierarchy}
ExplicitRoots == {n \in ExplicitUnits : \A m \in ExplicitUnits : n \notin definitions[m].insts}

\* The carrier was chosen among the units of the sources.
CarrierChosen ==
  /\ cli.top \in explicit_def_names => unit_carrier \in {cli.top, None}
  /\ cli.top \in ExplicitUnits => unit_carrier = cli.top
  /\ cli.top \notin explicit_def_names => unit_carrier \in ExplicitRoots \cup {None}

\* What the choice of the top leaves, until the end.
RootChosen ==
  phase \in {"elaborate", "done"} =>
    /\ Named => root = <<cli.top>>
    /\ ~Named /\ TopsFound =>
         ToSet(root) = Uninstantiated /\ Len(root) = Cardinality(Uninstantiated) /\ InSourceOrder

\* The inductive invariant.
IInv == SlotsOK /\ DataNames /\ FirstDeclared /\ UnitsHeld /\ (phase # "declare" => CarrierChosen) /\ RootChosen

-----------------------------------------------------------------------------
(* The registry *)

\* One map laid over another.
LEMMA OverFacts ==
  ASSUME NEW f, NEW g
  PROVE  /\ DOMAIN Over(f, g) = DOMAIN f \cup DOMAIN g
         /\ \A n \in DOMAIN f : Over(f, g)[n] = f[n]
         /\ \A n \in DOMAIN g \ DOMAIN f : Over(f, g)[n] = g[n]
BY DEF Over

\* A slot that is put in a map.
LEMMA PutFacts ==
  ASSUME NEW f, NEW n, NEW x
  PROVE  /\ DOMAIN Put(f, n, x) = DOMAIN f \cup {n}
         /\ Put(f, n, x)[n] = x
         /\ \A m \in DOMAIN f \ {n} : Put(f, n, x)[m] = f[m]
BY DEF Over, Put

\* What a description adds to the sequence.
LEMMA AppendFacts ==
  ASSUME NEW S, NEW s \in Seq(S), NEW x \in S
  PROVE  /\ Append(s, x) \in Seq(S) /\ Len(s) \in Nat
         /\ DOMAIN s = 1 .. Len(s)
         /\ DOMAIN Append(s, x) = 1 .. Len(s) + 1
         /\ Append(s, x)[Len(s) + 1] = x
         /\ \A i \in 1 .. Len(s) : Append(s, x)[i] = s[i]
OBVIOUS

\* A description of another kind leaves the last positions as they are, one of
\* the kind is the last of its name.
LEMMA LastKept ==
  ASSUME NEW ds \in Seq(Descs), NEW d \in Descs, NEW kind, NEW f, LastIn(ds, kind, f), d.kind # kind
  PROVE  LastIn(Append(ds, d), kind, f)
BY AppendFacts DEF LastIn

\* The description that is read becomes the last of its name and kind.
LEMMA LastTaken ==
  ASSUME NEW ds \in Seq(Descs), NEW d \in Descs, NEW kind, NEW f, LastIn(ds, kind, f), d.kind = kind
  PROVE  LastIn(Append(ds, d), kind, Put(f, d.name, Len(ds) + 1))
<1> DEFINE g == Put(f, d.name, Len(ds) + 1)
<1>1. /\ DOMAIN g = DOMAIN f \cup {d.name}
      /\ g[d.name] = Len(ds) + 1
      /\ \A m \in DOMAIN f \ {d.name} : g[m] = f[m]
  BY DEF Over, Put
<1> HIDE DEF g
<1>2. /\ Len(ds) \in Nat /\ DOMAIN ds = 1 .. Len(ds)
      /\ DOMAIN Append(ds, d) = 1 .. Len(ds) + 1 /\ Append(ds, d)[Len(ds) + 1] = d
      /\ \A i \in 1 .. Len(ds) : Append(ds, d)[i] = ds[i]
  BY AppendFacts
<1>3. \A n \in DOMAIN f : f[n] \in 1 .. Len(ds) /\ ds[f[n]].kind = kind /\ ds[f[n]].name = n
  BY <1>2 DEF LastIn
<1>4. \A i \in 1 .. Len(ds) : ds[i].kind = kind => ds[i].name \in DOMAIN f /\ i <= f[ds[i].name]
  BY <1>2 DEF LastIn
<1> DEFINE es == Append(ds, d)
<1> HIDE DEF es
<1>5. /\ DOMAIN es = 1 .. Len(ds) + 1 /\ es[Len(ds) + 1] = d
      /\ \A i \in 1 .. Len(ds) : es[i] = ds[i]
  BY <1>2 DEF es
<1>6. \A n \in DOMAIN g : g[n] \in DOMAIN es /\ es[g[n]].kind = kind /\ es[g[n]].name = n
  BY <1>1, <1>2, <1>3, <1>5
<1>7. ASSUME NEW i \in DOMAIN es, es[i].kind = kind
      PROVE  es[i].name \in DOMAIN g /\ i <= g[es[i].name]
  <2>1. CASE i = Len(ds) + 1
    BY <1>1, <1>2, <1>5, <2>1
  <2>2. CASE i \in 1 .. Len(ds)
    <3>1. es[i] = ds[i] /\ ds[i].name \in DOMAIN f /\ i <= f[ds[i].name]
      BY <1>4, <1>5, <1>7, <2>2
    <3> QED
      BY <1>1, <1>2, <1>3, <2>2, <3>1
  <2> QED
    BY <1>2, <1>5, <2>1, <2>2
<1> QED
  BY <1>6, <1>7 DEF LastIn, g, es

\* The slots of the other names keep what they held.
LEMMA HeldKept ==
  ASSUME NEW ds \in Seq(Descs), NEW d \in Descs, NEW kind, NEW f, NEW S, NEW defs,
         LastIn(ds, kind, f), HeldIn(ds, kind, f, S, defs)
  PROVE  HeldIn(Append(ds, d), kind, f, S, defs)
BY AppendFacts DEF LastIn, HeldIn

-----------------------------------------------------------------------------
(* Reading the descriptions *)

\* A description keeps the types of the registry.
LEMMA DeclareSlots ==
  ASSUME SlotsOK, NEW d, NEW defs, Declare(d, defs),
         DOMAIN definitions \subseteq DOMAIN defs, DOMAIN defs \subseteq Names,
         \A n \in DOMAIN defs : defs[n] \in Definition
  PROVE  SlotsOK'
<1>1. d \in Descs /\ d.name \in Names
  BY DescsAssumption DEF Declare, Description
<1>2. decls' \in Seq(Descs) /\ def_source_pos' \in Seq(Names)
  BY <1>1, AppendFacts DEF SlotsOK, Declare
<1> QED
  BY <1>1, <1>2 DEF SlotsOK, Declare

\* A description keeps the order of the first declarations.
LEMMA DeclareOrder ==
  ASSUME SlotsOK, FirstDeclared, NEW d, NEW defs, Declare(d, defs)
  PROVE  FirstDeclared'
<1>1. d \in Descs /\ d.name \in Names
  BY DescsAssumption DEF Declare, Description
<1>2. decls \in Seq(Descs) /\ decls' = Append(decls, d) /\ def_source_pos \in Seq(Names)
  BY DEF SlotsOK, Declare
<1>3. /\ Len(decls) \in Nat /\ DOMAIN decls = 1 .. Len(decls)
      /\ DOMAIN decls' = 1 .. Len(decls) + 1 /\ Len(decls') = Len(decls) + 1
      /\ decls'[Len(decls) + 1] = d /\ \A i \in 1 .. Len(decls) : decls'[i] = decls[i]
  BY <1>1, <1>2, AppendFacts
<1>a. \A x : \A l \in 1 .. Len(decls) : DeclaredIn(decls', x, l) <=> DeclaredIn(decls, x, l)
  BY <1>3 DEF DeclaredIn
<1>b. \A x : DeclaredIn(decls', x, Len(decls) + 1) <=> DeclaredIn(decls, x, Len(decls)) \/ (d.kind \in Hierarchy /\ d.name = x)
  <2> SUFFICES ASSUME NEW x PROVE DeclaredIn(decls', x, Len(decls) + 1) <=> DeclaredIn(decls, x, Len(decls)) \/ (d.kind \in Hierarchy /\ d.name = x)
    OBVIOUS
  <2>1. \A k : k \in 1 .. Len(decls) + 1 <=> k \in 1 .. Len(decls) \/ k = Len(decls) + 1
    BY <1>3
  <2>2. DeclaredIn(decls', x, Len(decls) + 1) <=> \E k \in 1 .. Len(decls) + 1 : decls'[k].kind \in Hierarchy /\ decls'[k].name = x
    BY <1>3 DEF DeclaredIn
  <2> QED
    BY <1>3, <2>1, <2>2 DEF DeclaredIn
<1>4. CASE d.kind \in Hierarchy /\ d.name \notin ToSet(def_source_pos)
  <2>1. def_source_pos' = Append(def_source_pos, d.name)
    BY <1>4 DEF Declare
  <2>2. /\ Len(def_source_pos) \in Nat /\ DOMAIN def_source_pos = 1 .. Len(def_source_pos)
        /\ DOMAIN def_source_pos' = 1 .. Len(def_source_pos) + 1
        /\ def_source_pos'[Len(def_source_pos) + 1] = d.name
        /\ \A i \in 1 .. Len(def_source_pos) : def_source_pos'[i] = def_source_pos[i]
    BY <1>1, <1>2, <2>1, AppendFacts
  <2>3. \A x : x \in ToSet(def_source_pos') <=> (x \in ToSet(def_source_pos) \/ x = d.name)
    BY <2>2 DEF ToSet
  <2>4. \A i \in DOMAIN decls' : decls'[i].kind \in Hierarchy => decls'[i].name \in ToSet(def_source_pos')
    BY <1>3, <2>3 DEF FirstDeclared
  <2>5. \A p \in DOMAIN def_source_pos' : DeclaredIn(decls', def_source_pos'[p], Len(decls) + 1)
    BY <1>3, <1>b, <1>4, <2>2 DEF FirstDeclared
  <2>6. ASSUME NEW l \in DOMAIN decls', NEW p \in DOMAIN def_source_pos',
               decls'[l].kind \in Hierarchy /\ decls'[l].name = def_source_pos'[p], NEW q \in 1 .. p
        PROVE  DeclaredIn(decls', def_source_pos'[q], l)
    <3>1. CASE l = Len(decls) + 1
      BY <2>2, <2>5, <3>1
    <3>2. CASE l \in 1 .. Len(decls)
      <4>1. decls'[l] = decls[l] /\ l \in DOMAIN decls
        BY <1>3, <3>2
      <4>2. decls[l].name \in ToSet(def_source_pos)
        BY <2>6, <4>1 DEF FirstDeclared
      <4>3. p \in DOMAIN def_source_pos
        BY <1>4, <2>2, <2>6, <4>1, <4>2
      <4>4. DeclaredIn(decls, def_source_pos[q], l)
        BY <2>2, <2>6, <4>1, <4>3 DEF FirstDeclared
      <4>5. def_source_pos'[q] = def_source_pos[q]
        BY <2>2, <4>3
      <4> QED
        BY <1>a, <3>2, <4>4, <4>5
    <3> QED
      BY <1>3, <3>1, <3>2
  <2> QED
    BY <1>3, <2>4, <2>5, <2>6 DEF FirstDeclared
<1>5. CASE ~(d.kind \in Hierarchy /\ d.name \notin ToSet(def_source_pos))
  <2>1. def_source_pos' = def_source_pos
    BY <1>5 DEF Declare
  <2>2. Len(def_source_pos) \in Nat /\ DOMAIN def_source_pos = 1 .. Len(def_source_pos)
    BY <1>2
  <2>3. \A i \in DOMAIN decls' : decls'[i].kind \in Hierarchy => decls'[i].name \in ToSet(def_source_pos')
    BY <1>3, <1>5, <2>1 DEF FirstDeclared
  <2>4. \A p \in DOMAIN def_source_pos' : DeclaredIn(decls', def_source_pos'[p], Len(decls) + 1)
    BY <1>3, <1>b, <2>1 DEF FirstDeclared
  <2>5. ASSUME NEW l \in DOMAIN decls', NEW p \in DOMAIN def_source_pos',
               decls'[l].kind \in Hierarchy /\ decls'[l].name = def_source_pos'[p], NEW q \in 1 .. p
        PROVE  DeclaredIn(decls', def_source_pos'[q], l)
    <3>1. CASE l = Len(decls) + 1
      BY <2>1, <2>2, <2>4, <3>1
    <3>2. CASE l \in 1 .. Len(decls)
      <4>1. DeclaredIn(decls, def_source_pos[q], l)
        BY <1>3, <2>1, <2>5, <3>2 DEF FirstDeclared
      <4> QED
        BY <1>a, <2>1, <3>2, <4>1
    <3> QED
      BY <1>3, <3>1, <3>2
  <2> QED
    BY <1>3, <2>3, <2>4, <2>5 DEF FirstDeclared
<1> QED
  BY <1>4, <1>5

\* A slot that a description leaves alone is not of its kind and name: the
\* last class, and the last typedef, of a name that holds its slot is in it.
LEMMA DeclareData ==
  ASSUME SlotsOK, DataNames, NEW d, NEW defs, Declare(d, defs),
         class_defs' = IF d.kind = "class" THEN Put(class_defs, d.name, Len(decls) + 1) ELSE class_defs,
         typedef_defs' = IF d.kind = "typedef" THEN Put(typedef_defs, d.name, Len(decls) + 1) ELSE typedef_defs,
         \A n \in DOMAIN defs :
           \/ /\ n \in DOMAIN definitions /\ defs[n] = definitions[n]
              /\ ~(n = d.name /\ d.kind = defs[n].kind)
           \/ n = d.name /\ defs[n] = d
           \/ defs[n].kind \notin {"class", "typedef"}
  PROVE  DataNames'
<1>1. d \in Descs /\ decls \in Seq(Descs) /\ decls' = Append(decls, d) /\ definitions' = defs
  BY DEF SlotsOK, Declare
<1>2. phase = "declare" /\ phase' = "declare" /\ Own = DOMAIN definitions /\ Own' = DOMAIN defs
  BY <1>1 DEF Declare, Own
<1>3. LastIn(decls', "class", class_defs')
  BY <1>1, LastKept, LastTaken DEF DataNames
<1>4. LastIn(decls', "typedef", typedef_defs')
  BY <1>1, LastKept, LastTaken DEF DataNames
<1>5. /\ Len(decls) \in Nat /\ decls'[Len(decls) + 1] = d
      /\ DOMAIN decls = 1 .. Len(decls) /\ \A i \in 1 .. Len(decls) : decls'[i] = decls[i]
  BY <1>1, AppendFacts
<1>6. ASSUME NEW kind \in {"class", "typedef"}, NEW f, NEW g, LastIn(decls, kind, f),
             HeldIn(decls, kind, f, DOMAIN definitions, definitions),
             g = IF d.kind = kind THEN Put(f, d.name, Len(decls) + 1) ELSE f
      PROVE  HeldIn(decls', kind, g, DOMAIN defs, defs)
  <2>1. SUFFICES ASSUME NEW n \in DOMAIN defs, defs[n].kind = kind
                 PROVE  n \in DOMAIN g /\ defs[n] = decls'[g[n]]
    BY DEF HeldIn
  <2>2. CASE n \in DOMAIN definitions /\ defs[n] = definitions[n] /\ ~(n = d.name /\ d.kind = defs[n].kind)
    <3>1. n \in DOMAIN f /\ defs[n] = decls[f[n]]
      BY <1>6, <2>1, <2>2 DEF HeldIn
    <3>2. f[n] \in 1 .. Len(decls)
      BY <1>5, <1>6, <3>1 DEF LastIn
    <3>3. n \in DOMAIN g /\ g[n] = f[n]
      BY <1>6, <2>1, <2>2, <3>1 DEF Put, Over
    <3> QED
      BY <1>5, <3>1, <3>2, <3>3
  <2>3. CASE n = d.name /\ defs[n] = d
    <3>1. d.kind = kind
      BY <2>1, <2>3
    <3>2. g = Put(f, n, Len(decls) + 1)
      BY <1>6, <2>3, <3>1
    <3>3. n \in DOMAIN g /\ g[n] = Len(decls) + 1
      BY <3>2 DEF Put, Over
    <3> QED
      BY <1>5, <2>3, <3>3
  <2> QED
    BY <2>1, <2>2, <2>3
<1>7. HeldIn(decls', "class", class_defs', DOMAIN defs, defs)
  BY <1>2, <1>6 DEF DataNames
<1>8. HeldIn(decls', "typedef", typedef_defs', DOMAIN defs, defs)
  BY <1>2, <1>6 DEF DataNames
<1> QED
  BY <1>1, <1>2, <1>3, <1>4, <1>7, <1>8 DEF DataNames

\* A description gives its units their slots.  Every other slot is as it was,
\* unless it is the description's own and no unit's, or a package's.
UnitSlots(d, defs) ==
  /\ DOMAIN definitions \subseteq DOMAIN defs
  /\ \A n \in UnitsOf(d) : /\ n \in DOMAIN defs /\ Holds(defs[n], Says(d, n), FALSE)
                           /\ Says(d, n).kind = "udp" => defs[n].kind \notin Hierarchy
  /\ \A n \in DOMAIN defs \ UnitsOf(d) :
       \/ n \in DOMAIN definitions /\ defs[n] = definitions[n] /\ (n = d.name => d.kind \in {"class", "typedef", "forward"})
       \/ n = d.name /\ d.kind \in {"package", "class"} /\ defs[n].kind \notin Hierarchy
                     /\ (d.kind = "class" => Slot(n) \notin Hierarchy)
       \/ n = d.name /\ d.kind = "typedef" /\ defs[n].kind = "typedef" /\ Slot(n) \notin Hierarchy
       \/ n = d.name /\ d.kind = "forward" /\ defs[n].kind = "forward" /\ n \notin DOMAIN definitions

\* The last unit of a name has its slot after every description.
LEMMA DeclareUnits ==
  ASSUME SlotsOK, UnitsHeld, NEW d, NEW defs, Declare(d, defs), UnitSlots(d, defs)
  PROVE  UnitsHeld'
<1> DEFINE N == Len(decls)
<1>1. d \in Descs /\ decls \in Seq(Descs) /\ decls' = Append(decls, d) /\ definitions' = defs
  BY DEF SlotsOK, Declare
<1>2. phase = "declare" /\ phase' = "declare" /\ Own = DOMAIN definitions /\ Own' = DOMAIN defs
  BY <1>1 DEF Declare, Own
<1> DEFINE es == Append(decls, d)
<1> HIDE DEF es
<1>3. /\ N \in Nat /\ DOMAIN decls = 1 .. N /\ DOMAIN es = 1 .. N + 1 /\ Len(es) = N + 1
      /\ es[N + 1] = d /\ \A i \in 1 .. N : es[i] = decls[i]
  BY <1>1, AppendFacts DEF es
<1>4. HeldUnits(decls, DOMAIN definitions, definitions)
  BY <1>2 DEF UnitsHeld
<1> HIDE DEF N
<1>5. \A n \in UnitsOf(d) : \A i : Stands(es, n, i) <=> i = N + 1
  <2> SUFFICES ASSUME NEW n \in UnitsOf(d), NEW i PROVE Stands(es, n, i) <=> i = N + 1
    OBVIOUS
  <2>1. ASSUME i = N + 1 PROVE Stands(es, n, i)
    BY <1>3, <2>1 DEF Stands
  <2>2. ASSUME Stands(es, n, i), i # N + 1 PROVE FALSE
    <3>1. i \in 1 .. N /\ N + 1 \in i+1 .. Len(es)
      BY <1>3, <2>2 DEF Stands
    <3> QED
      BY <1>3, <2>2, <3>1 DEF Stands
  <2> QED
    BY <2>1, <2>2
<1>6. \A n : n \notin UnitsOf(d) => \A i : Stands(es, n, i) <=> Stands(decls, n, i)
  <2> SUFFICES ASSUME NEW n, n \notin UnitsOf(d), NEW i PROVE Stands(es, n, i) <=> Stands(decls, n, i)
    OBVIOUS
  <2>1. i \in DOMAIN es /\ i \notin DOMAIN decls => i = N + 1
    BY <1>3
  <2>2. CASE i \in 1 .. N
    <3>1. \A j : j \in i+1 .. Len(es) <=> j \in i+1 .. N \/ j = N + 1
      BY <1>3, <2>2
    <3>2. \A j \in i+1 .. N : es[j] = decls[j]
      BY <1>3, <2>2
    <3> QED
      BY <1>3, <2>2, <3>1, <3>2 DEF Stands, N
  <2> QED
    BY <1>3, <2>1, <2>2 DEF Stands
<1>7. \A n, kind : ~Taken(es, n, N + 1, kind)
  BY <1>3 DEF Taken
<1>8. \A n, kind : \A i \in 1 .. N : Taken(es, n, i, kind) <=> Taken(decls, n, i, kind) \/ (d.kind = kind /\ d.name = n)
  <2> SUFFICES ASSUME NEW n, NEW kind, NEW i \in 1 .. N
               PROVE  Taken(es, n, i, kind) <=> Taken(decls, n, i, kind) \/ (d.kind = kind /\ d.name = n)
    OBVIOUS
  <2>1. \A j : j \in i+1 .. Len(es) <=> j \in i+1 .. N \/ j = N + 1
    BY <1>3
  <2>2. \A j \in i+1 .. N : es[j] = decls[j]
    BY <1>3
  <2> QED
    BY <1>3, <2>1, <2>2 DEF Taken, N
<1>9. ASSUME NEW n, NEW i, Stands(es, n, i), ~Taken(es, n, i, "package")
      PROVE  n \in DOMAIN defs /\ Holds(defs[n], Says(es[i], n), Taken(es, n, i, "class"))
  <2>1. CASE n \in UnitsOf(d)
    BY <1>3, <1>5, <1>9, <2>1 DEF UnitSlots, Holds
  <2>2. CASE n \notin UnitsOf(d)
    <3>1. Stands(decls, n, i) /\ i \in 1 .. N /\ es[i] = decls[i]
      BY <1>3, <1>6, <1>9, <2>2 DEF Stands
    <3>2. ~Taken(decls, n, i, "package") /\ ~(d.kind = "package" /\ d.name = n)
      BY <1>8, <1>9, <3>1
    <3>3. n \in DOMAIN definitions /\ Holds(definitions[n], Says(decls[i], n), Taken(decls, n, i, "class"))
      BY <1>4, <3>1, <3>2 DEF HeldUnits
    <3>4. Taken(es, n, i, "class") <=> Taken(decls, n, i, "class") \/ (d.kind = "class" /\ d.name = n)
      BY <1>8, <3>1
    <3>5. n \in DOMAIN defs \ UnitsOf(d) /\ Slot(n) = definitions[n].kind
      BY <2>2, <3>3 DEF UnitSlots, Slot
    <3>6. CASE defs[n] = definitions[n]
      BY <3>1, <3>3, <3>4, <3>5, <3>6 DEF Holds
    <3>7. CASE defs[n] # definitions[n]
      <4>1. \/ d.kind = "class" /\ n = d.name /\ definitions[n].kind \notin Hierarchy
            \/ defs[n].kind = "typedef" /\ definitions[n].kind \notin Hierarchy
        BY <3>2, <3>3, <3>5, <3>7 DEF UnitSlots
      <4>2. Says(decls[i], n).kind = "udp"
        BY <3>3, <4>1 DEF Holds
      <4>3. CASE d.kind = "class" /\ n = d.name
        BY <3>1, <3>4, <3>5, <4>2, <4>3 DEF Holds
      <4>4. CASE defs[n].kind = "typedef"
        BY <3>1, <3>5, <4>2, <4>4 DEF Holds
      <4> QED
        BY <4>1, <4>3, <4>4
    <3> QED
      BY <3>6, <3>7
  <2> QED
    BY <2>1, <2>2
<1>10. ASSUME NEW n \in DOMAIN defs, defs[n].kind \in Hierarchy
       PROVE  \E i : Stands(es, n, i) /\ ~Taken(es, n, i, "package") /\ Says(es[i], n).kind # "udp"
  <2>1. CASE n \in UnitsOf(d)
    BY <1>3, <1>5, <1>7, <1>10, <2>1 DEF UnitSlots
  <2>2. CASE n \notin UnitsOf(d)
    <3>1. n \in DOMAIN definitions /\ defs[n] = definitions[n] /\ ~(d.kind = "package" /\ d.name = n)
      BY <1>10, <2>2 DEF UnitSlots, Hierarchy
    <3>2. PICK i : Stands(decls, n, i) /\ ~Taken(decls, n, i, "package") /\ Says(decls[i], n).kind # "udp"
      BY <1>4, <1>10, <3>1 DEF HeldUnits
    <3>3. i \in 1 .. N /\ es[i] = decls[i]
      BY <1>3, <3>2 DEF Stands
    <3> QED
      BY <1>6, <1>8, <2>2, <3>1, <3>2, <3>3
  <2> QED
    BY <2>1, <2>2
<1>11. ASSUME NEW i \in DOMAIN es, NEW n \in UnitsOf(es[i]) PROVE \E k : Stands(es, n, k)
  <2>1. CASE n \in UnitsOf(d)
    BY <1>5, <2>1
  <2>2. CASE n \notin UnitsOf(d)
    <3>1. i \in DOMAIN decls /\ es[i] = decls[i]
      BY <1>3, <1>11, <2>2
    <3> QED
      BY <1>4, <1>6, <1>11, <2>2, <3>1 DEF HeldUnits
  <2> QED
    BY <2>1, <2>2
<1>12. HeldUnits(decls', Own', definitions')
  BY <1>1, <1>2, <1>9, <1>10, <1>11 DEF HeldUnits, es
<1>13. ASSUME top_module' # None PROVE \E i \in DOMAIN decls' : top_module' \in UnitsOf(decls'[i])
  <2>1. CASE d.kind \in {"module", "program", "udp"}
    <3>1. top_module' = d.name /\ d.name \in UnitsOf(d)
      BY <2>1 DEF Declare, UnitsOf, Hierarchy
    <3> QED
      BY <1>1, <1>3, <3>1 DEF es
  <2>2. CASE d.kind \notin {"module", "program", "udp"}
    <3>1. top_module' = top_module
      BY <2>2 DEF Declare
    <3> QED
      BY <1>1, <1>3, <1>13, <3>1 DEF UnitsHeld, es
  <2> QED
    BY <2>1, <2>2
<1> QED
  BY <1>12, <1>13 DEF UnitsHeld

\* What the declarations keep of the invariant.
DInv == SlotsOK /\ DataNames /\ FirstDeclared /\ UnitsHeld

\* A step of the description loop reads one of the descriptions.
LEMMA DescFacts ==
  ASSUME NEW d \in Descs
  PROVE  /\ d \in Description /\ Plain(d) /\ d.name \in Names /\ d.nested \subseteq Names
         /\ d.kind # "checker" => d \in Definition
BY DescsAssumption DEF Description, Definition

\* One lemma for each kind of description.
LEMMA ModuleInv ==
  ASSUME DInv, NEW d, DeclareModule(d)
  PROVE  DInv'
<1> DEFINE old == Over([n \in d.nested |-> Inner(n)], definitions)
           defs == Put(old, d.name, d)
<1>1. d \in Descs /\ d.kind = "module" /\ Declare(d, defs) /\ class_defs' = class_defs /\ typedef_defs' = typedef_defs
  BY DEF DeclareModule, Declare
<1>2. d \in Definition /\ d.name \in Names /\ d.nested \subseteq Names
  BY <1>1, DescFacts
<1>3. /\ DOMAIN old = d.nested \cup DOMAIN definitions
      /\ \A n \in d.nested : old[n] = Inner(n)
      /\ \A n \in DOMAIN definitions \ d.nested : old[n] = definitions[n]
  BY DEF Over
<1>4. /\ DOMAIN defs = DOMAIN old \cup {d.name} /\ defs[d.name] = d
      /\ \A n \in DOMAIN old \ {d.name} : defs[n] = old[n]
  BY DEF Over, Put
<1>5. \A n \in Names : Inner(n) \in Definition /\ Inner(n).kind = "module"
  BY DEF Inner, Definition, Description, Plain, Hierarchy
<1> HIDE DEF old, defs
<1>6. SlotsOK'
  BY <1>1, <1>2, <1>3, <1>4, <1>5, DeclareSlots DEF DInv, SlotsOK
<1>7. DataNames'
  BY <1>1, <1>2, <1>3, <1>4, <1>5, DeclareData DEF DInv
<1>8. UnitSlots(d, defs)
  <2>1. UnitsOf(d) = {d.name} \cup d.nested
    BY <1>1 DEF UnitsOf, Hierarchy
  <2>2. \A n \in UnitsOf(d) : n \in DOMAIN defs /\ defs[n] = Says(d, n) /\ defs[n].kind \in Hierarchy /\ defs[n].kind # "udp"
    BY <1>1, <1>2, <1>3, <1>4, <1>5, <2>1 DEF Says, Hierarchy
  <2>3. \A n \in DOMAIN defs \ UnitsOf(d) : n # d.name /\ n \in DOMAIN definitions /\ defs[n] = definitions[n]
    BY <1>3, <1>4, <2>1
  <2> QED
    BY <1>3, <1>4, <2>2, <2>3 DEF UnitSlots, Holds
<1> QED
  BY <1>1, <1>6, <1>7, <1>8, DeclareOrder, DeclareUnits DEF DInv

\* An interface or a program.
LEMMA UnitInv ==
  ASSUME DInv, NEW d, DeclareUnit(d) \/ DeclarePackage(d) \/ DeclareUdp(d)
  PROVE  DInv'
<1> DEFINE defs == Put(definitions, d.name, d)
<1>1. /\ d \in Descs /\ d.kind \in {"interface", "program", "package", "udp"}
      /\ Declare(d, defs) /\ class_defs' = class_defs /\ typedef_defs' = typedef_defs
  BY DEF DeclareUnit, DeclarePackage, DeclareUdp, Declare
<1>2. d \in Definition /\ d.name \in Names
  BY <1>1, DescFacts
<1>3. /\ DOMAIN defs = DOMAIN definitions \cup {d.name} /\ defs[d.name] = d
      /\ \A n \in DOMAIN definitions \ {d.name} : defs[n] = definitions[n]
  BY DEF Over, Put
<1> HIDE DEF defs
<1>4. SlotsOK'
  BY <1>1, <1>2, <1>3, DeclareSlots DEF DInv, SlotsOK
<1>5. DataNames'
  BY <1>1, <1>2, <1>3, DeclareData DEF DInv
<1>6. UnitSlots(d, defs)
  <2>1. UnitsOf(d) = IF d.kind = "package" THEN {} ELSE {d.name}
    BY <1>1 DEF UnitsOf, Hierarchy
  <2>2. \A n \in UnitsOf(d) : /\ n \in DOMAIN defs /\ Holds(defs[n], Says(d, n), FALSE)
                              /\ Says(d, n).kind = "udp" => defs[n].kind \notin Hierarchy
    BY <1>1, <1>3, <2>1 DEF Says, Holds, Hierarchy
  <2>3. ASSUME NEW n \in DOMAIN defs \ UnitsOf(d)
        PROVE  \/ n \in DOMAIN definitions /\ defs[n] = definitions[n] /\ n # d.name
               \/ n = d.name /\ d.kind = "package" /\ defs[n].kind \notin Hierarchy
    BY <1>1, <1>3, <2>1 DEF Hierarchy
  <2>4. DOMAIN definitions \subseteq DOMAIN defs
    BY <1>3
  <2> QED
    BY <2>2, <2>3, <2>4 DEF UnitSlots
<1> QED
  BY <1>1, <1>4, <1>5, <1>6, DeclareOrder, DeclareUnits DEF DInv

\* A checker.
LEMMA CheckerInv ==
  ASSUME DInv, NEW d, DeclareChecker(d)
  PROVE  DInv'
<1> DEFINE unit == [d EXCEPT !.kind = "module"]
           defs == Put(definitions, d.name, unit)
<1>1. /\ d \in Descs /\ d.kind = "checker"
      /\ Declare(d, defs) /\ class_defs' = class_defs /\ typedef_defs' = typedef_defs
  BY DEF DeclareChecker, Declare
<1>2. d \in Description /\ d.name \in Names
  BY <1>1, DescFacts
<1>3. unit \in Definition /\ unit.kind = "module"
  BY <1>2 DEF Definition, Description, Plain, Hierarchy
<1>4. /\ DOMAIN defs = DOMAIN definitions \cup {d.name} /\ defs[d.name] = unit
      /\ \A n \in DOMAIN definitions \ {d.name} : defs[n] = definitions[n]
  BY DEF Over, Put
<1> HIDE DEF defs, unit
<1>5. SlotsOK'
  BY <1>1, <1>2, <1>3, <1>4, DeclareSlots DEF DInv, SlotsOK
<1>6. DataNames'
  BY <1>1, <1>2, <1>3, <1>4, DeclareData DEF DInv
<1>7. UnitSlots(d, defs)
  <2>1. UnitsOf(d) = {d.name} /\ Says(d, d.name) = d
    BY <1>1 DEF UnitsOf, Says
  <2>2. unit.insts = d.insts /\ unit.initial = d.initial
    BY <1>2 DEF unit, Description
  <2>3. \A n \in DOMAIN defs \ UnitsOf(d) : n # d.name /\ n \in DOMAIN definitions /\ defs[n] = definitions[n]
    BY <1>4, <2>1
  <2> QED
    BY <1>1, <1>3, <1>4, <2>1, <2>2, <2>3 DEF UnitSlots, Holds, Hierarchy
<1> QED
  BY <1>1, <1>5, <1>6, <1>7, DeclareOrder, DeclareUnits DEF DInv

\* A class or a typedef that does not get the slot finds another kind in it.
LEMMA DataInv ==
  ASSUME DInv, NEW d, DeclareClass(d) \/ DeclareTypedef(d)
  PROVE  DInv'
<1> DEFINE taken == Put(definitions, d.name, d)
           left == Slot(d.name) \in Hierarchy \/ (d.kind = "forward" /\ Slot(d.name) # "free")
           defs == IF left THEN definitions ELSE taken
<1>1. d \in Descs /\ d.kind \in {"class", "typedef", "forward"}
  BY DEF DeclareClass, DeclareTypedef, Declare
<1>2. Declare(d, defs)
  BY DEF DeclareClass, DeclareTypedef
<1>3. /\ class_defs' = IF d.kind = "class" THEN Put(class_defs, d.name, Len(decls) + 1) ELSE class_defs
      /\ typedef_defs' = IF d.kind = "typedef" THEN Put(typedef_defs, d.name, Len(decls) + 1) ELSE typedef_defs
  BY DEF DeclareClass, DeclareTypedef, Next_position
<1>4. d \in Definition /\ d.name \in Names
  BY <1>1, DescFacts
<1>5. /\ DOMAIN taken = DOMAIN definitions \cup {d.name} /\ taken[d.name] = d
      /\ \A n \in DOMAIN definitions \ {d.name} : taken[n] = definitions[n]
  BY DEF Over, Put
<1> HIDE DEF taken
<1>6. SlotsOK'
  BY <1>1, <1>2, <1>4, <1>5, DeclareSlots DEF DInv, SlotsOK
<1>7. \A n \in DOMAIN definitions :
        left /\ n = d.name /\ d.kind = definitions[n].kind => definitions[n].kind = "forward"
  BY <1>1 DEF Slot, Hierarchy
<1>8. \A n \in DOMAIN defs :
        \/ /\ n \in DOMAIN definitions /\ defs[n] = definitions[n]
           /\ ~(n = d.name /\ d.kind = defs[n].kind)
        \/ n = d.name /\ defs[n] = d
        \/ defs[n].kind \notin {"class", "typedef"}
  BY <1>5, <1>7
<1>9. UnitSlots(d, defs)
  <2>1. UnitsOf(d) = {}
    BY <1>1 DEF UnitsOf, Hierarchy
  <2>2. CASE left
    <3>1. defs = definitions
      BY <2>2
    <3> QED
      BY <1>1, <2>1, <3>1 DEF UnitSlots
  <2>3. CASE ~left
    <3>1. defs = taken /\ Slot(d.name) \notin Hierarchy /\ (d.kind = "forward" => d.name \notin DOMAIN definitions)
      <4>1. d.name \in DOMAIN definitions => Slot(d.name) # "free"
        BY DEF DInv, SlotsOK, Slot, Definition, Description, Hierarchy
      <4> QED
        BY <2>3, <4>1
    <3>2. \A n \in DOMAIN taken \ {d.name} : n \in DOMAIN definitions /\ taken[n] = definitions[n]
      BY <1>5
    <3> QED
      BY <1>1, <1>5, <2>1, <3>1, <3>2 DEF UnitSlots, Hierarchy
  <2> QED
    BY <2>2, <2>3
<1> HIDE DEF defs
<1>10. DataNames'
  BY <1>2, <1>3, <1>8, DeclareData DEF DInv
<1> QED
  BY <1>2, <1>6, <1>9, <1>10, DeclareOrder, DeclareUnits DEF DInv

-----------------------------------------------------------------------------
(* Sorting *)

\* The order of the sources is strict and total on any names.
LEMMA SourceOrder ==
  ASSUME SlotsOK
  PROVE  /\ \A m : SourcePos(m) \in Nat
         /\ \A m \in Nat : ~Before(m, m)
         /\ \A m, n \in Nat : m # n => Before(m, n) \/ Before(n, m)
         /\ \A l, m, n \in Nat : Before(l, m) /\ Before(m, n) => Before(l, n)
<1>1. def_source_pos \in Seq(Names)
  BY DEF SlotsOK
<1>2. Len(def_source_pos) \in Nat /\ DOMAIN def_source_pos = 1 .. Len(def_source_pos)
  BY <1>1
<1>3. ASSUME NEW m PROVE SourcePos(m) \in Nat
  <2>1. CASE m \in ToSet(def_source_pos)
    <3>1. \E i \in DOMAIN def_source_pos : def_source_pos[i] = m
      BY <2>1 DEF ToSet
    <3>2. SourcePos(m) \in DOMAIN def_source_pos
      BY <2>1, <3>1 DEF SourcePos
    <3> QED
      BY <1>2, <3>2
  <2>2. CASE m \notin ToSet(def_source_pos)
    BY <1>2, <2>2 DEF SourcePos
  <2> QED
    BY <2>1, <2>2
<1> QED
  BY <1>3 DEF Before

\* Sorting by the order of the sources: every element once, in order.
LEMMA Sorted ==
  ASSUME SlotsOK, NEW S \in SUBSET Nat, IsFiniteSet(S), NEW s, s = InOrder(S, Before)
  PROVE  /\ DOMAIN s = 1 .. Cardinality(S) /\ Len(s) = Cardinality(S)
         /\ ToSet(s) = S
         /\ \A i, j \in DOMAIN s : i < j => Before(s[i], s[j])
         /\ S # {} => \E n \in S : \A m \in S \ {n} : Before(n, m)
<1> DEFINE R == {p \in S \X S : Before(p[1], p[2])}
           rank(n) == Cardinality({m \in S : <<m, n>> \in R})
           N == Cardinality(S)
<1>1. N \in Nat
  BY FS_CardinalityType
<1>2. \A m, n \in S : <<m, n>> \in R <=> Before(m, n)
  OBVIOUS
<1> HIDE DEF R
<1>3. /\ \A m \in S : <<m, m>> \notin R
      /\ \A m, n \in S : m # n => <<m, n>> \in R \/ <<n, m>> \in R
      /\ \A l, m, n \in S : <<l, m>> \in R /\ <<m, n>> \in R => <<l, n>> \in R
  BY <1>2, SourceOrder
<1>4. /\ \A n \in S : rank(n) \in 0 .. N - 1
      /\ \A m, n \in S : rank(m) < rank(n) <=> <<m, n>> \in R
      /\ \A k \in 0 .. N - 1 : \E n \in S : rank(n) = k
  BY <1>3, Ranking
<1>5. \A n \in S : {m \in S : Before(m, n)} = {m \in S : <<m, n>> \in R}
  BY <1>2
<1>6. s = [i \in 1 .. N |-> CHOOSE n \in S : Cardinality({m \in S : Before(m, n)}) = i - 1]
  BY DEF InOrder
<1>7. \A i \in 1 .. N : s[i] \in S /\ rank(s[i]) = i - 1
  <2> SUFFICES ASSUME NEW i \in 1 .. N PROVE s[i] \in S /\ rank(s[i]) = i - 1
    OBVIOUS
  <2>1. i - 1 \in 0 .. N - 1
    BY <1>1
  <2>2. \E n \in S : Cardinality({m \in S : Before(m, n)}) = i - 1
    BY <1>4, <1>5, <2>1
  <2>3. s[i] \in S /\ Cardinality({m \in S : Before(m, s[i])}) = i - 1
    BY <1>6, <2>2
  <2> QED
    BY <1>5, <2>3
<1>8. DOMAIN s = 1 .. N
  BY <1>6
<1> HIDE DEF rank, N
<1>9. Len(s) = N
  <2>1. s = [i \in 1 .. N |-> s[i]]
    BY <1>6, <1>8, Zenon
  <2>2. s \in [1 .. N -> S]
    BY <1>7, <2>1
  <2>3. s \in Seq(S)
    BY <1>1, <2>2
  <2> QED
    BY <1>1, <1>8, <2>3
<1>10. \A m, n \in S : rank(m) = rank(n) => m = n
  <2> SUFFICES ASSUME NEW m \in S, NEW n \in S, rank(m) = rank(n), m # n PROVE FALSE
    OBVIOUS
  <2>1. rank(m) \in Nat
    BY <1>1, <1>4
  <2>2. rank(m) < rank(n) \/ rank(n) < rank(m)
    BY <1>3, <1>4
  <2> QED
    BY <2>1, <2>2
<1>11. ToSet(s) = S
  <2>1. ASSUME NEW n \in S PROVE \E i \in 1 .. N : s[i] = n
    <3>1. rank(n) \in 0 .. N - 1
      BY <1>4
    <3>2. PICK i \in 1 .. N : i - 1 = rank(n)
      <4>1. \A k \in 0 .. N - 1 : k + 1 \in 1 .. N /\ k + 1 - 1 = k
        BY <1>1
      <4> QED
        BY <3>1, <4>1
    <3>3. s[i] \in S /\ rank(s[i]) = rank(n)
      BY <1>7, <3>2
    <3> QED
      BY <1>10, <3>2, <3>3
  <2> QED
    BY <1>7, <1>8, <2>1 DEF ToSet
<1>12. \A i, j \in DOMAIN s : i < j => Before(s[i], s[j])
  <2> SUFFICES ASSUME NEW i \in 1 .. N, NEW j \in 1 .. N, i < j PROVE Before(s[i], s[j])
    BY <1>8
  <2>1. rank(s[i]) < rank(s[j])
    BY <1>1, <1>7
  <2> QED
    BY <1>2, <1>4, <1>7, <2>1
<1>13. ASSUME S # {} PROVE \E n \in S : \A m \in S \ {n} : Before(n, m)
  <2>1. N # 0
    BY <1>13, FS_EmptySet DEF N
  <2>2. 1 \in 1 .. N
    BY <1>1, <2>1
  <2>3. s[1] \in S /\ rank(s[1]) = 0
    BY <1>7, <2>2
  <2>4. ASSUME NEW m \in S \ {s[1]} PROVE Before(s[1], m)
    <3>1. rank(m) \in 0 .. N - 1
      BY <1>4
    <3>2. rank(m) # rank(s[1])
      BY <1>10, <2>3
    <3>3. rank(s[1]) < rank(m)
      BY <1>1, <2>3, <3>1, <3>2
    <3> QED
      BY <1>2, <1>4, <2>3, <3>3
  <2> QED
    BY <2>3, <2>4
<1> QED
  BY <1>8, <1>9, <1>11, <1>12, <1>13 DEF N

\* The first of some names is one of them.
LEMMA FirstIn ==
  ASSUME SlotsOK, NEW S \in SUBSET Nat, IsFiniteSet(S)
  PROVE  First(S) \in S \cup {None}
<1>1. S # {} => \E n \in S : \A m \in S \ {n} : Before(n, m)
  BY Sorted
<1> QED
  BY <1>1 DEF First

-----------------------------------------------------------------------------
(* The roots *)

\* The units of the sources are the units in the slots the sources filled.
LEMMA UnitFacts ==
  ASSUME SlotsOK, UnitsHeld, phase # "declare"
  PROVE  /\ \A n \in Declared : n \notin TakenBy("package") =>
              n \in explicit_def_names /\ Holds(definitions[n], UnitOf(n), n \in TakenBy("class"))
         /\ \A n \in explicit_def_names : definitions[n].kind \in Hierarchy =>
              n \in Declared /\ n \notin TakenBy("package") /\ UnitOf(n).kind # "udp"
         /\ top_module # None => top_module \in Declared
<1>1. decls \in Seq(Descs) /\ Own = explicit_def_names
  BY DEF SlotsOK, Own
<1>2. Len(decls) \in Nat /\ DOMAIN decls = 1 .. Len(decls)
  BY <1>1
<1>3. ASSUME NEW n, NEW i, Stands(decls, n, i)
      PROVE  /\ n \in Declared /\ LastAt(n) = i /\ UnitOf(n) = Says(decls[i], n)
             /\ \A kind : n \in TakenBy(kind) <=> Taken(decls, n, i, kind)
  <2>1. i \in DOMAIN decls /\ DeclaredLast(n, i)
    BY <1>3 DEF Stands, DeclaredLast
  <2>2. \A k \in DOMAIN decls : DeclaredLast(n, k) => k = i
    <3> SUFFICES ASSUME NEW k \in DOMAIN decls, DeclaredLast(n, k), k # i PROVE FALSE
      OBVIOUS
    <3>1. k \in i+1 .. Len(decls) \/ i \in k+1 .. Len(decls)
      BY <1>2, <2>1
    <3> QED
      BY <2>1, <3>1 DEF DeclaredLast
  <2>3. LastAt(n) = i
    BY <2>1, <2>2 DEF LastAt
  <2>4. n \in Declared
    BY <2>1 DEF Declared, DeclaredLast
  <2> QED
    BY <2>3, <2>4 DEF UnitOf, Says, TakenBy, Taken
<1>4. \A n \in Declared : \E i : Stands(decls, n, i)
  BY DEF UnitsHeld, HeldUnits, Declared
<1>5. \A n \in Declared : n \notin TakenBy("package") =>
        n \in explicit_def_names /\ Holds(definitions[n], UnitOf(n), n \in TakenBy("class"))
  <2> SUFFICES ASSUME NEW n \in Declared, n \notin TakenBy("package")
               PROVE  n \in explicit_def_names /\ Holds(definitions[n], UnitOf(n), n \in TakenBy("class"))
    OBVIOUS
  <2>1. PICK i : Stands(decls, n, i)
    BY <1>4
  <2>2. /\ UnitOf(n) = Says(decls[i], n) /\ ~Taken(decls, n, i, "package")
        /\ n \in TakenBy("class") <=> Taken(decls, n, i, "class")
    BY <1>3, <2>1
  <2>3. n \in explicit_def_names /\ Holds(definitions[n], Says(decls[i], n), Taken(decls, n, i, "class"))
    BY <1>1, <2>1, <2>2 DEF UnitsHeld, HeldUnits
  <2> QED
    BY <2>2, <2>3 DEF Holds
<1>6. \A n \in explicit_def_names : definitions[n].kind \in Hierarchy =>
        n \in Declared /\ n \notin TakenBy("package") /\ UnitOf(n).kind # "udp"
  <2> SUFFICES ASSUME NEW n \in explicit_def_names, definitions[n].kind \in Hierarchy
               PROVE  n \in Declared /\ n \notin TakenBy("package") /\ UnitOf(n).kind # "udp"
    OBVIOUS
  <2>1. PICK i : Stands(decls, n, i) /\ ~Taken(decls, n, i, "package") /\ Says(decls[i], n).kind # "udp"
    BY <1>1 DEF UnitsHeld, HeldUnits
  <2> QED
    BY <1>3, <2>1
<1>7. top_module # None => top_module \in Declared
  BY DEF UnitsHeld, Declared
<1> QED
  BY <1>5, <1>6, <1>7

\* If no package took a unit's slot, the units among the candidates are the tops
\* of the language: a slot that is no unit instantiates nothing.
LEMMA UnitsAreTops ==
  ASSUME SlotsOK, UnitsHeld, phase # "declare", TakenBy("package") = {}
  PROVE  /\ Units(Candidates) = Uninstantiated
         /\ Uninstantiated \in SUBSET Nat /\ IsFiniteSet(Uninstantiated)
<1>1. \A m \in DOMAIN definitions : definitions[m].kind \notin Hierarchy => definitions[m].insts = {}
  BY DEF SlotsOK, Definition, Plain
<1>2. \A n : n \in InstantiatedIn(definitions) <=> \E m \in DOMAIN definitions : n \in definitions[m].insts
  BY <1>1 DEF InstantiatedIn
<1>3. explicit_def_names \subseteq DOMAIN definitions
  BY DEF SlotsOK
<1>4. \A n : n \in Declared /\ UnitOf(n).kind # "udp" <=> n \in explicit_def_names /\ definitions[n].kind \in Hierarchy
  BY UnitFacts DEF Holds
<1>5. \A m \in Declared : UnitOf(m).kind # "udp" => m \in explicit_def_names /\ definitions[m].insts = UnitOf(m).insts
  BY UnitFacts DEF Holds
<1>6. \A m \in Declared : UnitOf(m).kind = "udp" => UnitOf(m).insts = {}
  <2> SUFFICES ASSUME NEW m \in Declared, UnitOf(m).kind = "udp" PROVE UnitOf(m).insts = {}
    OBVIOUS
  <2>1. PICK i \in DOMAIN decls : DeclaredLast(m, i)
    BY DEF UnitsHeld, HeldUnits, Declared, Stands, DeclaredLast
  <2>2. LastAt(m) \in DOMAIN decls
    BY <2>1 DEF LastAt
  <2>3. decls[LastAt(m)] \in Descs
    BY <2>2 DEF SlotsOK
  <2>4. Plain(UnitOf(m))
    BY <2>3, DescFacts DEF UnitOf, Inner, Plain, Hierarchy
  <2> QED
    BY <2>4 DEF Plain, Hierarchy
<1>7. \A n : (\E m \in Declared : n \in UnitOf(m).insts) <=> \E m \in explicit_def_names : n \in definitions[m].insts
  BY <1>1, <1>3, <1>4, <1>5, <1>6
<1>8. \A n : n \in Uninstantiated <=> /\ n \in explicit_def_names /\ definitions[n].kind \in Hierarchy
                                      /\ \A m \in DOMAIN definitions : n \notin definitions[m].insts
  BY <1>3, <1>4, <1>7 DEF Uninstantiated
<1>9. \A n : n \in Units(Candidates) <=> n \in Uninstantiated
  BY <1>2, <1>8 DEF Units, Candidates, Hierarchy
<1>10. Uninstantiated \in SUBSET Names
  BY <1>8 DEF SlotsOK
<1> QED
  BY <1>9, <1>10, NamesAssumption, FS_Subset

\* The end of the sources: the carrier is the named top or a root.
LEMMA EndOfSourcesInv == IInv /\ EndOfSources => IInv'
<1> SUFFICES ASSUME IInv, EndOfSources PROVE IInv'
  OBVIOUS
<1>1. SlotsOK /\ SlotsOK'
  BY DEF IInv, SlotsOK, EndOfSources, Phases
<1>2. FirstDeclared'
  BY DEF IInv, EndOfSources, FirstDeclared
<1>3. DataNames' /\ UnitsHeld'
  BY DEF IInv, EndOfSources, DataNames, UnitsHeld, Own
<1>4. \A m \in DOMAIN definitions : definitions[m].kind \notin Hierarchy => definitions[m].insts = {}
  BY <1>1 DEF SlotsOK, Definition, Plain
<1> DEFINE roots == Eligible \ InstantiatedIn(definitions)
<1>5. roots = ExplicitRoots'
  BY <1>4 DEF EndOfSources, Eligible, InstantiatedIn, ExplicitRoots, ExplicitUnits
<1>6. roots \in SUBSET Nat /\ IsFiniteSet(roots)
  <2>1. roots \in SUBSET Names
    BY <1>1 DEF SlotsOK, Eligible
  <2> HIDE DEF roots
  <2> QED
    BY <2>1, NamesAssumption, FS_Subset
<1>7. First(roots) \in roots \cup {None}
  BY <1>1, <1>6, FirstIn
<1> HIDE DEF roots
<1>8. CarrierChosen'
  <2>1. unit_carrier' = Carrier /\ explicit_def_names' = DOMAIN definitions /\ cli' = cli /\ definitions' = definitions
    BY DEF EndOfSources
  <2>2. ExplicitUnits' = Eligible
    BY <2>1 DEF ExplicitUnits, Eligible
  <2> QED
    BY <1>5, <1>7, <2>1, <2>2 DEF CarrierChosen, Carrier, roots, Eligible
<1> QED
  BY <1>1, <1>2, <1>3, <1>8 DEF IInv, RootChosen, EndOfSources

\* The library adds slots and changes none of the sources'.
LEMMA LibraryInv == IInv /\ Library => IInv'
<1> SUFFICES ASSUME IInv, Library PROVE IInv'
  OBVIOUS
<1>1. SlotsOK /\ cli.library \in Libraries
  BY DEF IInv, SlotsOK
<1>2. PICK S : S \subseteq DOMAIN cli.library \ DOMAIN definitions
              /\ definitions' = Over(definitions, [n \in S |-> cli.library[n]])
  BY DEF Library, Adopted
<1>3. /\ DOMAIN definitions' = DOMAIN definitions \cup S
      /\ \A n \in DOMAIN definitions : definitions'[n] = definitions[n]
      /\ \A n \in S : definitions'[n] = cli.library[n]
  BY <1>2 DEF Over
<1>4. S \subseteq Names /\ \A n \in S : cli.library[n] \in Definition
  BY <1>1, <1>2, LibrariesAssumption
<1>5. SlotsOK'
  BY <1>1, <1>3, <1>4 DEF SlotsOK, Library, Phases
<1>6. explicit_def_names' = explicit_def_names /\ explicit_def_names \subseteq DOMAIN definitions
      /\ cli' = cli /\ unit_carrier' = unit_carrier
  BY <1>1 DEF Library, SlotsOK
<1>7. FirstDeclared'
  BY DEF IInv, Library, FirstDeclared
<1>8. DataNames' /\ UnitsHeld'
  <2>1. /\ Own = explicit_def_names /\ Own' = explicit_def_names /\ decls' = decls /\ top_module' = top_module
        /\ \A n \in explicit_def_names : definitions'[n] = definitions[n]
    BY <1>3, <1>6 DEF Library, Own
  <2>2. DataNames'
    BY <1>3, <1>6 DEF IInv, Library, DataNames, Own, HeldIn
  <2>3. UnitsHeld'
    BY <2>1 DEF IInv, UnitsHeld, HeldUnits
  <2> QED
    BY <2>2, <2>3
<1>9. ExplicitUnits' = ExplicitUnits /\ ExplicitRoots' = ExplicitRoots
  BY <1>3, <1>6 DEF ExplicitUnits, ExplicitRoots
<1>10. CarrierChosen'
  BY <1>6, <1>9 DEF IInv, Library, CarrierChosen
<1> QED
  BY <1>5, <1>7, <1>8, <1>10 DEF IInv, RootChosen, Library

\* A root that starts before another one was declared before it.
LEMMA InOrderDeclared ==
  ASSUME SlotsOK, FirstDeclared, NEW n \in Nat, NEW m \in Nat, Before(n, m),
         NEW l \in DOMAIN decls, decls[l].kind \in Hierarchy, decls[l].name = m
  PROVE  \E k \in 1 .. l : decls[k].kind \in Hierarchy /\ decls[k].name = n
<1>1. def_source_pos \in Seq(Names)
  BY DEF SlotsOK
<1>2. Len(def_source_pos) \in Nat /\ DOMAIN def_source_pos = 1 .. Len(def_source_pos)
  BY <1>1
<1>3. m \in ToSet(def_source_pos)
  BY DEF FirstDeclared
<1>4. ASSUME NEW x \in ToSet(def_source_pos)
      PROVE  SourcePos(x) \in DOMAIN def_source_pos /\ def_source_pos[SourcePos(x)] = x
  <2>1. \E i \in DOMAIN def_source_pos : def_source_pos[i] = x
    BY DEF ToSet
  <2> QED
    BY <2>1 DEF SourcePos
<1>5. SourcePos(m) \in 1 .. Len(def_source_pos) /\ def_source_pos[SourcePos(m)] = m
  BY <1>2, <1>3, <1>4
<1>6. SourcePos(n) \in Nat /\ SourcePos(n) <= SourcePos(m)
  BY <1>5, SourceOrder DEF Before
<1>7. n \in ToSet(def_source_pos)
  <2>1. CASE n \notin ToSet(def_source_pos)
    BY <1>2, <1>5, <1>6, <2>1 DEF SourcePos
  <2> QED
    BY <2>1
<1>8. SourcePos(n) \in 1 .. SourcePos(m) /\ def_source_pos[SourcePos(n)] = n
  BY <1>2, <1>4, <1>5, <1>6, <1>7
<1>9. DeclaredIn(decls, def_source_pos[SourcePos(n)], l)
  BY <1>2, <1>5, <1>8 DEF FirstDeclared
<1> QED
  BY <1>8, <1>9 DEF DeclaredIn

\* The tops several modules are wrapped with.
LEMMA SeveralTops ==
  ASSUME SlotsOK, FirstDeclared, UnitsHeld, phase # "declare", TakenBy("package") = {},
         NEW r, r = ModuleCandidates
  PROVE  /\ ToSet(r) = Uninstantiated /\ Len(r) = Cardinality(Uninstantiated)
         /\ \A i, j \in DOMAIN r : i < j =>
              \A l \in DOMAIN decls : (decls[l].kind \in Hierarchy /\ decls[l].name = r[j]) =>
                \E k \in 1 .. l : decls[k].kind \in Hierarchy /\ decls[k].name = r[i]
<1> DEFINE U == Uninstantiated
<1>1. U \in SUBSET Nat /\ IsFiniteSet(U) /\ r = InOrder(U, Before)
  BY UnitsAreTops DEF ModuleCandidates
<1> HIDE DEF U
<1>2. ToSet(r) = U /\ Len(r) = Cardinality(U) /\ \A i, j \in DOMAIN r : i < j => Before(r[i], r[j])
  BY <1>1, Sorted
<1>3. \A i \in DOMAIN r : r[i] \in Nat
  BY <1>1, <1>2 DEF ToSet
<1>4. ASSUME NEW i \in DOMAIN r, NEW j \in DOMAIN r, i < j, NEW l \in DOMAIN decls,
             decls[l].kind \in Hierarchy, decls[l].name = r[j]
      PROVE  \E k \in 1 .. l : decls[k].kind \in Hierarchy /\ decls[k].name = r[i]
  <2>1. Before(r[i], r[j]) /\ r[i] \in Nat /\ r[j] \in Nat
    BY <1>2, <1>3, <1>4
  <2> QED
    BY <1>4, <2>1, InOrderDeclared
<1> QED
  BY <1>2, <1>4 DEF U

\* A single top with an initial block is found.
LEMMA SingleTop ==
  ASSUME SlotsOK, UnitsHeld, phase # "declare", TakenBy("package") = {},
         Cardinality(Uninstantiated) <= 1, NEW n \in Uninstantiated,
         UnitOf(n).initial, top_module \notin TakenBy("class")
  PROVE  Uninstantiated = {n} /\ Detect = <<n>>
<1>1. IsFiniteSet(Uninstantiated) /\ Units(Candidates) = Uninstantiated /\ n \in Names /\ n # None
                                    /\ definitions[n].initial
  <2>1. IsFiniteSet(Uninstantiated) /\ Units(Candidates) = Uninstantiated
    BY UnitsAreTops
  <2>2. n \in explicit_def_names
    BY <2>1 DEF Units, Candidates
  <2>3. definitions[n].initial
    BY UnitFacts DEF Uninstantiated, Holds
  <2> QED
    BY <2>1, <2>2, <2>3, NamesAssumption DEF SlotsOK
<1>2. Cardinality(Uninstantiated) = 1
  BY <1>1, FS_CardinalityType, FS_EmptySet
<1>3. Uninstantiated = {n}
  BY <1>1, <1>2, FS_Singleton
<1>4. Units(Candidates) = {n} /\ n \in Candidates
  BY <1>1, <1>3 DEF Units
<1>5. Len(ModuleCandidates) = 1
  <2>1. {n} \in SUBSET Nat /\ IsFiniteSet({n}) /\ Cardinality({n}) = 1
    BY <1>1, <1>2, <1>3, NamesAssumption
  <2>2. ModuleCandidates = InOrder({n}, Before)
    BY <1>4 DEF ModuleCandidates
  <2> QED
    BY <2>1, <2>2, Sorted
<1>6. \A m \in Candidates : m \in DOMAIN definitions /\ definitions[m] \in Definition
                            /\ definitions[m].kind \notin {"typedef", "forward", "udp"}
  BY DEF Candidates, SlotsOK
<1>7. \A m \in Candidates : definitions[m].initial => m = n
  BY <1>4, <1>6 DEF Units, Definition, Plain
<1>8. top_module \in Candidates => top_module = n
  <2>1. ASSUME top_module \in Candidates PROVE definitions[top_module].kind \in Hierarchy
    <3>1. top_module # None
      BY <2>1, NamesAssumption DEF Candidates, SlotsOK
    <3>2. Holds(definitions[top_module], UnitOf(top_module), FALSE)
      BY <3>1, UnitFacts DEF Holds
    <3> QED
      BY <1>6, <2>1, <3>2 DEF Holds
  <2> QED
    BY <1>4, <2>1 DEF Units
<1>9. Least({n}) = n
  BY <1>1, NamesAssumption DEF Least
<1>10. Cardinality(Candidates) = 1 => Candidates = {n}
  <2>1. Candidates \in SUBSET Names
    BY DEF Candidates, SlotsOK
  <2>2. IsFiniteSet(Candidates)
    BY <2>1, NamesAssumption, FS_Subset
  <2> QED
    BY <1>4, <2>2, FS_Singleton
<1>11. {m \in Candidates : definitions[m].initial} = {n}
  BY <1>1, <1>4, <1>7
<1> DEFINE initials == {m \in Candidates : definitions[m].initial}
           pick == IF top_module \in Candidates THEN top_module
                   ELSE IF Cardinality(Candidates) = 1 THEN Least(Candidates)
                   ELSE IF initials # {} THEN Least(initials)
                   ELSE IF top_module = None /\ Candidates # {} THEN Least(Candidates)
                   ELSE top_module
<1>12. initials # {} /\ Least(initials) = n
  BY <1>9, <1>11, Zenon
<1>13. Cardinality(Candidates) = 1 => Least(Candidates) = n
  BY <1>9, <1>10, Zenon
<1>14. Detect = IF Len(ModuleCandidates) > 1 THEN ModuleCandidates ELSE IF pick = None THEN <<>> ELSE <<pick>>
  BY DEF Detect
<1> HIDE DEF initials
<1>15. pick = n
  BY <1>8, <1>12, <1>13, Zenon
<1> HIDE DEF pick
<1> QED
  BY <1>1, <1>3, <1>5, <1>14, <1>15

\* What the tops are said to be depends on the descriptions, the registry and
\* the last unit read alone.
LEMMA SameTops ==
  ASSUME definitions' = definitions, explicit_def_names' = explicit_def_names,
         top_module' = top_module, decls' = decls
  PROVE  Uninstantiated' = Uninstantiated /\ TopsFound' = TopsFound
<1>1. /\ Declared' = Declared /\ \A n : UnitOf(n)' = UnitOf(n)
      /\ \A kind : TakenBy(kind)' = TakenBy(kind)
  BY DEF Declared, UnitOf, TakenBy, LastAt, DeclaredLast
<1>2. Uninstantiated' = Uninstantiated
  BY <1>1 DEF Uninstantiated
<1> QED
  BY <1>1, <1>2 DEF TopsFound

\* The top that is chosen is known, or the run fails.
LEMMA SelectTopInv == IInv /\ SelectTop => IInv'
<1> SUFFICES ASSUME IInv, SelectTop PROVE IInv'
  OBVIOUS
<1>1. SlotsOK /\ FirstDeclared /\ UnitsHeld /\ phase # "declare"
  BY DEF IInv, SelectTop
<1>2. SlotsOK' /\ FirstDeclared'
  BY <1>1 DEF SlotsOK, FirstDeclared, SelectTop, Phases
<1>3. DataNames' /\ UnitsHeld'
  BY DEF IInv, SelectTop, DataNames, UnitsHeld, Own
<1>4. CarrierChosen'
  BY DEF IInv, SelectTop, CarrierChosen, ExplicitRoots, ExplicitUnits
<1>5. RootChosen'
  <2>1. SUFFICES ASSUME phase' = "elaborate"
                 PROVE  /\ Named' => root' = <<cli'.top>>
                        /\ ~Named' /\ TopsFound' =>
                             ToSet(root') = Uninstantiated' /\ Len(root') = Cardinality(Uninstantiated') /\ InSourceOrder'
    BY DEF RootChosen, SelectTop
  <2>2. Named' = Named /\ cli' = cli /\ (Named => root' = <<cli.top>>)
    BY DEF SelectTop, Named
  <2>3. ~Named => root' = Detect
    BY <2>1 DEF SelectTop
  <2>4. Uninstantiated' = Uninstantiated /\ TopsFound' = TopsFound /\ decls' = decls
    <3>1. /\ definitions' = definitions /\ explicit_def_names' = explicit_def_names
          /\ top_module' = top_module /\ decls' = decls
      BY DEF SelectTop
    <3> QED
      BY <3>1, SameTops
  <2>a. TopsFound => TakenBy("package") = {}
    BY DEF TopsFound
  <2>5. ASSUME ~Named, TopsFound
        PROVE  ToSet(root') = Uninstantiated /\ Len(root') = Cardinality(Uninstantiated) /\ InSourceOrder'
    <3>1. CASE Cardinality(Uninstantiated) > 1
      <4>1. Len(ModuleCandidates) > 1
        BY <1>1, <2>5, <2>a, <3>1, SeveralTops
      <4>2. root' = ModuleCandidates
        BY <2>3, <2>5, <4>1 DEF Detect
      <4> QED
        BY <1>1, <2>4, <2>5, <2>a, <4>2, SeveralTops DEF InSourceOrder
    <3>2. CASE ~(Cardinality(Uninstantiated) > 1)
      <4>1. PICK n \in Uninstantiated : UnitOf(n).initial
        BY <2>5, <3>2 DEF TopsFound
      <4>2. Cardinality(Uninstantiated) <= 1 /\ top_module \notin TakenBy("class")
        <5>1. Cardinality(Uninstantiated) \in Nat
          BY <1>1, <2>5, <2>a, UnitsAreTops, FS_CardinalityType
        <5> QED
          BY <2>5, <3>2, <5>1 DEF TopsFound
      <4>3. Uninstantiated = {n} /\ root' = <<n>>
        BY <1>1, <2>3, <2>5, <2>a, <4>1, <4>2, SingleTop
      <4>4. ToSet(root') = {n} /\ Len(root') = 1 /\ DOMAIN root' = {1}
        BY <4>3 DEF ToSet
      <4>5. Cardinality({n}) = 1
        BY FS_Singleton
      <4> QED
        BY <4>3, <4>4, <4>5 DEF InSourceOrder
    <3> QED
      BY <3>1, <3>2
  <2> QED
    BY <2>2, <2>4, <2>5
<1> QED
  BY <1>2, <1>3, <1>4, <1>5 DEF IInv

\* What is registered in the end: the position of the description in a slot is
\* that of the last one of its name and kind.
LEMMA PositionIsLast ==
  ASSUME SlotsOK, NEW kind, NEW f, LastIn(decls, kind, f), HeldIn(decls, kind, f, Own, definitions),
         phase # "declare", NEW n \in explicit_def_names, definitions[n].kind = kind
  PROVE  n \in DOMAIN f /\ Position(n) = f[n]
<1>1. n \in DOMAIN f /\ definitions[n] = decls[f[n]]
  BY DEF HeldIn, Own
<1>2. decls \in Seq(Descs)
  BY DEF SlotsOK
<1>3. Len(decls) \in Nat /\ DOMAIN decls = 1 .. Len(decls)
  BY <1>2
<1>4. f[n] \in DOMAIN decls /\ decls[f[n]].kind = kind /\ decls[f[n]].name = n
  BY <1>1 DEF LastIn
<1>5. \A i \in DOMAIN decls : decls[i] = definitions[n] => i <= f[n]
  BY <1>1, <1>4 DEF LastIn
<1> DEFINE Is(i) == decls[i] = definitions[n] /\ \A j \in i+1 .. Len(decls) : decls[j] # decls[i]
<1>6. Is(f[n])
  BY <1>1, <1>3, <1>4, <1>5
<1>7. \A i \in DOMAIN decls : Is(i) => i = f[n]
  <2> SUFFICES ASSUME NEW i \in DOMAIN decls, Is(i), i # f[n] PROVE FALSE
    OBVIOUS
  <2>1. i <= f[n] /\ f[n] \in i+1 .. Len(decls)
    BY <1>3, <1>4, <1>5
  <2> QED
    BY <1>1, <2>1
<1>8. Position(n) = CHOOSE i \in DOMAIN decls : Is(i)
  BY DEF Position
<1> HIDE DEF Is
<1> QED
  BY <1>1, <1>4, <1>6, <1>7, <1>8

\* The last class and typedef of a name gets its slot back.
LEMMA ElaborateInv == IInv /\ Elaborate => IInv'
<1> SUFFICES ASSUME IInv, Elaborate PROVE IInv'
  OBVIOUS
<1>1. SlotsOK /\ DataNames /\ phase = "elaborate"
  BY DEF IInv, Elaborate
<1>2. SlotsOK' /\ FirstDeclared'
  BY DEF IInv, SlotsOK, FirstDeclared, Elaborate, Phases
<1>3. CarrierChosen'
  BY <1>1 DEF IInv, Elaborate, CarrierChosen, ExplicitRoots, ExplicitUnits
<1>4. RootChosen'
  <2>1. /\ definitions' = definitions /\ explicit_def_names' = explicit_def_names /\ cli' = cli
        /\ top_module' = top_module /\ decls' = decls /\ root' = root
    BY DEF Elaborate
  <2>2. Uninstantiated' = Uninstantiated /\ TopsFound' = TopsFound
    BY <2>1, SameTops
  <2>4. Named' = Named
    BY <2>1 DEF Named
  <2>5. InSourceOrder' = InSourceOrder
    BY <2>1 DEF InSourceOrder
  <2> QED
    BY <1>1, <2>1, <2>2, <2>4, <2>5 DEF IInv, RootChosen
<1>5. ASSUME NEW kind, NEW f, LastIn(decls, kind, f), HeldIn(decls, kind, f, Own, definitions),
             NEW g, g = Reregister([n \in {m \in explicit_def_names : definitions[m].kind = kind} |-> Position(n)], f)
      PROVE  Agree(g, f)
  <2> DEFINE S == {m \in explicit_def_names : definitions[m].kind = kind}
             held == [n \in S |-> Position(n)]
  <2>1. \A n \in S : n \in DOMAIN f /\ Position(n) = f[n]
    BY <1>1, <1>5, PositionIsLast
  <2> HIDE DEF S
  <2>2. /\ DOMAIN g = S \cup DOMAIN f
        /\ \A n \in S : g[n] = Position(n)
        /\ \A n \in DOMAIN f \ S : g[n] = f[n]
    BY <1>5 DEF Reregister, Over, S
  <2> QED
    BY <2>1, <2>2 DEF Agree
<1>6. /\ classes' = Reregister([n \in {m \in explicit_def_names : definitions[m].kind = "class"} |-> Position(n)], class_defs)
      /\ typedefs' = Reregister([n \in {m \in explicit_def_names : definitions[m].kind = "typedef"} |-> Position(n)], typedef_defs)
  BY DEF Elaborate
<1>7. Agree(classes', class_defs) /\ Agree(typedefs', typedef_defs)
  BY <1>1, <1>5, <1>6 DEF DataNames
<1>8. DataNames' /\ UnitsHeld'
  BY <1>1, <1>7 DEF IInv, DataNames, UnitsHeld, Elaborate, Own
<1> QED
  BY <1>2, <1>3, <1>4, <1>8 DEF IInv

-----------------------------------------------------------------------------
(* The theorems *)

\* The registry starts empty.
LEMMA InitInv == Init => IInv
<1> SUFFICES ASSUME Init PROVE IInv
  OBVIOUS
<1>1. SlotsOK
  BY DEF Init, SlotsOK, Phases
<1>2. DataNames
  BY DEF Init, DataNames, LastIn, HeldIn, Own
<1>3. FirstDeclared
  BY DEF Init, FirstDeclared
<1>4. UnitsHeld
  BY DEF Init, UnitsHeld, HeldUnits, Own, Stands
<1> QED
  BY <1>1, <1>2, <1>3, <1>4 DEF Init, IInv, RootChosen

\* No step breaks the invariant.
LEMMA NextInv == IInv /\ [Next]_vars => IInv'
<1> SUFFICES ASSUME IInv, [Next]_vars PROVE IInv'
  OBVIOUS
<1>1. ASSUME NEW d \in Descs,
             \/ DeclareModule(d) \/ DeclareUnit(d) \/ DeclarePackage(d) \/ DeclareChecker(d)
             \/ DeclareUdp(d) \/ DeclareClass(d) \/ DeclareTypedef(d)
      PROVE  IInv'
  <2>1. DInv
    BY DEF IInv, DInv
  <2>2. DInv'
    BY <1>1, <2>1, ModuleInv, UnitInv, CheckerInv, DataInv
  <2>3. phase' = "declare"
    BY <1>1 DEF DeclareModule, DeclareUnit, DeclarePackage, DeclareChecker, DeclareUdp,
                DeclareClass, DeclareTypedef, Declare
  <2> QED
    BY <2>2, <2>3 DEF IInv, DInv, RootChosen
<1>2. CASE UNCHANGED vars
  <2>1. SlotsOK' /\ DataNames' /\ FirstDeclared' /\ UnitsHeld'
    BY <1>2 DEF IInv, vars, SlotsOK, DataNames, FirstDeclared, UnitsHeld, Own
  <2>2. CarrierChosen' <=> CarrierChosen
    BY <1>2 DEF vars, CarrierChosen, ExplicitRoots, ExplicitUnits
  <2>3. RootChosen'
    <3>1. Uninstantiated' = Uninstantiated /\ TopsFound' = TopsFound
      BY <1>2, SameTops DEF vars
    <3> QED
      BY <1>2, <3>1 DEF IInv, vars, RootChosen, Named, InSourceOrder
  <2> QED
    BY <1>2, <2>1, <2>2, <2>3 DEF IInv, vars
<1> QED
  BY <1>1, <1>2, EndOfSourcesInv, LibraryInv, SelectTopInv, ElaborateInv DEF Next

\* Every reachable state of the registry satisfies the inductive invariant, its
\* type correctness included.
THEOREM Invariance == Spec => []IInv
<1> QED
  BY InitInv, NextInv, PTL DEF Spec

\* No class and no typedef is lost to a unit of its name.
THEOREM DataKept == Spec => []DataNamesKept
<1>1. IInv => DataNamesKept
  <2> SUFFICES ASSUME IInv, Done, NEW n \in Names
               PROVE  /\ \A i \in Latest({"class"}, n) : n \in DOMAIN classes /\ classes[n] = i
                      /\ \A i \in Latest({"typedef"}, n) : n \in DOMAIN typedefs /\ typedefs[n] = i
    BY DEF DataNamesKept
  <2>1. /\ LastIn(decls, "class", class_defs) /\ LastIn(decls, "typedef", typedef_defs)
        /\ Agree(classes, class_defs) /\ Agree(typedefs, typedef_defs) /\ decls \in Seq(Descs)
    BY DEF IInv, DataNames, SlotsOK, Done
  <2>2. ASSUME NEW kind, NEW f, NEW g, LastIn(decls, kind, f), Agree(g, f), NEW i \in Latest({kind}, n)
        PROVE  n \in DOMAIN g /\ g[n] = i
    <3>1. Len(decls) \in Nat /\ DOMAIN decls = 1 .. Len(decls)
      BY <2>1
    <3>2. /\ i \in DOMAIN decls /\ decls[i].kind = kind /\ decls[i].name = n
          /\ \A j \in i+1 .. Len(decls) : ~(decls[j].kind = kind /\ decls[j].name = n)
      BY <2>2 DEF Latest
    <3>3. n \in DOMAIN f /\ i <= f[n] /\ f[n] \in DOMAIN decls /\ decls[f[n]].kind = kind /\ decls[f[n]].name = n
      BY <2>2, <3>2 DEF LastIn
    <3>4. f[n] = i
      BY <3>1, <3>2, <3>3
    <3> QED
      BY <2>2, <3>3, <3>4 DEF Agree
  <2> QED
    BY <2>1, <2>2
<1> QED
  BY <1>1, Invariance, PTL

\* Every module nothing instantiates runs, once and in source order, and the
\* declarations of the compilation unit are in one that runs.
THEOREM TopsRun == Spec => []EveryTopRuns
<1>1. IInv => EveryTopRuns
  <2> SUFFICES ASSUME IInv, Done PROVE EveryTopRuns
    BY DEF EveryTopRuns, CarrierIsRoot, AutoTop
  <2>1. SlotsOK /\ UnitsHeld /\ CarrierChosen /\ RootChosen /\ phase = "done"
    BY DEF IInv, Done
  <2>2. AutoTop /\ TopsFound =>
          ToSet(root) = Uninstantiated /\ Len(root) = Cardinality(Uninstantiated) /\ InSourceOrder
    BY <2>1 DEF RootChosen, AutoTop
  <2>3. ASSUME unit_carrier \in explicit_def_names,
               \A n \in DOMAIN definitions \ explicit_def_names : unit_carrier \notin definitions[n].insts,
               IF Named THEN cli.top \in explicit_def_names ELSE TopsFound
        PROVE  unit_carrier \in ToSet(root)
    <3>1. explicit_def_names \subseteq DOMAIN definitions /\ explicit_def_names \subseteq Names
      BY <2>1 DEF SlotsOK
    <3>2. unit_carrier # None
      BY <2>3, <3>1, NamesAssumption
    <3>3. CASE Named
      <4>1. unit_carrier = cli.top /\ root = <<cli.top>>
        BY <2>1, <2>3, <3>2, <3>3 DEF CarrierChosen, RootChosen
      <4> QED
        BY <4>1 DEF ToSet
    <3>4. CASE ~Named
      <4>1. cli.top \notin explicit_def_names
        BY <3>1, <3>4, NamesAssumption DEF Named
      <4>2. unit_carrier \in ExplicitRoots
        BY <2>1, <3>2, <4>1 DEF CarrierChosen
      <4>3. \A m \in DOMAIN definitions : definitions[m].kind \notin Hierarchy => definitions[m].insts = {}
        BY <2>1 DEF SlotsOK, Definition, Plain
      <4>4. unit_carrier \in Uninstantiated
        <5>1. TakenBy("package") = {}
          BY <2>3, <3>4 DEF TopsFound
        <5>2. unit_carrier \in Units(Candidates)
          BY <2>3, <4>2, <4>3 DEF ExplicitRoots, ExplicitUnits, Units, Candidates, InstantiatedIn, Hierarchy
        <5> QED
          BY <2>1, <5>1, <5>2, UnitsAreTops
      <4> QED
        BY <2>1, <2>3, <3>4, <4>4 DEF RootChosen
    <3> QED
      BY <3>3, <3>4
  <2> QED
    BY <2>2, <2>3 DEF EveryTopRuns, CarrierIsRoot
<1> QED
  BY <1>1, Invariance, PTL

=============================================================================
