---------------------------- MODULE LibrarySearch ---------------------------
(***************************************************************************)
(* The search of `-v` library files and `-y` library directories for the   *)
(* definitions a design instantiates and does not declare                  *)
(* (resolve_library_modules in src/lib.rs).                                *)
(*                                                                         *)
(* One thread runs the search, but two of its orders are not its own: a    *)
(* directory is listed in the order the operating system gives, and the    *)
(* worklist is filled from hash sets whose order differs from run to run.  *)
(***************************************************************************)
EXTENDS Naturals, Sequences, FiniteSets, SequencesExt

CONSTANTS Names,
          LibFiles,     \* the `-v` files, in command-line order
          DirFiles,     \* the files of the `-y` directories, in the order a
                        \* name is looked for: by directory, then extension
          Stem,         \* Stem[f]: the name a file of a directory is found by
          Texts,        \* what may be in the library
          Designs       \* what may be instantiated and forward declared

Files == ToSet(LibFiles) \cup ToSet(DirFiles)

ASSUME LibraryAssumption ==
  /\ IsFiniteSet(Names) /\ LibFiles \in Seq(Files) /\ DirFiles \in Seq(Files)
  /\ DOMAIN Stem = ToSet(DirFiles) /\ ToSet(LibFiles) \cap ToSet(DirFiles) = {}
  /\ \A t \in Texts : \A f \in Files : /\ DOMAIN t[f].defs \subseteq Names
                                     /\ \A n \in DOMAIN t[f].defs : t[f].defs[n] \subseteq Names

\* A forward typedef has a slot of its own and instantiates nothing.
ASSUME DesignAssumption ==
  \A d \in Designs : /\ DOMAIN d.defs \subseteq Names /\ d.binds \subseteq Names
                     /\ \A n \in DOMAIN d.defs : d.defs[n] \subseteq Names
                     /\ d.forward \subseteq {n \in DOMAIN d.defs : d.defs[n] = {}}

VARIABLES text,         \* text[f]: the file's definitions (name -> what it
                        \* instantiates), its typedefs, and whether it can be read
          design,       \* the design's definitions and forward typedefs
          definitions,  \* name -> [from, insts]
          scanned,      \* files the index was given, in order: they determine lib,
                        \* lib_origins, lib_typedefs and lib_sources
          pending,      \* files of the directories that were not read
          work, wanted, \* the worklist; the names it held
          unresolved, adopted, full_scan_done,
          published,    \* lib_sources.files as published
          def_file,     \* the position in published of each definition
          phase

vars == <<text, design, definitions, scanned, pending, work, wanted, unresolved, adopted,
          full_scan_done, published, def_file, phase>>

\* The orders a hash set or a directory may be walked in.
Orders(S) == SetToSeqs(S)

Init ==
  /\ text \in Texts /\ design \in Designs
  /\ definitions = [n \in DOMAIN design.defs |-> [from |-> "design", insts |-> design.defs[n]]]
  /\ scanned = <<>> /\ pending \in Orders(ToSet(DirFiles))
  /\ work = <<>> /\ wanted = {} /\ unresolved = {} /\ adopted = {}
  /\ full_scan_done = FALSE /\ published = <<>> /\ def_file = {} /\ phase = "index"

-----------------------------------------------------------------------------
(* The index *)

Readable == {f \in Files : text[f].readable}

\* A file that cannot be read defines nothing.
Defines(f, n) == f \in Readable /\ n \in DOMAIN text[f].defs

\* The elements of s that are in S, in their order.
Filter(s, S) ==
  LET in == {i \in DOMAIN s : s[i] \in S}
  IN [k \in 1 .. Cardinality(in) |-> s[CHOOSE i \in in : Cardinality({j \in in : j < i}) = k - 1]]

\* index_library_file for each file.
IndexFiles(order, files) == order \o files

Indexed(order, n) == \E i \in DOMAIN order : Defines(order[i], n)

\* lib[n]: an earlier definition of the name is kept.
OriginOf(order, n) == order[CHOOSE i \in DOMAIN order :
                              Defines(order[i], n) /\ \A j \in 1 .. i-1 : ~Defines(order[j], n)]

\* The `-v` files are indexed, then the worklist is seeded with every name an
\* explicit definition or a compilation-unit bind instantiates.
Seed ==
  LET seed == design.binds \cup UNION {definitions[n].insts : n \in DOMAIN definitions}
  IN /\ phase = "index"
     /\ scanned' = IndexFiles(scanned, LibFiles)
     /\ work' \in Orders(seed) /\ wanted' = seed
     /\ phase' = "search"
     /\ UNCHANGED <<text, design, definitions, pending, unresolved, adopted, full_scan_done, published, def_file>>

-----------------------------------------------------------------------------
(* The search *)

\* The files a directory supplies `name` from: <dir>/<name>.<ext>.
Hits(name) == {f \in ToSet(pending) : Stem[f] = name}

\* Mutant: the other files are never read.
SearchOwn(name) ==
  LET own == IndexFiles(scanned, Filter(DirFiles, Hits(name)))
      rest == Filter(pending, ToSet(pending) \ Hits(name))
  IN IF Indexed(scanned, name) \/ pending = <<>>
     THEN [scanned |-> scanned, pending |-> pending, full |-> full_scan_done]
     ELSE [scanned |-> own, pending |-> rest, full |-> full_scan_done]

\* What is indexed once `name` was looked for: its own files, then, once, every
\* other file.
Search(name) ==
  LET own == IndexFiles(scanned, Filter(DirFiles, Hits(name)))
      rest == Filter(pending, ToSet(pending) \ Hits(name))
      scan == ~Indexed(own, name) /\ ~full_scan_done
  IN IF Indexed(scanned, name) \/ pending = <<>>
     THEN [scanned |-> scanned, pending |-> pending, full |-> full_scan_done]
     ELSE IF scan THEN [scanned |-> IndexFiles(own, rest), pending |-> <<>>, full |-> TRUE]
     ELSE [scanned |-> own, pending |-> rest, full |-> full_scan_done]

\* The definition joins the design, and what it instantiates the worklist.
Adopt(name, def, rest) ==
  /\ definitions' = [n \in DOMAIN definitions \cup {name} |-> IF n = name THEN def ELSE definitions[n]]
  /\ adopted' = adopted \cup {name}
  /\ \E more \in Orders(def.insts \ (DOMAIN definitions \cup {name})) : work' = rest \o more
  /\ wanted' = wanted \cup def.insts

\* Mutant: a name that was not found is tried again later.
ReportAgain(name, rest) == unresolved' = unresolved \cup {name} /\ work' = <<name>> \o rest

\* A name no library supplies.
Report(name, rest) == unresolved' = unresolved \cup {name} /\ work' = rest

\* One turn of the worklist: a name that is defined needs nothing.
Skip ==
  /\ phase = "search" /\ work # <<>> /\ Last(work) \in DOMAIN definitions
  /\ work' = Front(work)
  /\ UNCHANGED <<text, design, definitions, scanned, pending, wanted, unresolved, adopted, full_scan_done,
                 published, def_file, phase>>

\* Any other name is looked for.
Resolve ==
  /\ phase = "search" /\ work # <<>> /\ Last(work) \notin DOMAIN definitions
  /\ \E name \in {Last(work)}, found \in {Search(Last(work))} :
       /\ scanned' = found.scanned /\ pending' = found.pending /\ full_scan_done' = found.full
       /\ \/ /\ Indexed(found.scanned, name)
             /\ \E from \in {OriginOf(found.scanned, name)} :
                  Adopt(name, [from |-> from, insts |-> text[from].defs[name]], Front(work))
             /\ unresolved' = unresolved
          \/ /\ ~Indexed(found.scanned, name)
             /\ Report(name, Front(work))
             /\ UNCHANGED <<definitions, adopted, wanted>>
  /\ UNCHANGED <<text, design, published, def_file, phase>>

-----------------------------------------------------------------------------
(* Typedefs and the published sources *)

\* The design's forward typedefs, whose slot is still theirs.
Forwards == {n \in design.forward \cap DOMAIN definitions : definitions[n].from = "design"}

\* A forward typedef of the design has every unread file indexed.
Unread == IF Forwards # {} THEN IndexFiles(scanned, pending) ELSE scanned

Filled(indexed) == {n \in Forwards : \E f \in ToSet(indexed) \cap Readable : n \in text[f].typedefs}

\* The entry of a name in def_file, a map kept as the set of its entries.
Entry(name, file) == [name |-> name, file |-> file]
NamesOf(entries) == {e.name : e \in entries}

\* Mutant: a name that an earlier file defines gets the number of the later one.
AddFileOverwrites(sources, f) ==
  LET defined == {n \in Names : Defines(f, n)}
  IN IF defined = {} THEN sources
     ELSE [files |-> Append(sources.files, f),
           def_file |-> {e \in sources.def_file : e.name \notin defined}
                        \cup {Entry(n, Len(sources.files) + 1) : n \in defined}]

\* A file is numbered after those that defined something new, and joins them
\* when it does too.
AddFile(sources, f) ==
  LET defined == {n \in Names : Defines(f, n) /\ n \notin NamesOf(sources.def_file)}
  IN IF defined = {} THEN sources
     ELSE [files |-> Append(sources.files, f),
           def_file |-> sources.def_file \cup {Entry(n, Len(sources.files) + 1) : n \in defined}]

\* What lib_sources is once the files of `order` were indexed (one value, as a
\* set for \E to take it from).
Sources(order) ==
  LET after[k \in 0 .. Len(order)] ==
        IF k = 0 THEN {[files |-> <<>>, def_file |-> {}]} ELSE {AddFile(s, order[k]) : s \in after[k-1]}
  IN after[Len(order)]

\* The file of an adopted definition is published, unless another definition
\* had it published: then it is known by its new number.
PublishDef(files, s, e) ==
  LET known == {r \in s.renumber : r.old = e.file}
      last == Len(s.files) + 1
  IN CASE known # {} -> [s EXCEPT !.def_file = @ \cup {Entry(e.name, r.new) : r \in known}]
       [] known = {} /\ e.file \in DOMAIN files ->
            [files |-> Append(s.files, files[e.file]), renumber |-> s.renumber \cup {[old |-> e.file, new |-> last]},
             def_file |-> s.def_file \cup {Entry(e.name, last)}]
       [] known = {} /\ e.file \notin DOMAIN files -> s

\* What is published of the entries, in the order of `walk`.
Publish(files, walk) ==
  LET after[k \in 0 .. Len(walk)] ==
        IF k = 0 THEN {[files |-> <<>>, renumber |-> {}, def_file |-> {}]}
        ELSE {PublishDef(files, s, walk[k]) : s \in after[k-1]}
  IN after[Len(walk)]

\* Forward typedefs are filled, and the sources published in the order in which
\* a hash map of the definitions is walked.
Finish ==
  /\ phase = "search" /\ work = <<>>
  /\ \E indexed \in {Unread}, sources \in Sources(Unread) :
       /\ scanned' = indexed
       /\ definitions' = [n \in DOMAIN definitions |->
                            IF n \in Filled(indexed) THEN [from |-> "typedef", insts |-> {}] ELSE definitions[n]]
       /\ \E walk \in Orders({e \in sources.def_file : e.name \in adopted}) :
            \E s \in Publish(sources.files, walk) : published' = s.files /\ def_file' = s.def_file
  /\ pending' = IF Forwards # {} THEN <<>> ELSE pending
  /\ phase' = "done"
  /\ UNCHANGED <<text, design, work, wanted, unresolved, adopted, full_scan_done>>

Next == Seed \/ Skip \/ Resolve \/ Finish \/ (phase = "done" /\ UNCHANGED vars)

Spec == Init /\ [][Next]_vars /\ WF_vars(Next)

-----------------------------------------------------------------------------
(* Properties *)

Done == phase = "done"

Instantiated(defs) == design.binds \cup UNION {defs[n].insts : n \in DOMAIN defs}

\* The search is complete: in the finished design every instantiated name is
\* defined, or it was reported and no library file that can be read defines it
\* (a reported name that a library does define would end the run with "not
\* found"); and a forward typedef that some file completes is completed, also
\* when no instantiation ever led to that file.
SearchComplete ==
  Done => /\ Instantiated(definitions) \subseteq DOMAIN definitions \cup unresolved
          /\ \A n \in unresolved : \A f \in Readable : n \notin DOMAIN text[f].defs
          /\ \A n \in design.forward : \A f \in Readable : n \in text[f].typedefs => definitions[n].from = "typedef"

\* What the design and the definitions other than those of S instantiate.
NeededBeside(S) == design.binds \cup UNION {definitions[n].insts : n \in DOMAIN definitions \ S}

\* Nothing else of a library reaches the design: every adopted definition is
\* needed by the design, directly or through other adopted ones (none of them
\* are only needed by each other), and none takes the place of a definition of
\* the design.
OnlyNeeded ==
  /\ \A S \in SUBSET adopted : S \cap NeededBeside(S) = {} => S = {}
  /\ adopted \cap DOMAIN design.defs = {}
  /\ DOMAIN definitions = DOMAIN design.defs \cup adopted

\* The design ends up with what it needs and with nothing else.
SearchExact == SearchComplete /\ OnlyNeeded

\* Diagnostics locate an adopted definition in the file it came from, and no
\* file is published that supplied nothing.
SourcesTrue ==
  Done => /\ NamesOf(def_file) = adopted
          /\ \A e \in def_file : e.file \in DOMAIN published /\ published[e.file] = definitions[e.name].from
          /\ ToSet(published) = {definitions[n].from : n \in adopted}

\* The search ends, also when the library's definitions instantiate each other.
Terminates == <>Done
=============================================================================
