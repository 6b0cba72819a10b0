# A verification project for xezim-core

xezim-core is the front end and the runtime core of a SystemVerilog simulator, written
in Rust: a parser (`xezim-parser`), an elaborator that turns parsed files into one flat
design (`src/lib.rs`, `src/elaborate.rs`), the four-state value algebra (`src/value.rs`)
and the sinks that the simulation loop writes dumps and console output to. This
directory holds TLA+ models of parts of it, the TLC configurations that check them on
small instances, and TLAPS proofs. Source paths below are relative to the repository.

## 1. The system: inventory

How the parts work together: the **preprocessor** turns files into one text with a line
map; the **lexer** and **parser** turn it into descriptions (modules, packages, classes,
...), expanding `let`s as they go; `parse_and_elaborate` (`src/lib.rs`) puts all
descriptions into the **design registry**, applies parameter overrides, asks the
**library search** for what is still missing, selects the **roots** and calls the
**elaborator**, which inlines every instance, evaluates parameters and generate
constructs, and finally rewrites the continuous assignments so that each **net** has one
resolved assignment. Every name of the flat design is a **shared name**. The simulator
that uses the core computes with **values** and hands its output to the **dump sink** and
the **console sink**, each with a writer thread of its own: the only threads here that run
beside each other.

| component | state | operations | hard behaviours | what makes it correct |
|---|---|---|---|---|
| dump sink (`src/vcd_sink.rs`) | three staging buffers, a channel, the writer thread and its BufWriter | write, post_vcd_changes, post_xtrace_changes, commit, flush, drop; the thread's loop | two threads, failing writes, a process that dies | the file is what was handed over, in order; flush and drop keep their promises and end |
| console sink (`src/stdout_sink.rs`) | a buffer, a message channel, a channel of recycled buffers, the writer thread | write_str, writeln_str, flush, flush_if_stale, sync, drop; the thread's loop | two threads and a second writer (stderr) on one file, a blocking barrier | complete and in order; no line is split by a diagnostic; sync is a barrier; the tail of a burst appears |
| shared names (`src/shared_names.rs`) | a thread-local index of weak pointers, a scope depth, the names | registry_scope, intern, clone, drop | hash collisions, entries that die, reused memory, nested scopes | equal names of a scope are one allocation, with their own text; the index is freed |
| values (`src/value.rs`) | planes of words, width, signedness, the mark of an unbased literal | some sixty operators | three implementations of each, word boundaries | bits above the width are 0; every operator computes what the language says |
| preprocessor (`xezim-parser/src/preprocessor/mod.rs`) | macro table, conditional stack, cursor, include depth, timescale, line map | one per directive, includes, macro calls | recursion through includes and expansions | the selected branches are kept; each output line knows where it came from |
| library search (`src/lib.rs`) | index of library files, worklist, adopted definitions, published sources | index a file, search, adopt, finish | hash and directory order, unreadable files, cyclic libraries | finds what there is, adopts what is needed, ends |
| registry and roots (`src/lib.rs`) | name-keyed registries, source order, overrides, the carrier of unit declarations | one per description, library, top selection, re-registration | any order of files, one map for several name spaces | each top runs once, nothing is lost |
| net drivers (`src/elaborate.rs`) | assignments, pending assignments of instances, strengths, net delays, merged ports | three rewriting passes | passes that each see what the last one left | each bit resolves all its drivers, each with its own delay |
| parser (`xezim-parser/src/parse/`) | token cursor, diagnostics, context flags and queues, let scopes, the call stack | one routine per production, 124 in all | damaged text, attempts that are taken back, flags read many calls deeper | legal text is read as the grammar says; every text is read to an end; nothing leaks out of a routine or an attempt |
| lexer, lets, checks of names (`xezim-parser`) | characters, let bodies, declared names | | | planned |
| package-scoped names (`src/pkg_scope.rs`) | what packages and classes declare, import and export; a stack of lexical scopes | collect; one visit per kind of node | positions of imports, export chains, base classes, typedefs of parameterized classes | a reference is spelled as the declaration it denotes |
| instances, ports, generates, binds (`src/elaborate.rs`, `src/lib.rs`) | the flat module, the instances whose children are being inlined, prepared definitions, deferred text, the tree of scopes, resolved binds | expand generates, declare, connect, descend, move an item, finish, resolve binds and start again | text moved into another scope, at once or later; ports that are replaced and left out; binds that change the hierarchy they were resolved in | a name of the flat text stands for what it stood for where it was written; outputs drive their actuals; the instances are those asked for |
| parameters, constant functions (`src/elaborate.rs`, `src/elaborate/const_function_scope.rs`) | the table of parameters, the signals names read, the geometry of packed arrays and structs, what is deferred to the simulator; the locals of a call | seed in rounds, walk, instantiate, override; two evaluators; call a function | any order of declarations, widths that depend on values, two evaluators for one expression, limits of fuel and depth | a parameter has the value, width and sign the language gives it; a dimension is the value of its expression; a function reads what is listed for it |
| classes (`src/elaborate.rs`) | class tables | | | planned |
| user nettypes, UDPs, UPF, SDF, timescales, artifacts, diagnostic limits | see `PROJECT.json` | | | planned or out of scope |

`PROJECT.json` lists every component with its files and status, and under `hazards`
what a test of this code would hardly reach, each at its line with the properties that
would catch it.

## 2. Modules

| module | models | notes |
|---|---|---|
| `DumpStream` | what both sinks promise | abstract specification: a file grows by what was accepted, in order, and is complete when closed |
| `VcdSink` | dump sink | implements `DumpStream` |
| `VcdSinkProofs` | | proofs |
| `StdoutSink` | console sink | implements `DumpStream` |
| `StdoutSinkProofs` | | proofs |
| `SharedNames`, `MCSharedNames` | shared names | |
| `SharedNamesProofs` | | proofs |
| `ValuePlanes`, `ValueLogic`, `ValueArith` | operators on planes of W-bit words | pure operators |
| `ValueRef` | the same operators bit by bit or in integers | reference definitions |
| `ValueOps`, `MCValue` | sequences of operators, done both ways | |
| `ValueProofs` | | proofs |
| `Preprocessor`, `MCPreprocessor` | directive resolution and the line map | |
| `PreprocessorProofs` | | proofs |
| `LibrarySearch`, `MCLibrarySearch` | `resolve_library_modules` | |
| `LibrarySearchProofs` | | proofs |
| `DesignRoots`, `MCDesignRoots` | `parse_and_elaborate` up to the root | takes what `LibrarySearch` adopts as an input |
| `DesignRootsProofs` | | proofs |
| `OrderLemmas` | | lemmas on finite orders and sequences: least elements, induction, recursion, ranks, the sequences of a set, concatenation |
| `ParserCode` | the vocabulary the routines of the parser are written in | |
| `ParserExpressions`, `ParserStatements`, `ParserDeclarations`, `ParserItems` | the routines of `xezim-parser/src/parse/*.rs`, each under its own name | each extends the one before |
| `Parser` | the cursor, the stack, the flags and what an instruction does to them | |
| `MCParser` | | legal texts for each construct, the trees an operator sequence has by the precedence table of IEEE 1800 (`Trees`, the reference), and the properties |
| `NetDrivers`, `MCNetDrivers` | `resolve_bidirectional_switches`, `apply_net_delays`, `resolve_multi_driver_nets` | |
| `PkgNames` | `struct Info` of `pkg_scope.rs`: what the design declares, which names collide | pure operators |
| `PkgScope`, `MCPkgScope` | `struct Rw`: the walk that renames and respells | extends `PkgNames` |
| `Rewrite` | `rewrite_expr_impl`, `rewrite_stmt` and their helpers: moving text to another scope | pure operators |
| `GenBlocks` | generate constructs: renaming, genvars, labels | extends `Rewrite` |
| `NetMeaning` | what an expression stands for, in the text and in the flat design | reference, and the simulator's lookup (external) |
| `Inline`, `MCInline` | `inline_module_items`, the deferred lanes, the loop over binds | composes `Rewrite`, `GenBlocks`, `NetMeaning` |
| `ConstEval` | `eval_const_expr_val`, `const_eval_i64_with_params`, widths of types and expressions, calls of constant functions | pure operators, over the values of `ValuePlanes`, `ValueLogic` and `ValueArith` |
| `Parameters` | the parameters of a module and of one instance, in the order the elaborator reads them | extends `ConstEval` |
| `ConstRef`, `MCConst` | what IEEE 1800 says a constant expression is, in integers, widths and signs | reference, extends `Parameters` |

A definition commented "As if ..." or "... mutant" is a wrong variant of the definition that follows it; each
property of a passing run is shown to fail when the definition is replaced by it.

### State and actions against the code

**VcdSink.** Bytes and records are numbered in the order of the calls, so the file is a
sequence of numbers. `buf`, `pending`, `pendingXt` are the fields of `Mode::Threaded`,
`chan` the channel, `worker`/`hand` the place of the writer thread in its loop and in a
batch, `held` what the BufWriter (and the zstd encoder) keeps. `Write`, `PostVcdChanges`,
`PostXtraceChanges`, `Commit`, `Flush` and `Drop` are the whole functions, hand-overs
included; `Join` is the return of the join in `drop`. The thread takes one message
(`WorkerChunk`, `WorkerBatch`, ...) or one record of a batch (`WorkerRecord`) per step. A
`medium` is sound or faulty; on a faulty one a write may fail, which drops the end of
what the BufWriter had. `flush()` in the thread forgets its error, as the code does.

**StdoutSink.** The same, with `clock` for `LINE_FLUSH_MAX_DELAY`, `recycle` for the
emptied buffers and `acks` for the barriers that wait. Under `--log` stdout and stderr are
one file: `Diagnostic` is an `eprintln!` by the simulation thread, `diags` where it landed.

**SharedNames.** A handle is a `SharedName` somewhere in the program, an address an `Arc`
allocation. `Intern` has one action per path of `NameRegistry::intern` (vacant entry,
primary hit, bucket hit, new name) and of `SharedName::intern` (no scope open). An address
is free for reuse when it has neither handle nor weak pointer.

**Values.** A value has two planes, sets of bit positions; words are W bits (64 in the
code). Inline values and word sequences take their separate arms as in the code. Reals,
strings and text conversions are left out, and so is a select or a replication wider than
`MAX_WIDTH`. A state holds a value and its reference; each step applies one operator to
what the last one left. Four groups of operators have their own operands. The type of a
shift's or a merge's result is not claimed, literals are not given to `merge_unknown`,
`==?`, shifts and power, exponents are not negative: see section 6. What the proofs take of the inputs is
stated in `ValueOps` and evaluated by TLC: `OpsAssumption` (operands have no bit above
their width and are no wider than `Widest`, which is below `MAX_WIDTH`; a literal has one bit) and
`RangeAssumption` (shift amounts and select indexes fit the u32 they are narrowed to; no
select is wider than `MAX_WIDTH`).

**Preprocessor.** A line is a member of a small set (text, a directive, a macro use), the
text of a file any sequence of them; `Lines` is every line there may be, those of macro bodies included. A frame is one call of `resolve_directives`, for a
file or for an expansion with directives in it. A use that goes on over several lines is expanded as
one text, so `` `__LINE__ `` in it is the line it begins at, while the line map may give each
line of the output its own. Comment stripping, argument substitution,
token pasting, `` `begin_keywords``, `` `unconnected_drive`` and strict checks are left out.

**LibrarySearch.** The order in which directories are listed is fixed by the code's sort;
the order of hash sets is any order. What parsing a file yields is an input. `Finish` numbers the files as
`index_library_file` does (`AddFile`: by how many files supplied something new before) and renumbers
them as they are published, in any order of the map of definitions (`PublishDef`).

**DesignRoots.** One action per kind of description, in any order; then `EndOfSources`
(overrides, carrier), `Library`, `SelectTop`, `Elaborate`. What the tops are is read from the descriptions,
not from the registry they are kept in: the last declaration of a unit counts (`UnitOf`). Binds and the copying of unit
declarations into definitions are left out.

**Parser.** The parser is a recursive descent over a vector of tokens, with its context in
fields: `in_sva_seq`, `in_constraint`, `prototype_ports`, `sva_delay_count`,
`generate_depth`, and queues such as `pending_paren_dist`. A routine of the code is a
sequence of instructions (`ParserCode`): consume, expect, report, call, test, loop, set and
restore a field, mark, rewind, build a node. `Layout` gives every instruction its place and
its successors, and a step of the model is one instruction of the topmost activation of
`stack`: `DoBump`, `DoExpect`, `DoError`, `DoCall`, `DoReturn`, `DoMark`, `DoMove`, `DoRetract`,
`DoContext` and so on. `out` holds the expressions built that somebody still has to take, as
trees; of other nodes only what a later test looks at is kept. A token is its kind, and a
name that the code tells apart by its text (`randomize`, `option`, `$root`, ...) has a kind of
its own. The lookaheads that scan tokens without moving (`peek_is_class_scope`,
`constraint_lbrace_is_block`, ...) are operators over positions (`Walk`). The two settings
the parser asks for, the 2023 edition and strict checks, are part of the input; the
`XEZIM_RELAX_*` switches are off, as by default. Left out: spans and warnings; the text of a
number or a string; checks that compare names (redeclarations, end labels, which let a
name means, class names, assignable locals of a sequence); the rows of a primitive; what a
declaration is lowered to. Several reports of one check count as one.

**NetDrivers.** A design is a net kind, a port connection, a net delay and up to three
drivers in source order; after the drivers, the three passes run as the code runs them.
Expressions keep the resolution calls (`$__wres`, `$__wres_tri`, `$__sres`, `$__tranif`)
as terms, and `Value` evaluates them as the simulator's functions do. Left out: concatenated
targets, hierarchical drives of ports, package nets, `wreal`, rise/fall/off triples, a UDP's
own delay, unknown tristate controls, user nettypes; a select is a proper part of its net.

**PkgScope.** A name is a sequence of identifiers, so that the mangled `pa::T` is one name. The
recursion of `Rw` is an agenda: `todo` holds the nodes still to be visited and each action is the
visit of one kind of node, which puts its parts in front. `frames` is the code's stack of scopes;
the entries "push", "pop", "const" and "inlined" of the agenda stand for what the code does before
and after a recursive call. `out` records how each reference of the text is spelled in the end, and
the reference definition says from the text alone, by the rules of IEEE 1800 for imports, exports,
nested scopes and classes, which declaration it denotes. The automatic lifetime of
subroutines and the text of specializations are data.

**Inline.** `stack` is the recursion of `inline_module_items`, one entry per instance; an action
takes the next item of the topmost one. Processes and continuous assignments are put into `pending`
with the context of their instance and moved later, in any order of the lanes; subroutines,
properties and final blocks are moved at once, as in the code. When the design is inlined and bind
directives are left whose targets the hierarchy contains, `lib.rs` inlines it again (`pass`). The
model checks the depth of an instance before its text is emitted and the code after; the result is
discarded either way. `NetMeaning` gives an expression two meanings: `Mean`, by the scopes of the
text it was written in, and `Read`, by how the simulator looks a flat name up. The latter is outside
this repository and is taken from what `elaborate.rs` says of it where it roots a substituted name.
Left out: defparams, covergroups, checkers, instances of primitives, DPI, the checks of a bound
instance's overrides, the layout of structs beyond names and widths of members, delays.

**Parameters.** A design is the text of a module (header, body, functions, types), of one instance
of it and its overrides. `phase` is the place in the elaboration: the header's parameters, the
rounds of seeding, the walk over the body, the dimensions of declarations after it (`sizes`), the overrides
as they stand, the instance's header, the overrides of its body; each action reads the declaration `at`, and
takes what it is worth from one evaluation (`Outcome`). `parameters` is the table (`elab.parameters`), `signals` what a
name of a process reads, `layout` and `elem` the thread-local geometry that member and element
selects use, `deferred` the initialisers left to the simulator, `child` the instance's own table. A
value is a record of the value model (width, two planes, sign), a word of an integer has `W` bits.
The evaluators get an environment with the table, the geometry, the types and the functions, as the code
gets them from thread-locals. The mutually recursive functions of the code are arms of one recursive operator, `Evaluate`, each under
its own name. A call is evaluated as the code does it: actuals are folded, the locals
start from the names the body is found to read (`InitialLocals`) or the whole table, statements use up
fuel, calls use up depth, and a function that does anything else than the supported statements and
expressions gives up. Left out: type parameters, reals and strings, unpacked arrays and assignment patterns,
parameters of packages and classes, the subset of the table an instance takes.

## 3. Runs

| run | bounds | what it checks |
|---|---|---|
| `vcd_sink` | 5 items, writes of 1 byte, thresholds 2, a flush when at most 1 message is queued | `StreamOrder`, `StreamIntact`: order and completeness in both modes, both dumps, sound and faulty medium; `FlushReaches`, `FlushCompletes`, `DropReturns`; `Implements`: refinement of `DumpStream` |
| `stdout_sink` | 4 bytes, messages up to 2, threshold 2 | `LineAtomic`: lines are whole; `SyncReaches`: sync is a barrier; `CallsReturn`; `LineVisible`: bursts become visible; `Implements` |
| `shared_names` | 4 texts with 2 hashes, 4 addresses, 3 handles, 2 nested scopes | `TextKept`, `Shared`, `ScopeFrees`, `IndexFaithful`: sharing under collisions, dead entries and reuse |
| `values` | words of 3 bits, up to 7 bits (one word, two, three) | `Canonical`, `Faithful`: planes are canonical and operators agree with their references, in sequence |
| `preprocessor` | 5 lines of conditionals; 4 lines of everything else in 2 files, one continued line, include depth 1 | `BranchSelection`; `OriginsTrue`: each line of the output, and the cursor while it moves, knows where it came from, and `` `__LINE__ `` where that line or its use begins |
| `library_search` | two `-v` and four `-y` files, 96 combinations | `SearchExact`: what is there and needed is adopted and nothing else; `SourcesTrue`: an adopted definition has the number of its own file; `Terminates` |
| `roots` | every sequence of up to 4 of 15 descriptions, with a library, an override of every module and named tops | `EveryTopRuns`: the tops are the units the sources declare and nothing instantiates, unless a package has taken the name of a unit declared before it (the carrier of unit declarations among them); `DataNamesKept` |
| `net_drivers` | up to 3 drivers of a 2-bit net; one switch between 1-bit nets | `Resolved`, `PortsRead`, `DelaysOwn` |
| `parser` | 134 legal texts, each whole, without any one of its tokens and cut after any of them; all strings of up to 4 tokens of a 6-token expression alphabet; all pairs of the 12 binary operators, triples of 4, and mixtures with unary operators and `?:` | `ReadsTheGrammar`, `ContextRestored`, `SpeculationUndone`, `ParseEnds` |
| `pkg_scope` | two packages and one that passes names on; modules, blocks and the unit that declare or import the same name in any combination; classes with bases, nested classes, type parameters | `RefersToDeclaration`, `ClassTypesFollow` |
| `inline` | twelve families of designs of up to four levels of instances; `MaxDepth` 4, `MaxPasses` 4 (64 in the code) | `ReadsAsWritten`, `OutputsJoined`, `BindsApplied` |
| `const` | words of 8 bits, vectors up to 24, an `int` of 6; 8 rounds, 30 units of fuel, 5 calls deep; six families of modules | `ParametersTrue`, `DimensionsTrue`, `ListedReads` |

Why the bounds are enough: the sinks compare lengths with a threshold, and 2 makes
empty, partial and full buffers all occur, with a second hand-over behind the first; three
words of 3 bits reach every arm of the value code (one word, two, more) and widths that do
not divide a word; two colliding texts plus two others fill a primary entry and a bucket,
and with fewer handles than addresses names die and addresses are reused; five lines
are a conditional in a conditional with an `elsif`; three drivers exercise "first, middle,
last" of each fold. `values`, `preprocessor`, `roots` and `net_drivers` enumerate inputs,
so their claims are about all inputs within the bounds. The legal texts of `parser` call every
routine and reach every arm of the code; what is left of a text without a token, or of its
beginning, is what takes the recovery paths and the `Eof` guards of the loops. The families of
`inline` each vary one thing against the others: shapes of port and actual, forms of the text that
reads a port, levels an actual passes through, names that hide one another, statements that bind
names, generate blocks and their labels, paths up and down, interfaces and their arrays, arrays of
instances, binds of binds. Four levels are what a name needs to be pasted twice and captured
once, and four passes more than the longest chain of binds of the family. In `const` an `int` is narrower than a
word, as 32 bits are than 64, so that widening, wrapping and the limits of the machine word differ;
operands of 3 to 5 bits overflow and change sign in every operator; a chain of four parameters is declared in
all 24 orders, which takes up to four of the rounds; the functions of the run end within the fuel and the depth, but
for two, which are written to exceed one of them.

Deadlock is checked except in `preprocessor`, `parser` and `inline`, where a finished input may stop. The sinks'
end (`dropped`) stutters.

**Fairness.** `vcd_sink` and `stdout_sink` assume weak fairness of the writer thread (an
operating-system thread that is never blocked but in `recv`) and of a caller whose wait is
over; nothing is assumed of the simulation thread. `LineVisible` also assumes that
simulated time goes on (`TimeAdvances`: the simulator calls `flush_if_stale` whenever it
does), as an antecedent of that property alone. `library_search` and `parser` assume that a running loop
continues: one thread, no waiting.

## 4. Proofs

TLAPS proves, for every value of the constants:

* `VcdSinkProofs`: `TypeCorrect`, `OrderCorrect` (`Spec => []StreamOrder`),
  `NothingForgotten` (`Spec => []StreamIntact`), `FlushKeeps` (`Spec => []FlushReaches`) and
  `Refines` (`Spec => Implements`), from `VcdSinkAssumption` (thresholds
  positive, bounds natural). The inductive invariant is `IInv`: `TypeOK`, that an inline
  sink uses no queue (`Modes`), `OneStage` (raw bytes and records are never staged
  together), `StreamOrder`, `StreamIntact`, that nothing lost is elsewhere (`LostGone`) and that a flush
  in the queue is behind all its caller had handed over (`FlushBehind`). `StreamOrder` is not inductive without
  `OneStage`: `flush` sends `buf` before the batches, which keeps the order only because
  one of them is empty; and `OneStage` holds because `write` and the two `post` calls
  dispatch what the others staged. The argument runs along the pipeline file, held, hand,
  queue, staging: each action is a composition of moves of a block of items one stage
  on, and a lemma per move shows what it keeps. `FlushReaches` rests on
  `FlushBehind`. The refinement maps every step to an acceptance, a growth of the file, a loss, the close or a
  stutter; that `drop` may only return when nothing is under way is the invariant `ClosingHolds`.
* `StdoutSinkProofs`: `TypeCorrect`, `LinesWhole` (`Spec => []LineAtomic`), `BarrierReaches`
  (`Spec => []SyncReaches`) and `Refines` (`Spec => Implements`), for every threshold, bound and
  mode. `LineAtomic` is not inductive by itself: the inductive
  invariant places file, BufWriter, channel and staged bytes one behind the other (`Pipe`) and says that none of
  the places where the stream is cut lies inside a line; a diagnostic can only land at one of them. `Handshake`
  says where the one barrier or shutdown the caller waits for is, which `SyncReaches` and the refinement's close need.
* `SharedNamesProofs`: `NamesShared`, `NamesKeepText`, `RegistryFreed`, `IndexCorrect`
  (`Spec => []IndexFaithful`), from
  `NamesAssumption` (a hash function, any). `Shared` is not inductive: that a missed lookup
  makes no second allocation needs `IndexFaithful` (every live name of the scope can be
  found under its hash), which needs `BucketBehindPrimary` (the vacant path does not look
  into the bucket) and `TextKept`; a new outermost scope needs `ScopeFrees`.
* `LibrarySearchProofs`: `SearchIsExact` (`Spec => []SearchExact`) and `SourcesAreTrue`
  (`Spec => []SourcesTrue`), for any libraries, designs and orders of directories and hash sets, from
  `LibraryAssumption` and `DesignAssumption` (names and files are finite; `-v` files are not candidates of a
  directory; a forward typedef instantiates nothing). Both properties speak of the finished search. While it runs, `NamesTracked` says that
  an instantiated name is defined, reported or on the worklist, and that no readable file defines a reported one;
  the latter needs `NothingSkipped` (a readable file is indexed or pending, and after the full scan nothing is
  pending). `OnlyNeeded` quantifies over sets of names that need each other only: `WorkNeeded` is
  its inductive form, for the worklist as well as for what was adopted. `SourcesTrue` needs that
  an adopted definition is that of the first indexed file with its name *now* (`Registry`), which a
  later indexing cannot change (`OriginFacts`), and that the numbers lead there: `AddFile` keeps that the entry of a
  name is the place of its first file among those that supplied something (`AddFileKeeps`), `PublishDef` that a published
  entry is the new place of the same file and that every number in `renumber` is (`PublishDefKeeps`); both are folded over
  the files and the entries by induction over their number. The type invariant is part of `Invariance`.
* `DesignRootsProofs`: `DataKept` (`Spec => []DataNamesKept`) and `TopsRun` (`Spec => []EveryTopRuns`), for
  any set of descriptions, libraries, tops and overrides and without a bound on the number of descriptions that matters
  (`MaxDescs` is any number), from `NamesAssumption`, `DescsAssumption` (only hierarchy units instantiate) and
  `LibrariesAssumption`. `DataNames` says that `class_defs` and `typedef_defs` hold the last description of
  each name and that a slot of such a kind does too; `FirstDeclared` that `def_source_pos` is ordered by
  first declarations; `UnitsHeld` that a slot holds the last unit of its name in the descriptions, unless a package
  took it, which links the registry to what the sources declare (`UnitFacts`, `UnitsAreTops`); `CarrierChosen` what the carrier is before a library is read; `RootChosen`
  what the choice of the top leaves. That sorting the candidates by source position yields each once and in
  order is the lemma `Sorted`, by ranks in a finite order (`Ranking` in `OrderLemmas`).
* `PreprocessorProofs`: `OriginsCorrect` (`Spec => []OriginsTrue`) and `BranchesSelected`
  (`Spec => []BranchSelection`), for any lines, files, macros, lengths of text, depth of includes and number of
  rescans, from `PreprocessorAssumption` (a line that names a macro names one of `Macros`, a body is a sequence of
  lines). `OriginsTrue` is not inductive: a caller goes on with the cursor its callee restores, so `Waiting` says
  that a waiting call stands at the line of the call with all its origins written, and that the callee will
  restore just that place; `Attributed` says of every call that its lines without an origin are of the place its reader
  is at. The lemmas follow the code: a frame that fills, adds a line, extends or goes on by n lines (`Moved`)
  stays in order, and each directive is a composition of these. For `BranchSelection`, `Tracked` says which
  directive opened each entry of `ifdef_stack` and that `branch_taken` is whether one of its branches held: the property speaks
  of `active` alone and would not survive an `` `elsif``. That the branches of a conditional are
  not changed by later directives (`OpenBefore`, `BranchesBefore`) is an induction over the directives read.
* `ValueProofs`: `CanonicalHolds` (`Spec => []Canonical`) for every operator, and `FaithfulHolds`
  (`Spec => [](group # "arith" => Faithful)`) for all but the arithmetic and relational ones: bitwise, logical and
  reducing operators, equalities with and without wildcards, shifts, selects, concatenation, replication,
  changes of width, writes in place; for every size of a word, every width and every set of operands, from
  `ValueAssumption`, `PowAssumption`, `OpsAssumption` and `RangeAssumption`. The inductive invariant `IInv` holds both
  facts together: an operator reads whole words, so its bits are right only if the planes it is given are clear
  above the width, and it must leave them clear for the next. Each operator is reduced to
  positions: a lemma says which bit of which operand a word, a chunk or a mask of the code
  sets at a position, another what the language says of that position. The loops that copy chunk by
  chunk or join copy by copy are recursive functions over numbers, and what they have done after n rounds is a
  `SetInduction`. Signs, widths and literals that grow are the type half of the same lemmas. Arithmetic is shown to
  leave the planes clear (each result is cut by the mask of its width), not to compute the right number.

The inductive invariants were first checked by TLC on the runs' instances.

Only model-checked: liveness under fairness (`FlushCompletes`, `DropReturns`, `CallsReturn`,
`LineVisible`, `Terminates`, `ParseEnds`), which this prover does not reach; what arithmetic and relations
compute (`Faithful` in the group "arith": a number is a sum of powers of two over the bits, and the provers have no
facts about `^` nor about such sums, each an induction over data); and
what `NetDrivers`, `Parser`, `PkgNames`, `Rewrite` and `ConstEval` (and what
extends them) claim: they evaluate and rewrite terms with RECURSIVE operators, which the prover does not
support, and an induction over terms would need an operator as a parameter. Induction over numbers is at hand, in the form of
`SetInduction` (a set that holds 0 and successors holds every number), and so are recursive functions over numbers
(`Iteration`: one exists; `SameIterates`: there is only one).

## 5. Plan

In this order:

1. Type parameters, parameters of packages and classes, defparams; timescales; user nettypes beside `NetDrivers`.
2. The caches of the syntax tree (`xezim-parser/src/ast/cache.rs`, `shared_vec.rs`): cells that
   are filled and disabled concurrently, clones that keep or reset them.
3. The rest of the parser: what a `let` means where it is used, redeclarations, the tables of
   primitives.
4. Compositions: `LibrarySearch` feeding `DesignRoots`; both sinks beside one simulation thread.

## 6. What the code does that its comments do not say

They were met while modelling; the models follow the code, and the inputs of the runs
avoid them or the property does not claim them:

* An `import pa::T` of the compilation unit is rewritten to the mangled name before it is entered into
  the unit's scope, which then does not know `T` (`src/pkg_scope.rs:3318`, against the rules at 20 and 24).
* `commit()` keeps partial batches (`src/vcd_sink.rs:237-248`), its comment (226) says that it hands
  them over.
* `power` of -1 wider than a word sets one word of ones (`src/value.rs:2567`); an unknown bit
  of the left operand of `==?` is not a wildcard (3634, against 3603); a bit-select index
  above 2^32 is bounds-checked after narrowing (6145); an overshifted inline value becomes
  unsigned (3042, against 3064).
* In `xezim-parser/src/parse/`: `a -> b ? c : d` is read as `a -> (b ? c : d)`, though the comment at
  `expressions.rs:3098` puts `->` above the ternary; `<->` associates to the left; an operator
  applied to a unary operator without parentheses is accepted; `parse_lvalue_or_expr` and
  the instance lists rewind without taking back their reports, which then appear twice;
  a token that begins no package item is passed over in silence (`items.rs:1206`).
* A parenthesized `dist` in a later operand of a constraint expression is left for the next
  item (`expressions.rs:1404`, against the comment of `paren_dist` in `mod.rs`). The second `KwType` arm of
  `parse_data_type` (`types.rs:224`) is unreachable behind the first.
* A module that nothing instantiates and that has no initial block, beside a package or a
  class, is not found as the root (`src/lib.rs:3047`, against 2935): the last module read is elaborated,
  although the first one instantiates it.
* A class or a package that takes the slot of the last module, program or primitive read (`top_module`) is still a candidate
  and is elaborated as the root: `module t` with an initial block, `primitive p`, `class p` does not run `t` (`src/lib.rs:2999`,
  against 3010-3016). When the named top is only found in a library, the carrier chosen before (2276) is a root of the
  sources and not the root that is elaborated.
* A package takes the slot of a module, interface, program or checker declared before it (`src/lib.rs:2079`), although
  1979-1983 say that the two coexist without data loss: the module is gone, and what only it instantiates runs
  as a root. `TopsFound` names this case and leaves it out.
* `` `__LINE__ `` in the later lines of a macro use that goes on over several lines is the line the use begins at
  (`xezim-parser/src/preprocessor/mod.rs:1867`, 2699), while the line map gives the lines their own.
* A module with a `-y` file of its own can be adopted from another module's file,
  depending on hash order (`src/lib.rs:4082`).
* A library module that instantiates the carrier of unit declarations makes it a child
  (`src/lib.rs:2288`); a module takes the slot of a package of its name (2007, against 1979).
* Net drivers (`src/elaborate.rs`): of several drivers of a wire, one a delayed tristate
  primitive, only the last one counts, without its delay (46739, against 46471); overlapping selects inside an instance are not widened (46331); a
  driver with a strength on a `wand`/`wor` net is the only one that counts (46894); a pull
  on a `trireg` replaces its charge (46872); `tri0`/`tri1`/`trireg` nets driven through selects have
  no pull (46580); of two switches in a row the first end does not see the far drivers
  (46982); a switch drops the delays of its terminals' drivers (46988).
* Names in inlined text (`src/elaborate.rs`). A declaration of a process does not shadow a
  same-named declaration of its generate block or the genvar (50043-50058). A block local, a loop
  variable or a formal with the name of the top-level net that is connected to a port captures
  the pasted actual (48403-48432, 42396); so may a child's own block, of a dotted actual. Names bound by
  a pattern shadow nothing; dimensions of local declarations are not rewritten (50326-50348).
  Names of unlabelled generate blocks leak into the module (as a comment there says).
* Paths. The instance names of a nested generate block count as declared by the outer scope, so
  `u.sig` can be resolved to a sibling of that name (48101-48111). Functions, properties and final
  blocks are moved before their own instance is in the tree of scopes. A select in a path whose head
  is local is not rewritten, while a port may be left out on the assumption that every read was.
* Ports. An `inout` port is always replaced by its actual, whatever their labels and widths
  (41989); an unsized literal keeps its own width; a struct formal connected to an element of a
  packed array loses its members; a whole net connected to an array of instances is cut as if it
  were declared `[N:0]`.
* Generate blocks: gates of a loop are neither renamed nor is their genvar replaced; final blocks
  are not renamed; implicit nets of conditional blocks are never registered.
* Interfaces: a port passed on beside an interface instance of the outer one's name is bound to
  that instance (37498); modport expressions of arrays of interfaces and of interfaces in generate
  blocks are not registered (36907-36949), and those registered are found by flat names that another module
  may also write.
* Binds: a resolution of an earlier pass is kept when a later hierarchy hides it; implicit nets of
  an instance bound into the top are not registered (37339); only the top's name, of the enclosing
  definitions, may begin a target.
* Widths and signs of constants (`src/elaborate.rs`). The operands of an untyped parameter and of a comparison
  are computed bottom up, so nested sums of different widths lose their carries. `& | ^ ~^` of two signed
  operands and `>>` of a signed one come out unsigned (`src/value.rs:2776`), so that a negative narrower operand is
  extended by zeros (against `elaborate.rs:29385-29389`). An untyped parameter that is initialised by a member, an
  element, a cast or a call gets 32 bits and a sign. The width and sign of `?:` are those of the taken arm;
  `$clog2`, `$bits` and the counts are unsigned. A size cast gives its operand the target as context.
* The integer evaluator ignores the size and sign of a literal, complements at 64 bits, does not wrap at 32,
  and reads a concatenation of 64 bits with the top one set as negative. Part-selects of a constant take
  no notice of declared low bounds or ascending ranges.
* Constant functions: a callee starts from its caller's locals; all declarations of a body share one
  scope; `i++` makes a variable unsigned and a loop variable takes its initialiser's width; expressions of
  a body and initialisers with a call have no assignment context; both arms of a nested conditional are
  expanded, so that a recursion in one gives up; a call that gives up in a default of an instance's
  header yields 0.
* Parameters: a chain that is declared in reverse and is longer than 8 is not seeded; and a value that was
  seeded stays in the table when the walk comes to another. A parameter whose range depends on one initialised by a call, or
  whose type is a typedef of the module, so keeps a wrong width there (10465-10471 say that the order does not
  matter).

## 7. What is not modelled

The text of dump records and messages, reals and strings, serialization and artifacts, the
simulator itself (it is not part of this repository; `NetDrivers` evaluates its
resolution functions from how the elaborator uses them), and the parts listed as
`not_modelled` in `PROJECT.json`, some of which section 5 plans. A select index beyond 2^32 (`src/value.rs:6145`) is outside the widths
TLC can enumerate. Two hazards have no property: a
macro that uses itself behind a conditional (`preprocessor/mod.rs:1909`) recurses without a limit of its
own, so that a run would not end; and of several switches in a row (`src/elaborate.rs:46969`) the code
does not resolve the far end, see section 6.
