---------------------------- MODULE Preprocessor ---------------------------
(***************************************************************************)
(* The directive resolver of the preprocessor                              *)
(* (xezim-parser/src/preprocessor/mod.rs): conditionals, macro             *)
(* definitions and uses, nested includes, `line, protected regions, the    *)
(* timescale in effect, and the map from each output line back to the      *)
(* source line it came from.                                               *)
(*                                                                         *)
(* The next line of a file is any line of the input, so every text over    *)
(* these lines is explored.  resolve_directives calls itself for an include and for a  *)
(* macro whose expansion holds directives: each call is a frame.           *)
(***************************************************************************)
EXTENDS Integers, Sequences, FiniteSets, SequencesExt

CONSTANTS Lines,            \* what a line may be, of a file or of a macro's body
          Inputs,           \* the inputs; of each, the lines a file may have and bounds:
                            \*   reads: lines read from files; files: top-level files;
                            \*   joined: lines one construct continues over;
                            \*   steps: 0 for a piece split off the line before it
          Files, Macros,
          MaxIncludeDepth,  \* MAX_INCLUDE_DEPTH
          Passes            \* the rescans of expand_macros

ASSUME PreprocessorAssumption ==
  /\ MaxIncludeDepth \in Nat /\ Passes \in Nat
  /\ \A ln \in Lines :
       /\ ln.k \in {"ifdef", "ifndef", "elsif", "define", "undef", "use"} => ln.m \in Macros
       /\ ln.k = "define" => ln.body \in Seq(Lines)
       /\ ln.k = "line" => ln.n \in Nat
  /\ \A i \in Inputs : i.lines \subseteq Lines /\ i.joined \in Nat

VARIABLES input,
          frames,             \* the calls of resolve_directives, the innermost last
          defines,            \* macro bodies, Undefined where there is none
          current,            \* current_file and current_line
          include_depth,
          timescale,          \* the `timescale in effect, "none" without one
          current_file_ts,
          module_timescales,  \* what was in effect at a declaration
          module_ts_own_file,
          last_map,           \* the line map of the last text
          errors, reads, done

vars == <<input, frames, defines, current, include_depth, timescale, current_file_ts,
          module_timescales, module_ts_own_file, last_map, errors, reads, done>>

Undefined == "undefined"
IsDefined(mac) == defines[mac] # Undefined

Top == frames[Len(frames)]
SetTop(f) == frames' = [frames EXCEPT ![Len(frames)] = f]

\* Frames.  `text` is what is left of a macro's expansion.  `at` is where a
\* reader of the file is, `trail` the conditional directives met: the code has
\* neither, they are what the properties compare with.
NewFrame(kind, fixed, saved, text, at) ==
  [kind |-> kind, fixed |-> fixed, saved |-> saved, text |-> text, ifdefs |-> <<>>, trail |-> <<>>,
   out |-> <<>>, origins |-> <<>>, seen |-> 0, here |-> fixed, at |-> at, fresh |-> TRUE,
   called |-> FALSE, joined |-> 0]
NewFile(file, saved) ==
  LET start == [file |-> file, line |-> 0] IN NewFrame("file", start, saved, <<>>, start)

Init ==
  /\ input \in Inputs
  /\ frames = <<>> /\ defines = [mac \in Macros |-> Undefined]
  /\ current = [file |-> "none", line |-> 0] /\ include_depth = 0
  /\ timescale = "none" /\ current_file_ts = FALSE
  /\ module_timescales = {} /\ module_ts_own_file = {}
  /\ last_map = "none" /\ errors = {} /\ reads = 0 /\ done = 0

scaling == <<timescale, current_file_ts, module_timescales, module_ts_own_file>>

-----------------------------------------------------------------------------
(* Lines, output and its origins *)

Repeated(x, n) == [i \in 1 .. n |-> x]

\* OriginSink::fill: the lines completed since the last call get origin `o`.
Fill(f, o) == [f EXCEPT !.origins = @ \o Repeated(o, Len(f.out) - f.seen), !.seen = Len(f.out)]

\* The end of the loop.
Final(f) == Fill(f, f.here)

\* OriginSink::extend
Extend(f, lines, origins) ==
  [f EXCEPT !.out = @ \o lines, !.origins = @ \o origins, !.seen = Len(f.out) + Len(lines)]

\* Output lines: where the text was read, what `__LINE__ says there, and where
\* the line or the macro use it belongs to begins.
Line(at, said, begins, declares) ==
  [at |-> at, said |-> said, begins |-> begins, text |-> TRUE, declares |-> declares]
NoLine(at) == [at |-> at, said |-> at, begins |-> at, text |-> FALSE, declares |-> {}]
Blank(f) == [f EXCEPT !.out = Append(@, NoLine(f.at))]

\* A position `n` lines further on; in a macro's text it stays at the use.
Ahead(f, pos, n) == IF f.kind = "macro" THEN pos ELSE [pos EXCEPT !.line = @ + n]

\* The cursor at the head of the loop: `step` is 0 for a piece split off the
\* line before it.
Move(f, step) == Ahead(f, current, step)

\* The head of the loop.
NextLine(f, step) ==
  [Fill(f, f.here) EXCEPT !.here = IF f.kind = "macro" THEN f.fixed ELSE Move(f, step),
                          !.at = Ahead(f, @, step),
                          !.fresh = FALSE,
                          !.text = IF f.kind = "macro" THEN Tail(@) ELSE @]

\* The innermost frame reads the line `ln`, and `more` lines that continue it.
Read(ln, step, more) ==
  /\ frames # <<>> /\ ~Top.called
  /\ \/ /\ Top.kind = "macro" /\ Top.text # <<>> /\ ln = Head(Top.text)
        /\ step = 0 /\ more = 0 /\ reads' = reads
     \/ /\ Top.kind = "file" /\ ln \in input.lines /\ reads + more < input.reads
        /\ step \in (IF Top.fresh THEN {1} ELSE input.steps) /\ reads' = reads + 1 + more

\* Consume's step: one continuation line and its newline.
Continue(f) ==
  LET g == [f EXCEPT !.here = Ahead(f, @, 1), !.at = Ahead(f, @, 1)] IN Fill(Blank(g), g.here)

\* The newlines of a construct of 1 + more lines.
Consume(f, more) ==
  LET after[k \in 0 .. more] == IF k = 0 THEN Fill(Blank(f), f.here) ELSE Continue(after[k-1])
  IN after[more]

Active(f) == \A i \in DOMAIN f.ifdefs : f.ifdefs[i].active

-----------------------------------------------------------------------------
(* Conditionals and definitions *)

Conditionals == {"ifdef", "ifndef", "elsif", "else", "endif"}
Definitions == {"define", "undef", "undefineall"}

\* Mutant: `elsif looks at its condition whatever branch was taken.
ElsifAgain(last, cond) == [last EXCEPT !.active = last.parent_active /\ cond, !.branch_taken = @ \/ cond]

ElsifState(last, cond) ==
  IF ~last.parent_active \/ last.branch_taken THEN [last EXCEPT !.active = FALSE]
  ELSE [last EXCEPT !.active = cond, !.branch_taken = cond]

ElseState(last) == [last EXCEPT !.active = last.parent_active /\ ~last.branch_taken, !.branch_taken = TRUE]

OnLast(s, Op(_)) == IF s = <<>> THEN s ELSE [s EXCEPT ![Len(s)] = Op(@)]

Conditional(ln, step) ==
  LET f == NextLine(Top, step)
      cond == CASE ln.k \in {"ifdef", "elsif"} -> IsDefined(ln.m)
                [] ln.k = "ifndef" -> ~IsDefined(ln.m)
                [] ln.k \in {"else", "endif"} -> TRUE
      new == [parent_active |-> Active(f), branch_taken |-> Active(f) /\ cond, active |-> Active(f) /\ cond]
      stack == CASE ln.k \in {"ifdef", "ifndef"} -> Append(f.ifdefs, new)
                 [] ln.k = "elsif" -> OnLast(f.ifdefs, LAMBDA last : ElsifState(last, cond))
                 [] ln.k = "else"  -> OnLast(f.ifdefs, ElseState)
                 [] ln.k = "endif" -> IF f.ifdefs = <<>> THEN <<>> ELSE Front(f.ifdefs)
  IN /\ Read(ln, step, 0) /\ ln.k \in Conditionals
     /\ current' = Move(Top, step)
     /\ SetTop([Blank(f) EXCEPT !.ifdefs = stack, !.trail = Append(@, [k |-> ln.k, holds |-> cond])])
     /\ UNCHANGED <<defines, include_depth, scaling, last_map, errors, done>>

\* `define, whose formals and body may continue over further lines.
Define(ln, step, more) ==
  LET f == NextLine(Top, step)
  IN /\ Read(ln, step, more) /\ ln.k = "define"
     /\ current' = Ahead(Top, current, step + more)
     /\ SetTop(Consume(f, more))
     /\ defines' = IF Active(f) THEN [defines EXCEPT ![ln.m] = ln.body] ELSE defines
     /\ UNCHANGED <<include_depth, scaling, last_map, errors, done>>

\* `undef and `undefineall
Undefine(ln, step) ==
  LET f == NextLine(Top, step)
      gone == IF ln.k = "undef" THEN {ln.m} ELSE Macros
  IN /\ Read(ln, step, 0) /\ ln.k \in {"undef", "undefineall"}
     /\ current' = Move(Top, step)
     /\ SetTop(Blank(f))
     /\ defines' = IF Active(f) THEN [mac \in Macros |-> IF mac \in gone THEN Undefined ELSE defines[mac]]
                   ELSE defines
     /\ UNCHANGED <<include_depth, scaling, last_map, errors, done>>

\* Every other line of a skipped branch.
Skip(ln, step) ==
  LET f == NextLine(Top, step)
  IN /\ Read(ln, step, 0) /\ ln.k \notin Conditionals \cup Definitions /\ ~Active(f)
     /\ current' = Move(Top, step)
     /\ SetTop(Blank(f))
     /\ UNCHANGED <<defines, include_depth, scaling, last_map, errors, done>>

-----------------------------------------------------------------------------
(* Text *)

\* design_element_name: the name a line declares, none for most.
DesignElements(line) == IF line.k = "module" THEN {line.name} ELSE {}

\* note_design_elements: the timescale of the first declaration of a name, and
\* of the compilation unit.
NoteDesignElements(names) ==
  LET new == {n \in names \cup {"$unit"} : ~\E e \in module_timescales : e.name = n}
  IN IF timescale = "none" THEN UNCHANGED <<module_timescales, module_ts_own_file>>
     ELSE /\ module_timescales' = module_timescales \cup {[name |-> n, ts |-> timescale] : n \in new}
          /\ module_ts_own_file' = IF current_file_ts THEN module_ts_own_file \cup names ELSE module_ts_own_file

\* A line without macros, the declaration of a design element among them.
Text(ln, step) ==
  LET f == NextLine(Top, step)
  IN /\ Read(ln, step, 0) /\ ln.k \in {"text", "module"} /\ Active(f)
     /\ current' = Move(Top, step)
     /\ SetTop(Fill([f EXCEPT !.out = Append(@, Line(f.at, Move(Top, step), f.at, DesignElements(ln)))], f.here))
     /\ NoteDesignElements(DesignElements(ln))
     /\ UNCHANGED <<defines, include_depth, timescale, current_file_ts, last_map, errors, done>>

\* expand_macros: every use is replaced by its body, again and again.
ExpandOnce(lines) ==
  FlattenSeq([i \in DOMAIN lines |->
                IF lines[i].k = "use" /\ IsDefined(lines[i].m) THEN defines[lines[i].m] ELSE <<lines[i]>>])
Expand(line) ==
  LET pass[n \in 0 .. Passes] == IF n = 0 THEN ExpandOnce(<<line>>) ELSE ExpandOnce(pass[n-1])
  IN pass[Passes]

\* contains_preprocessor_directive
HasDirective(lines) ==
  \E i \in DOMAIN lines : lines[i].k \in Conditionals \cup {"include", "undef", "define"}

\* Mutant: a multi-line expansion takes the origins of the lines that follow.
OriginOffsetAll(joined, n, i) == i - 1

\* The source line of line `i` of an expansion: the i-th of the joined lines
\* when there are as many of them, the use otherwise.
OriginOffset(joined, n, i) == IF n = joined THEN i - 1 ELSE 0

\* The lines of an expansion, or a newline for each joined line if it is blank.
\* The joined lines are expanded together, with the cursor `said`.
PutExpansion(f, said, joined, text) ==
  LET n == Len(text)
      count == IF n = 0 THEN joined ELSE n
      At(i) == Ahead(f, f.at, IF count = joined THEN i - 1 ELSE 0)
  IN Extend(Fill(f, f.here),
            [i \in 1 .. count |-> IF n = 0 THEN NoLine(At(i)) ELSE Line(At(i), said, f.at, DesignElements(text[i]))],
            [i \in 1 .. count |-> Ahead(f, f.here, OriginOffset(joined, count, i))])

\* The position once the joined lines are accounted for.
AfterUse(f, joined) == [f EXCEPT !.here = Ahead(f, @, joined - 1), !.at = Ahead(f, @, joined - 1)]

\* A macro use, its arguments spread over 1 + more lines.
Use(ln, step, more) ==
  LET f == NextLine(Top, step)
      text == Expand(ln)
  IN /\ Read(ln, step, more) /\ ln.k = "use" /\ Active(f) /\ (more > 0 => IsDefined(ln.m))
     /\ ~HasDirective(text)
     /\ current' = Ahead(Top, current, step + more)
     /\ SetTop(AfterUse(PutExpansion(f, Move(Top, step), 1 + more, text), 1 + more))
     /\ IF text = <<>> THEN UNCHANGED <<module_timescales, module_ts_own_file>>
        ELSE NoteDesignElements(DesignElements(text[1]))
     /\ UNCHANGED <<defines, include_depth, timescale, current_file_ts, last_map, errors, done>>

\* An expansion that still holds directives is resolved by a call of its own.
UseCall(ln, step, more) ==
  LET f == NextLine(Top, step)
      text == Expand(ln)
  IN /\ Read(ln, step, more) /\ ln.k = "use" /\ Active(f) /\ HasDirective(text)
     /\ current' = Move(Top, step)
     /\ frames' = Append([frames EXCEPT ![Len(frames)] = [f EXCEPT !.called = TRUE, !.joined = 1 + more]],
                         NewFrame("macro", f.here, Move(Top, step), text, f.at))
     /\ UNCHANGED <<defines, include_depth, scaling, last_map, errors, done>>

\* The origin of the newline that ends a resolved expansion.
TailOrigin(f) == <<f.here>>

\* The resolved expansion joins the caller's output.
ReturnMacro ==
  LET g == Final(Top)
      p == [frames[Len(frames) - 1] EXCEPT !.called = FALSE]
      blank == \A i \in DOMAIN g.out : ~g.out[i].text
      q == IF blank THEN PutExpansion(p, Top.saved, p.joined, <<>>)
           ELSE Extend(Fill(p, p.here), Append(g.out, NoLine(p.at)), g.origins \o TailOrigin(p))
  IN /\ frames # <<>> /\ ~Top.called /\ Top.kind = "macro" /\ Top.text = <<>>
     /\ frames' = [Front(frames) EXCEPT ![Len(frames) - 1] = AfterUse(q, p.joined)]
     /\ current' = Ahead(p, Top.saved, p.joined - 1)
     /\ IF blank THEN UNCHANGED <<module_timescales, module_ts_own_file>>
        ELSE NoteDesignElements(g.out[CHOOSE i \in DOMAIN g.out : /\ g.out[i].text
                                                                 /\ \A j \in 1 .. i-1 : ~g.out[j].text].declares)
     /\ UNCHANGED <<defines, include_depth, timescale, current_file_ts, last_map, errors, reads, done>>

-----------------------------------------------------------------------------
(* Other directives *)

\* `timescale and `resetall
Scale(ln, step) ==
  LET f == NextLine(Top, step)
  IN /\ Read(ln, step, 0) /\ ln.k \in {"timescale", "resetall"} /\ Active(f)
     /\ current' = Move(Top, step)
     /\ timescale' = IF ln.k = "timescale" THEN ln.ts ELSE "none"
     /\ current_file_ts' = (current_file_ts \/ ln.k = "timescale")
     /\ SetTop(Blank(f))
     /\ UNCHANGED <<defines, include_depth, module_timescales, module_ts_own_file, last_map, errors, done>>

\* `line: the next line is line ln.n of ln.file.
LineDirective(ln, step) ==
  LET f == NextLine(Top, step)
      to == [file |-> ln.file, line |-> ln.n - 1]
  IN /\ Read(ln, step, 0) /\ ln.k = "line" /\ Top.kind = "file" /\ Active(f)
     /\ current' = to
     /\ SetTop([Blank(f) EXCEPT !.at = to, !.fresh = TRUE])
     /\ UNCHANGED <<defines, include_depth, scaling, last_map, errors, done>>

\* `pragma protect: the lines up to the matching end never reach the lexer.
Protect(ln, step, more) ==
  LET f == NextLine(Top, step)
  IN /\ Read(ln, step, more) /\ ln.k = "protect" /\ Active(f)
     /\ current' = Ahead(Top, current, step + more)
     /\ SetTop(Consume(f, more))
     /\ UNCHANGED <<defines, include_depth, scaling, last_map, errors, done>>

\* `include of a file that is found
Include(ln, step) ==
  LET f == NextLine(Top, step)
  IN /\ Read(ln, step, 0) /\ ln.k = "include" /\ Active(f)
     /\ ln.file \in Files /\ include_depth < MaxIncludeDepth
     /\ include_depth' = include_depth + 1
     /\ current' = [file |-> ln.file, line |-> 0]
     /\ frames' = Append([frames EXCEPT ![Len(frames)] = [f EXCEPT !.called = TRUE]],
                         NewFile(ln.file, Move(Top, step)))
     /\ UNCHANGED <<defines, scaling, last_map, errors, done>>

\* One that is missing, or nested too deeply, is an error.
IncludeFails(ln, step) ==
  LET f == NextLine(Top, step)
  IN /\ Read(ln, step, 0) /\ ln.k = "include" /\ Active(f)
     /\ ln.file \notin Files \/ include_depth >= MaxIncludeDepth
     /\ errors' = errors \cup {IF include_depth >= MaxIncludeDepth THEN "depth" ELSE "missing"}
     /\ current' = Move(Top, step)
     /\ SetTop(Blank(f))
     /\ UNCHANGED <<defines, include_depth, scaling, last_map, done>>

\* The caller's cursor, restored at the end of resolve_directives.
Restored(f) == f.saved

\* An included file ends.
ReturnInclude ==
  LET g == Final(Top)
      p == [frames[Len(frames) - 1] EXCEPT !.called = FALSE]
  IN /\ Len(frames) > 1 /\ ~Top.called /\ Top.kind = "file"
     /\ frames' = [Front(frames) EXCEPT ![Len(frames) - 1] = Extend(p, g.out, g.origins)]
     /\ current' = Restored(Top)
     /\ include_depth' = include_depth - 1
     /\ UNCHANGED <<defines, scaling, last_map, errors, reads, done>>

\* begin_top_level_file, preprocess_file
BeginFile(file) ==
  /\ frames = <<>> /\ done < input.files
  /\ frames' = <<NewFile(file, current)>>
  /\ current' = [file |-> file, line |-> 0]
  /\ current_file_ts' = FALSE
  /\ UNCHANGED <<defines, include_depth, timescale, module_timescales, module_ts_own_file, last_map, errors, reads, done>>

\* finish_map: a map that does not cover the text line for line is dropped.
FinishFile ==
  LET g == Final(Top)
  IN /\ Len(frames) = 1 /\ ~Top.called
     /\ last_map' = IF Len(g.out) = Len(g.origins) THEN "kept" ELSE "dropped"
     /\ frames' = <<>> /\ current' = Restored(Top)
     /\ done' = done + 1
     /\ UNCHANGED <<defines, include_depth, scaling, errors, reads>>

\* The line an action takes: the next of a macro's text, any in a file.
Candidates == IF frames = <<>> THEN {}
              ELSE IF Top.kind = "macro" THEN ToSet(Top.text) ELSE input.lines

Step ==
  \/ \E ln \in Candidates, step \in {0, 1} :
       \/ Conditional(ln, step) \/ Undefine(ln, step) \/ Skip(ln, step) \/ Text(ln, step)
       \/ Scale(ln, step) \/ LineDirective(ln, step) \/ Include(ln, step) \/ IncludeFails(ln, step)
       \/ \E more \in 0 .. input.joined : \/ Define(ln, step, more) \/ Protect(ln, step, more)
                                     \/ Use(ln, step, more) \/ UseCall(ln, step, more)
  \/ ReturnMacro \/ ReturnInclude \/ FinishFile
  \/ \E file \in Files : BeginFile(file)

Next == Step /\ UNCHANGED input

Spec == Init /\ [][Next]_vars

-----------------------------------------------------------------------------
(* Properties *)

\* The conditionals open after the first n directives of a trail.
OpenAfter(trail) ==
  LET open[n \in 0 .. Len(trail)] ==
        IF n = 0 THEN <<>>
        ELSE LET o == open[n-1]
             IN CASE trail[n].k \in {"ifdef", "ifndef"} -> Append(o, n)
                  [] trail[n].k = "endif" -> IF o = <<>> THEN o ELSE Front(o)
                  [] trail[n].k \in {"elsif", "else"} -> o
  IN open

\* The directives of the conditional opened by directive o: its branches.
Branches(trail, o) ==
  LET open == OpenAfter(trail)
  IN {o} \cup {n \in o+1 .. Len(trail) : /\ trail[n].k \in {"elsif", "else"}
                                         /\ open[n] # <<>> /\ Last(open[n]) = o}

\* Text is kept exactly inside the branches IEEE 1800 selects: of every open
\* conditional, the branch being read must be the first one whose condition
\* held when it was met, whatever was defined or nested since.
BranchSelection ==
  \A i \in DOMAIN frames :
    LET f == frames[i]
        open == OpenAfter(f.trail)[Len(f.trail)]
    IN Active(f) <=>
         \A j \in DOMAIN open :
            LET B == Branches(f.trail, open[j])
                last == CHOOSE n \in B : \A m \in B : m <= n
            IN f.trail[last].holds /\ \A m \in B \ {last} : ~f.trail[m].holds

\* Every output line is attributed to the file and line its text was read
\* from, through includes, continued definitions, split lines, multi-line
\* uses, protected regions and `line: diagnostics point where the user looks.
\* `__LINE__ and `__FILE__ in it name the line at which it begins, which for the
\* later lines of a macro use is that of the use; and the map stays in step
\* with the text, so that it is not dropped ("A map that does not cover the
\* text line for line (a bug)").
OriginsTrue ==
  /\ last_map # "dropped"
  /\ \A i \in DOMAIN frames :
       LET f == frames[i]
       IN /\ \A n \in DOMAIN f.origins : n \in DOMAIN f.out => f.origins[n] = f.out[n].at
          /\ \A n \in DOMAIN f.out : n > f.seen => f.here = f.out[n].at
          /\ \A n \in DOMAIN f.out : f.out[n].said = f.out[n].begins
=============================================================================
