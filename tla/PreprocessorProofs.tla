------------------------- MODULE PreprocessorProofs -------------------------
(***************************************************************************)
(* What the directive resolver keeps true for every text, every set of     *)
(* files and macros, every depth of includes and every number of rescans:  *)
(* the line map and `__LINE__ tell the truth (OriginsTrue), and the text   *)
(* kept is that of the branches IEEE 1800 selects (BranchSelection).       *)
(*                                                                         *)
(* Neither is inductive.  A caller resumes with the cursor its callee      *)
(* restores, so the invariant says of every waiting call where it stands   *)
(* and that its output has all its origins (Waiting); of the innermost,    *)
(* that the lines without an origin are those of the place the reader is   *)
(* at (Attributed).  For the branches it says which directive opened each  *)
(* entry of the ifdef stack and what the entry remembers of the branches   *)
(* before (Tracked); what is open is defined by recursion over the         *)
(* directives read, so a further directive must be shown to leave the past *)
(* as it was (OpenBefore, BranchesBefore).                                 *)
(***************************************************************************)
EXTENDS Preprocessor, OrderLemmas

-----------------------------------------------------------------------------
(* The inductive invariant *)

\* The places a line may come from, the elements it may declare.
Places == [file : Files \cup {"none"} \cup {ln.file : ln \in {l \in Lines : l.k = "line"}}, line : Int]
Elements == {ln.name : ln \in {l \in Lines : l.k = "module"}}

OutLines == [at : Places, said : Places, begins : Places, text : BOOLEAN, declares : SUBSET Elements]
Levels == [parent_active : BOOLEAN, branch_taken : BOOLEAN, active : BOOLEAN]
Directives == [k : Conditionals, holds : BOOLEAN]

Frames == [kind : {"file", "macro"}, fixed : Places, saved : Places, text : Seq(Lines),
           ifdefs : Seq(Levels), trail : Seq(Directives), out : Seq(OutLines), origins : Seq(Places),
           seen : Nat, here : Places, at : Places, fresh : BOOLEAN, called : BOOLEAN, joined : Nat]

\* The lines that have an origin have the right one, and the others will get it.
Attributed(f) ==
  /\ f.seen = Len(f.origins) /\ f.seen <= Len(f.out)
  /\ \A n \in 1 .. f.seen : f.origins[n] = f.out[n].at
  /\ \A n \in f.seen + 1 .. Len(f.out) : f.here = f.out[n].at
  /\ \A n \in 1 .. Len(f.out) : f.out[n].said = f.out[n].begins
  /\ f.kind = "macro" => f.here = f.fixed /\ f.at = f.fixed

\* A frame that has called another waits at the line of the call, with the
\* origins of its output complete; the other will restore the cursor to it.
Waiting(p, f) ==
  /\ p.called /\ p.here = p.at /\ p.seen = Len(p.out) /\ f.saved = p.at
  /\ f.kind = "macro" => f.fixed = p.at /\ p.joined >= 1

\* Directive o opened a conditional of the trail, which is in the state l.
Selected(trail, o) ==
  LET B == Branches(trail, o)
      last == CHOOSE n \in B : \A m \in B : m <= n
  IN trail[last].holds /\ \A m \in B \ {last} : ~trail[m].holds

Follows(trail, o, l) ==
  IF l.parent_active
  THEN /\ l.active <=> Selected(trail, o)
       /\ l.branch_taken <=> \E m \in Branches(trail, o) : trail[m].holds
  ELSE ~l.active

\* The stack of conditionals is the list of the open ones, oldest first.
Tracked(trail, ifdefs) ==
  LET open == OpenAfter(trail)[Len(trail)]
  IN /\ open \in Seq(1 .. Len(trail)) /\ Len(open) = Len(ifdefs)
     /\ \A i, j \in 1 .. Len(open) : i < j => open[i] < open[j]
     /\ \A j \in 1 .. Len(open) :
          /\ ifdefs[j].parent_active <=> \A i \in 1 .. j-1 : ifdefs[i].active
          /\ Follows(trail, open[j], ifdefs[j])

\* The macros.
Bodies(defs) ==
  DOMAIN defs = Macros /\ \A mac \in Macros : defs[mac] # Undefined => defs[mac] \in Seq(Lines)

\* The calls of resolve_directives.
StackOK(fs, cur) ==
  /\ fs \in Seq(Frames)
  /\ \A i \in 1 .. Len(fs) : Attributed(fs[i]) /\ Tracked(fs[i].trail, fs[i].ifdefs)
  /\ \A i \in 1 .. Len(fs) - 1 : Waiting(fs[i], fs[i + 1])
  /\ fs # <<>> => fs[1].kind = "file" /\ ~fs[Len(fs)].called /\ fs[Len(fs)].at = cur

IInv ==
  /\ input \in Inputs /\ current \in Places
  /\ Bodies(defines)
  /\ StackOK(frames, current)
  /\ last_map # "dropped"

-----------------------------------------------------------------------------
(* Expansion *)

\* The lines of an expansion are lines, whatever the macros are.
LEMMA ExpandFacts ==
  ASSUME IInv, NEW ln \in Lines
  PROVE  Expand(ln) \in Seq(Lines)
<1>1. \A s \in Seq(Lines) : ExpandOnce(s) \in Seq(Lines)
  <2> SUFFICES ASSUME NEW s \in Seq(Lines) PROVE ExpandOnce(s) \in Seq(Lines)
    OBVIOUS
  <2> DEFINE P(i) == IF s[i].k = "use" /\ IsDefined(s[i].m) THEN defines[s[i].m] ELSE <<s[i]>>
  <2>1. \A i \in 1 .. Len(s) : P(i) \in Seq(Lines)
    <3> SUFFICES ASSUME NEW i \in 1 .. Len(s) PROVE P(i) \in Seq(Lines)
      OBVIOUS
    <3>1. s[i] \in Lines
      OBVIOUS
    <3>2. s[i].k = "use" => s[i].m \in Macros
      BY <3>1, PreprocessorAssumption
    <3>3. <<s[i]>> \in Seq(Lines)
      BY <3>1
    <3> QED
      BY <3>2, <3>3 DEF IInv, Bodies, IsDefined
  <2> HIDE DEF P
  <2>2. [i \in 1 .. Len(s) |-> P(i)] \in Seq(Seq(Lines))
    BY <2>1
  <2>3. DOMAIN s = 1 .. Len(s)
    OBVIOUS
  <2>4. ExpandOnce(s) = FlattenSeq([i \in DOMAIN s |-> P(i)])
    BY DEF ExpandOnce, P
  <2> QED
    BY <2>2, <2>3, <2>4, FlattenFacts
<1> DEFINE Eq(g) == g = [n \in 0 .. Passes |-> IF n = 0 THEN ExpandOnce(<<ln>>) ELSE ExpandOnce(g[n-1])]
           pass == CHOOSE g : Eq(g)
           step == [p \in Nat \X Seq(Lines) |-> ExpandOnce(p[2])]
           base == ExpandOnce(<<ln>>)
<1>2. Expand(ln) = pass[Passes]
  BY DEF Expand
<1>3. base \in Seq(Lines)
  <2>1. <<ln>> \in Seq(Lines)
    OBVIOUS
  <2> QED
    BY <1>1, <2>1
<1>4. step \in [Nat \X Seq(Lines) -> Seq(Lines)]
  BY <1>1
<1>5. Passes \in Nat
  BY PreprocessorAssumption
<1> HIDE DEF base
<1>6. PICK f \in [0 .. Passes -> Seq(Lines)] : Iterates(f, base, step, Passes)
  <2> HIDE DEF step
  <2> QED
    BY <1>3, <1>4, <1>5, Iteration
<1>7. \A k \in 1 .. Passes : f[k] = ExpandOnce(f[k - 1])
  <2> SUFFICES ASSUME NEW k \in 1 .. Passes PROVE f[k] = ExpandOnce(f[k - 1])
    OBVIOUS
  <2>1. k - 1 \in 0 .. Passes /\ <<k, f[k - 1]>> \in Nat \X Seq(Lines)
    BY <1>5
  <2>2. f[k] = step[<<k, f[k - 1]>>]
    BY <1>6 DEF Iterates
  <2> QED
    BY <2>1, <2>2
<1>8. Eq(f)
  <2>1. f[0] = base
    BY <1>6 DEF Iterates
  <2>2. ASSUME NEW n \in 0 .. Passes PROVE f[n] = IF n = 0 THEN ExpandOnce(<<ln>>) ELSE ExpandOnce(f[n-1])
    <3>1. n # 0 => n \in 1 .. Passes
      BY <1>5
    <3> QED
      BY <1>7, <2>1, <3>1 DEF base
  <2>3. f = [n \in 0 .. Passes |-> f[n]]
    OBVIOUS
  <2> QED
    BY <2>2, <2>3
<1>9. Eq(pass)
  <2> HIDE DEF Eq
  <2> QED
    BY <1>8
<1> HIDE DEF pass
<1>a. \A n \in 0 .. Passes : pass[n] = IF n = 0 THEN ExpandOnce(<<ln>>) ELSE ExpandOnce(pass[n-1])
  BY <1>9, Zenon
<1>10. pass[0] = f[0] /\ \A k \in 1 .. Passes : pass[k - 1] = f[k - 1] => pass[k] = f[k]
  <2>1. pass[0] = f[0]
    <3>1. 0 \in 0 .. Passes /\ f[0] = base
      BY <1>5, <1>6 DEF Iterates
    <3> QED
      BY <1>a, <3>1 DEF base
  <2>2. ASSUME NEW k \in 1 .. Passes, pass[k - 1] = f[k - 1] PROVE pass[k] = f[k]
    <3>1. pass[k] = ExpandOnce(pass[k-1])
      <4>1. k \in 0 .. Passes /\ k # 0
        BY <1>5
      <4> QED
        BY <1>a, <4>1, Zenon
    <3> QED
      BY <1>7, <2>2, <3>1
  <2> QED
    BY <2>1, <2>2
<1>11. pass[Passes] = f[Passes]
  <2>1. \A k \in 0 .. Passes : pass[k] = f[k]
    BY <1>5, <1>10, SameIterates, ZenonT(40)
  <2> QED
    BY <1>5, <2>1
<1> QED
  BY <1>2, <1>5, <1>6, <1>11

-----------------------------------------------------------------------------
(* Reading and writing lines *)

\* What g keeps of f while the text of f is being read.
SameCall(f, g) ==
  /\ g.kind = f.kind /\ g.fixed = f.fixed /\ g.saved = f.saved /\ g.ifdefs = f.ifdefs
  /\ g.trail = f.trail /\ g.called = f.called /\ g.joined = f.joined

\* A frame in order, its origins complete, its reader at the line of the output to come.
Ready(f) == f \in Frames /\ Attributed(f) /\ f.here = f.at

\* Going ahead twice is going ahead by the sum; in a macro's text nobody moves.
LEMMA AheadFacts ==
  ASSUME NEW f \in Frames, NEW pos \in Places, NEW n \in Int, NEW m \in Int
  PROVE  /\ Ahead(f, pos, n) \in Places
         /\ Ahead(f, Ahead(f, pos, n), m) = Ahead(f, pos, n + m)
         /\ Ahead(f, pos, 0) = pos
<1>1. CASE f.kind = "macro"
  BY <1>1 DEF Ahead
<1>2. CASE f.kind # "macro"
  <2>1. \A p \in Places, k \in Int : /\ Ahead(f, p, k) \in Places
                                    /\ Ahead(f, p, k) = [file |-> p.file, line |-> p.line + k]
    BY <1>2 DEF Ahead, Places
  <2>2. pos.line \in Int /\ pos = [file |-> pos.file, line |-> pos.line] /\ pos.line + 0 = pos.line
    BY DEF Places
  <2>3. pos.line + n + m = pos.line + (n + m) /\ n + m \in Int
    BY <2>2
  <2>4. Ahead(f, pos, n).file = pos.file /\ Ahead(f, pos, n).line = pos.line + n
    BY <2>1
  <2>5. Ahead(f, Ahead(f, pos, n), m) = [file |-> pos.file, line |-> pos.line + n + m]
    BY <2>1, <2>4
  <2>6. Ahead(f, pos, n + m) = [file |-> pos.file, line |-> pos.line + (n + m)]
    BY <2>1, <2>3
  <2>7. Ahead(f, pos, 0) = [file |-> pos.file, line |-> pos.line + 0]
    BY <2>1
  <2> QED
    BY <2>1, <2>2, <2>3, <2>5, <2>6, <2>7
<1> QED
  BY <1>1, <1>2

\* Fill gives the lines without an origin that of the reader, and changes nothing else.
LEMMA FillFacts ==
  ASSUME NEW f \in Frames, Attributed(f)
  PROVE  /\ Fill(f, f.here) \in Frames /\ Attributed(Fill(f, f.here)) /\ SameCall(f, Fill(f, f.here))
         /\ LET g == Fill(f, f.here)
            IN g.seen = Len(g.out) /\ g.out = f.out /\ g.here = f.here /\ g.at = f.at /\ g.text = f.text
<1> DEFINE g == Fill(f, f.here)
           k == Len(f.out) - f.seen
           more == Repeated(f.here, k)
<1>1. k \in Nat /\ f.seen \in Nat /\ f.seen + k = Len(f.out) /\ f.out \in Seq(OutLines) /\ f.origins \in Seq(Places)
  BY DEF Frames, Attributed
<1>2. more \in Seq(Places) /\ Len(more) = k /\ \A i \in 1 .. k : more[i] = f.here
  <2>1. f.here \in Places
    BY DEF Frames
  <2> HIDE DEF k
  <2>2. more = [i \in 1 .. k |-> f.here]
    BY Zenon DEF Repeated
  <2> HIDE DEF more
  <2>3. more \in Seq(Places)
    BY <1>1, <2>1, <2>2
  <2> QED
    BY <1>1, <2>2, <2>3
<1>3. /\ g = [f EXCEPT !.origins = f.origins \o more, !.seen = Len(f.out)]
      /\ f.origins \o more \in Seq(Places) /\ Len(f.out) \in Nat
  BY <1>1, <1>2 DEF Fill
<1> HIDE DEF g, k, more
<1>4. g \in Frames
  BY <1>3 DEF Frames
<1>5. /\ SameCall(f, g) /\ g.seen = Len(g.out) /\ g.out = f.out /\ g.here = f.here /\ g.at = f.at
      /\ g.text = f.text /\ g.origins = f.origins \o more
  BY <1>3 DEF Frames, SameCall
<1>6. Attributed(g)
  <2>1. Len(g.origins) = Len(g.out)
    <3>1. Len(f.origins) = f.seen
      BY DEF Attributed
    <3>2. Len(f.origins \o more) = Len(f.origins) + Len(more)
      BY <1>1, <1>2, ConcatAt
    <3> QED
      BY <1>1, <1>2, <1>5, <3>1, <3>2
  <2>2. ASSUME NEW n \in 1 .. Len(g.out) PROVE g.origins[n] = g.out[n].at
    <3>1. CASE n <= f.seen
      BY <1>1, <1>2, <1>5, <3>1 DEF Attributed
    <3>2. CASE n > f.seen
      <4>1. n - f.seen \in 1 .. k /\ n \in f.seen + 1 .. Len(f.out)
        BY <1>1, <1>5, <3>2
      <4>2. g.origins[n] = more[n - f.seen]
        <5>1. Len(f.origins) = f.seen
          BY DEF Attributed
        <5>2. n \in Len(f.origins) + 1 .. Len(f.origins) + Len(more)
          BY <1>1, <1>2, <4>1, <5>1
        <5>3. (f.origins \o more)[n] = more[n - Len(f.origins)]
          <6>1. f.origins \in Seq(Places) /\ more \in Seq(Places)
            BY <1>1, <1>2
          <6> QED
            BY <5>2, <6>1, ConcatAt, Zenon
        <5> QED
          BY <1>5, <5>1, <5>3
      <4> QED
        BY <1>2, <1>5, <4>1, <4>2 DEF Attributed
    <3> QED
      BY <1>1, <3>1, <3>2
  <2> QED
    BY <1>1, <1>5, <2>1, <2>2 DEF Attributed, SameCall
<1> QED
  BY <1>4, <1>5, <1>6 DEF g

\* A line of the place where the reader is keeps a frame in order.
LEMMA AddLine ==
  ASSUME NEW f, Ready(f), NEW ln \in OutLines, ln.at = f.at, ln.said = ln.begins
  PROVE  LET g == [f EXCEPT !.out = Append(@, ln)]
         IN /\ Ready(g) /\ SameCall(f, g) /\ g.seen = f.seen /\ g.at = f.at /\ g.text = f.text
            /\ Len(g.out) = Len(f.out) + 1
<1> DEFINE g == [f EXCEPT !.out = Append(@, ln)]
<1>1. f \in Frames /\ f.out \in Seq(OutLines) /\ f.seen \in Nat
  BY DEF Frames, Ready
<1>2. Append(f.out, ln) \in Seq(OutLines) /\ g = [f EXCEPT !.out = Append(f.out, ln)]
  BY <1>1
<1> HIDE DEF g
<1>3. g \in Frames
  BY <1>1, <1>2 DEF Frames
<1>4. /\ SameCall(f, g) /\ g.seen = f.seen /\ g.at = f.at /\ g.text = f.text /\ g.here = f.here
      /\ g.out = Append(f.out, ln) /\ g.origins = f.origins
  BY <1>1, <1>2 DEF Frames, SameCall
<1>5. Attributed(g)
  BY <1>1, <1>4 DEF Attributed, Ready, SameCall
<1>6. Len(g.out) = Len(f.out) + 1
  BY <1>1, <1>4
<1> QED
  BY <1>3, <1>4, <1>5, <1>6 DEF g, Ready

\* A frame whose reader goes on, the lines before complete.
Moved(f, g, n) ==
  /\ Ready(g) /\ SameCall(f, g) /\ g.seen = Len(g.out) /\ g.at = Ahead(f, f.at, n)

\* The origins stay right wherever the reader of a complete frame goes.
LEMMA StillAttributed ==
  ASSUME NEW f \in Frames, NEW g, Attributed(f), f.seen = Len(f.out), g.seen = f.seen, g.out = f.out,
         g.origins = f.origins, g.kind = "macro" => g.here = g.fixed /\ g.at = g.fixed
  PROVE  Attributed(g)
<1>1. f.seen \in Nat
  BY DEF Frames
<1>2. \A n \in g.seen + 1 .. Len(g.out) : FALSE
  BY <1>1
<1>3. /\ g.seen = Len(g.origins) /\ g.seen <= Len(g.out)
      /\ \A n \in 1 .. g.seen : g.origins[n] = g.out[n].at
      /\ \A n \in 1 .. Len(g.out) : g.out[n].said = g.out[n].begins
  BY <1>1 DEF Attributed
<1> QED
  BY <1>2, <1>3 DEF Attributed

\* The reader of a complete frame may go on by any number of lines.
LEMMA ReadyAt ==
  ASSUME NEW f, Ready(f), f.seen = Len(f.out), NEW n \in Int
  PROVE  LET g == [f EXCEPT !.here = Ahead(f, @, n), !.at = Ahead(f, @, n)]
         IN Moved(f, g, n) /\ g.text = f.text /\ g.out = f.out
<1> DEFINE g == [f EXCEPT !.here = Ahead(f, @, n), !.at = Ahead(f, @, n)]
           pos == Ahead(f, f.at, n)
<1>1. f \in Frames /\ f.at = f.here /\ f.at \in Places
  BY DEF Frames, Ready
<1>2. pos \in Places
  BY <1>1, AheadFacts
<1>3. g = [f EXCEPT !.here = pos, !.at = pos]
  BY <1>1
<1>4. f.kind = "macro" => pos = f.at
  BY DEF Ahead
<1> HIDE DEF g, pos
<1>5. g \in Frames
  BY <1>1, <1>2, <1>3 DEF Frames
<1>6. /\ SameCall(f, g) /\ g.seen = f.seen /\ g.at = pos /\ g.text = f.text /\ g.here = pos
      /\ g.out = f.out /\ g.origins = f.origins
  BY <1>1, <1>3 DEF Frames, SameCall
<1>7. Attributed(g)
  <2>1. g.kind = "macro" => g.here = g.fixed /\ g.at = g.fixed
    BY <1>1, <1>4, <1>6 DEF Attributed, Ready, SameCall
  <2> QED
    BY <1>1, <1>6, <2>1, StillAttributed DEF Ready
<1> QED
  BY <1>5, <1>6, <1>7 DEF g, pos, Ready, Moved

\* The head of the loop.
LEMMA NextLineFacts ==
  ASSUME NEW f \in Frames, Attributed(f), f.at = current, NEW step \in Int,
         f.kind = "macro" => f.text # <<>>
  PROVE  Moved(f, NextLine(f, step), step)
<1> DEFINE h == Fill(f, f.here)
           pos == Ahead(f, f.at, step)
           text == IF f.kind = "macro" THEN Tail(f.text) ELSE f.text
           g == NextLine(f, step)
<1>1. /\ h \in Frames /\ Attributed(h) /\ SameCall(f, h) /\ h.seen = Len(h.out)
      /\ h.here = f.here /\ h.at = f.at /\ h.text = f.text
  BY FillFacts
<1>2. pos \in Places
  BY AheadFacts DEF Frames
<1>3. text \in Seq(Lines)
  BY DEF Frames
<1>4. f.kind = "macro" => pos = f.at /\ f.fixed = f.at
  BY DEF Ahead, Attributed
<1>5. pos = Move(f, step) /\ (IF f.kind = "macro" THEN f.fixed ELSE Move(f, step)) = pos
  BY <1>4 DEF Move
<1>6. g = [h EXCEPT !.here = pos, !.at = pos, !.fresh = FALSE, !.text = text]
  BY <1>1, <1>5 DEF NextLine
<1> HIDE DEF g, pos, h, text
<1>7. g \in Frames
  BY <1>1, <1>2, <1>3, <1>6 DEF Frames
<1>8. /\ SameCall(h, g) /\ g.seen = h.seen /\ g.at = pos /\ g.here = pos
      /\ g.out = h.out /\ g.origins = h.origins
  BY <1>1, <1>6 DEF Frames, SameCall
<1>9. SameCall(f, g)
  BY <1>1, <1>8 DEF SameCall
<1>10. Attributed(g)
  <2>1. g.kind = "macro" => g.here = g.fixed /\ g.at = g.fixed
    BY <1>4, <1>8, <1>9 DEF SameCall
  <2> QED
    BY <1>1, <1>8, <2>1, StillAttributed
<1> QED
  BY <1>1, <1>7, <1>8, <1>9, <1>10 DEF g, pos, Ready, Moved

\* A newline of the input where nothing else is written.
LEMMA BlankFacts ==
  ASSUME NEW f, Ready(f)
  PROVE  /\ Ready(Blank(f)) /\ SameCall(f, Blank(f)) /\ Blank(f).seen = f.seen /\ Blank(f).at = f.at
<1>1. f.at \in Places
  BY DEF Ready, Frames
<1>2. NoLine(f.at) \in OutLines /\ NoLine(f.at).at = f.at /\ NoLine(f.at).said = NoLine(f.at).begins
  BY <1>1 DEF NoLine, OutLines
<1> QED
  BY <1>2, AddLine DEF Blank

\* The same, with the origin of the line.
LEMMA FilledFacts ==
  ASSUME NEW f, Ready(f)
  PROVE  Moved(f, Fill(f, f.here), 0)
<1>1. f \in Frames /\ Attributed(f) /\ f.at \in Places
  BY DEF Ready, Frames
<1>2. Ahead(f, f.at, 0) = f.at
  <2>1. 0 \in Int
    OBVIOUS
  <2> QED
    BY <1>1, <2>1, AheadFacts
<1> QED
  BY <1>1, <1>2, FillFacts DEF Moved, Ready

\* Going on by n lines and then by m is going on by n + m.
LEMMA MovedTwice ==
  ASSUME NEW f, NEW g, NEW h, Ready(f), NEW n \in Int, NEW m \in Int, Moved(f, g, n), Moved(g, h, m)
  PROVE  Moved(f, h, n + m)
<1>1. f \in Frames /\ g \in Frames /\ f.at \in Places /\ g.kind = f.kind
  BY DEF Ready, Frames, Moved, SameCall
<1>2. h.at = Ahead(f, Ahead(f, f.at, n), m)
  BY <1>1 DEF Moved, Ahead
<1>3. h.at = Ahead(f, f.at, n + m)
  BY <1>1, <1>2, AheadFacts
<1> QED
  BY <1>3 DEF Moved, SameCall

\* A construct of one line and `more` that continue it.
LEMMA ConsumeFacts ==
  ASSUME NEW f, Ready(f), f.seen = Len(f.out), NEW more \in Nat
  PROVE  Moved(f, Consume(f, more), more)
<1> DEFINE base == Fill(Blank(f), f.here)
           Eq(a) == a = [k \in 0 .. more |-> IF k = 0 THEN base ELSE Continue(a[k-1])]
           after == CHOOSE a : Eq(a)
           S == {g \in Frames : \E k \in Nat : Moved(f, g, k)}
           step == [p \in Nat \X S |-> Continue(p[2])]
<1>1. Consume(f, more) = after[more]
  BY DEF Consume
<1>2. Moved(f, base, 0)
  <2>1. Ready(Blank(f)) /\ SameCall(f, Blank(f)) /\ Blank(f).at = f.at
    BY BlankFacts
  <2>2. Blank(f).here = f.here
    BY <2>1 DEF Ready
  <2>3. Moved(Blank(f), base, 0)
    BY <2>1, <2>2, FilledFacts
  <2> QED
    BY <2>1, <2>3 DEF Moved, SameCall, Ahead
<1>3. ASSUME NEW g, NEW k \in Nat, Moved(f, g, k) PROVE Moved(f, Continue(g), k + 1)
  <2> DEFINE h == [g EXCEPT !.here = Ahead(g, @, 1), !.at = Ahead(g, @, 1)]
  <2>1. Ready(g) /\ g.seen = Len(g.out) /\ 1 \in Int
    BY <1>3 DEF Moved
  <2>2. Moved(g, h, 1)
    BY <2>1, ReadyAt
  <2>3. Ready(h)
    BY <2>2 DEF Moved
  <2>4. Continue(g) = Fill(Blank(h), h.here)
    BY DEF Continue
  <2> HIDE DEF h
  <2>5. Ready(Blank(h)) /\ SameCall(h, Blank(h)) /\ Blank(h).at = h.at
    BY <2>3, BlankFacts
  <2>6. Blank(h).here = h.here
    BY <2>3, <2>5 DEF Ready
  <2>7. Moved(Blank(h), Continue(g), 0)
    BY <2>4, <2>5, <2>6, FilledFacts
  <2>8. Moved(h, Continue(g), 0)
    BY <2>5, <2>7 DEF Moved, SameCall, Ahead
  <2>9. Moved(g, Continue(g), 1)
    <3>1. 1 + 0 = 1 /\ 1 \in Int /\ 0 \in Int
      OBVIOUS
    <3> QED
      BY <2>1, <2>2, <2>8, <3>1, MovedTwice
  <2> QED
    BY <1>3, <2>9, MovedTwice
<1>4. step \in [Nat \X S -> S] /\ base \in S
  <2>1. ASSUME NEW g \in S PROVE Continue(g) \in S
    <3>1. PICK k \in Nat : Moved(f, g, k)
      OBVIOUS
    <3>2. Moved(f, Continue(g), k + 1) /\ k + 1 \in Nat
      BY <1>3, <3>1
    <3> QED
      BY <3>2 DEF Moved, Ready
  <2>2. base \in S
    BY <1>2 DEF Moved, Ready
  <2> HIDE DEF S, base
  <2> QED
    BY <2>1, <2>2
<1> HIDE DEF base, S
<1>5. PICK it \in [0 .. more -> S] : Iterates(it, base, step, more)
  <2> HIDE DEF step
  <2> QED
    BY <1>4, Iteration
<1>6. it[0] = base /\ \A k \in 1 .. more : it[k] = Continue(it[k-1])
  <2>1. ASSUME NEW k \in 1 .. more PROVE it[k] = Continue(it[k-1])
    <3>1. k - 1 \in 0 .. more /\ <<k, it[k - 1]>> \in Nat \X S
      OBVIOUS
    <3>2. it[k] = step[<<k, it[k - 1]>>]
      BY <1>5 DEF Iterates
    <3> QED
      BY <3>1, <3>2
  <2> QED
    BY <1>5, <2>1 DEF Iterates
<1>7. Eq(it)
  <2>1. ASSUME NEW n \in 0 .. more PROVE it[n] = IF n = 0 THEN base ELSE Continue(it[n-1])
    <3>1. n # 0 => n \in 1 .. more
      OBVIOUS
    <3> QED
      BY <1>6, <3>1
  <2>2. it = [n \in 0 .. more |-> it[n]]
    OBVIOUS
  <2> QED
    BY <2>1, <2>2
<1>8. Eq(after)
  <2> HIDE DEF Eq
  <2> QED
    BY <1>7
<1> HIDE DEF after
<1>9. \A n \in 0 .. more : after[n] = IF n = 0 THEN base ELSE Continue(after[n-1])
  BY <1>8, Zenon
<1> DEFINE T == {n \in Nat : n <= more => Moved(f, after[n], n)}
<1>10. 0 \in T
  <2>1. after[0] = base
    <3>1. 0 \in 0 .. more
      OBVIOUS
    <3> QED
      BY <1>9, <3>1
  <2> QED
    BY <1>2, <2>1
<1>11. ASSUME NEW n \in Nat, n \in T PROVE n + 1 \in T
  <2> SUFFICES ASSUME n + 1 <= more PROVE Moved(f, after[n + 1], n + 1)
    OBVIOUS
  <2> DEFINE m == n + 1
  <2>1. m \in 0 .. more /\ m # 0 /\ m - 1 = n /\ Moved(f, after[n], n)
    BY <1>11
  <2>2. after[m] = Continue(after[n])
    <3> HIDE DEF m
    <3> QED
      BY <1>9, <2>1
  <2> QED
    BY <1>3, <2>1, <2>2
<1> HIDE DEF T
<1>12. Nat \subseteq T
  BY <1>10, <1>11, SetInduction
<1> QED
  BY <1>1, <1>12 DEF T

\* Lines that bring their origins with them.
LEMMA ExtendFacts ==
  ASSUME NEW f, Ready(f), f.seen = Len(f.out),
         NEW lines \in Seq(OutLines), NEW origins \in Seq(Places), Len(lines) = Len(origins),
         \A n \in 1 .. Len(lines) : origins[n] = lines[n].at /\ lines[n].said = lines[n].begins
  PROVE  Moved(f, Extend(f, lines, origins), 0)
<1> DEFINE g == Extend(f, lines, origins)
           out == f.out \o lines
           from == f.origins \o origins
           k == Len(f.out) + Len(lines)
<1>1. /\ f \in Frames /\ f.out \in Seq(OutLines) /\ f.origins \in Seq(Places)
      /\ Len(f.out) \in Nat /\ Len(lines) \in Nat /\ Len(f.origins) = Len(f.out)
  BY DEF Frames, Ready, Attributed
<1>2. out \in Seq(OutLines) /\ from \in Seq(Places) /\ k \in Nat /\ Len(out) = k /\ Len(from) = k
  <2>1. out \in Seq(OutLines) /\ Len(out) = k
    BY <1>1, ConcatAt
  <2>2. from \in Seq(Places) /\ Len(from) = Len(f.origins) + Len(origins)
    BY <1>1, ConcatAt
  <2> QED
    BY <1>1, <2>1, <2>2
<1>3. g = [f EXCEPT !.out = out, !.origins = from, !.seen = k]
  BY DEF Extend
<1>4. ASSUME NEW n \in 1 .. k PROVE from[n] = out[n].at /\ out[n].said = out[n].begins
  <2>1. CASE n <= Len(f.out)
    <3>1. n \in 1 .. Len(f.out) /\ from[n] = f.origins[n] /\ out[n] = f.out[n]
      BY <1>1, <2>1
    <3> QED
      BY <3>1 DEF Ready, Attributed
  <2>2. CASE n > Len(f.out)
    <3>1. n - Len(f.out) \in 1 .. Len(lines)
      BY <1>1, <2>2
    <3>2. out[n] = lines[n - Len(f.out)]
      <4>1. n \in Len(f.out) + 1 .. Len(f.out) + Len(lines)
        BY <1>1, <2>2
      <4> QED
        BY <1>1, <4>1, ConcatAt
    <3>3. from[n] = origins[n - Len(f.origins)]
      <4>1. n \in Len(f.origins) + 1 .. Len(f.origins) + Len(origins)
        BY <1>1, <2>2
      <4>2. f.origins \in Seq(Places)
        BY <1>1
      <4> QED
        BY <4>1, <4>2, ConcatAt
    <3> HIDE DEF out, from, k
    <3> QED
      BY <1>1, <3>1, <3>2, <3>3
  <2> QED
    BY <1>1, <2>1, <2>2
<1> HIDE DEF g, out, from, k
<1>5. g \in Frames
  BY <1>1, <1>2, <1>3 DEF Frames
<1>6. /\ SameCall(f, g) /\ g.seen = k /\ g.out = out /\ g.origins = from
      /\ g.at = f.at /\ g.here = f.here
  BY <1>1, <1>3 DEF Frames, SameCall
<1>7. Attributed(g)
  <2>1. \A n \in g.seen + 1 .. Len(g.out) : FALSE
    BY <1>2, <1>6
  <2>2. g.kind = "macro" => g.here = g.fixed /\ g.at = g.fixed
    BY <1>6 DEF Ready, Attributed, SameCall
  <2>3. /\ g.seen = Len(g.origins) /\ g.seen <= Len(g.out)
        /\ \A n \in 1 .. g.seen : g.origins[n] = g.out[n].at
        /\ \A n \in 1 .. Len(g.out) : g.out[n].said = g.out[n].begins
    BY <1>2, <1>4, <1>6
  <2> QED
    BY <2>1, <2>2, <2>3 DEF Attributed
<1>8. f.at \in Places /\ 0 \in Int
  BY <1>1 DEF Frames
<1>9. Ahead(f, f.at, 0) = f.at
  BY <1>1, <1>8, AheadFacts
<1> QED
  BY <1>2, <1>5, <1>6, <1>7, <1>9 DEF g, Moved, Ready

\* What a line declares is an element of the design.
LEMMA DeclaresFacts ==
  ASSUME NEW ln \in Lines PROVE DesignElements(ln) \subseteq Elements
BY DEF DesignElements, Elements

\* The lines of an expansion.
LEMMA PutExpansionFacts ==
  ASSUME NEW f, Ready(f), NEW said, said = f.at, NEW joined \in Nat, NEW text \in Seq(Lines)
  PROVE  Moved(f, PutExpansion(f, said, joined, text), 0)
<1> DEFINE n == Len(text)
           count == IF n = 0 THEN joined ELSE n
           At(i) == Ahead(f, f.at, IF count = joined THEN i - 1 ELSE 0)
           lines == [i \in 1 .. count |-> IF n = 0 THEN NoLine(At(i))
                                          ELSE Line(At(i), said, f.at, DesignElements(text[i]))]
           origins == [i \in 1 .. count |-> Ahead(f, f.here, OriginOffset(joined, count, i))]
           g == Fill(f, f.here)
<1>1. PutExpansion(f, said, joined, text) = Extend(g, lines, origins)
  BY DEF PutExpansion
<1>2. n \in Nat /\ count \in Nat /\ f \in Frames /\ f.at \in Places /\ f.here = f.at
  BY DEF Ready, Frames
<1>3. ASSUME NEW i \in 1 .. count PROVE At(i) \in Places /\ origins[i] = At(i)
  <2>1. i - 1 \in Int /\ 0 \in Int
    BY <1>2
  <2>2. At(i) \in Places
    BY <1>2, <2>1, AheadFacts
  <2>3. origins[i] = At(i)
    BY <1>2 DEF OriginOffset
  <2> QED
    BY <2>2, <2>3
<1>4. ASSUME NEW i \in 1 .. count
      PROVE  lines[i] \in OutLines /\ lines[i].at = At(i) /\ lines[i].said = lines[i].begins
  <2>1. At(i) \in Places /\ f.at \in Places /\ said = f.at
    BY <1>2, <1>3
  <2> HIDE DEF At
  <2>2. CASE n = 0
    BY <2>1, <2>2 DEF NoLine, OutLines
  <2>3. CASE n # 0
    <3>1. text[i] \in Lines
      BY <2>3
    <3>2. DesignElements(text[i]) \subseteq Elements
      BY <3>1, DeclaresFacts
    <3> QED
      BY <2>1, <2>3, <3>2 DEF Line, OutLines
  <2> QED
    BY <2>2, <2>3
<1>5. DOMAIN lines = 1 .. count /\ DOMAIN origins = 1 .. count
  OBVIOUS
<1>6. Moved(f, g, 0)
  BY FilledFacts
<1> HIDE DEF n, count, At, lines, origins, g
<1>7. lines \in Seq(OutLines) /\ Len(lines) = count /\ origins \in Seq(Places) /\ Len(origins) = count
  <2>1. lines = [i \in 1 .. count |-> lines[i]] /\ origins = [i \in 1 .. count |-> origins[i]]
    BY <1>5 DEF lines, origins
  <2>2. [i \in 1 .. count |-> lines[i]] \in Seq(OutLines) /\ [i \in 1 .. count |-> origins[i]] \in Seq(Places)
    BY <1>2, <1>3, <1>4
  <2>3. lines \in Seq(OutLines) /\ origins \in Seq(Places)
    BY <2>1, <2>2, Zenon
  <2> QED
    BY <1>2, <1>5, <2>3
<1>8. Moved(g, Extend(g, lines, origins), 0)
  BY <1>3, <1>4, <1>6, <1>7, ExtendFacts DEF Moved
<1> QED
  <2>1. 0 \in Int /\ 0 + 0 = 0
    OBVIOUS
  <2> QED
    BY <1>1, <1>6, <1>8, <2>1, MovedTwice

\* The joined lines of a use are passed over.
LEMMA AfterUseFacts ==
  ASSUME NEW f, Ready(f), f.seen = Len(f.out), NEW joined \in Nat
  PROVE  Moved(f, AfterUse(f, joined), joined - 1)
<1>1. joined - 1 \in Int
  OBVIOUS
<1> QED
  BY <1>1, ReadyAt DEF AfterUse

-----------------------------------------------------------------------------
(* Conditionals *)

\* The conditionals open after directive n, those open before it being o.
OpenStep(trail, n, o) ==
  CASE trail[n].k \in {"ifdef", "ifndef"} -> Append(o, n)
    [] trail[n].k = "endif" -> IF o = <<>> THEN o ELSE Front(o)
    [] trail[n].k \in {"elsif", "else"} -> o

\* A directive leaves a list of directives open.
LEMMA OpenStepFacts ==
  ASSUME NEW trail \in Seq(Directives), NEW n \in 1 .. Len(trail), NEW o \in Seq(Nat)
  PROVE  OpenStep(trail, n, o) \in Seq(Nat)
<1>1. trail[n].k \in Conditionals
  <2>1. trail[n] \in Directives
    OBVIOUS
  <2> QED
    BY <2>1 DEF Directives
<1>2. n \in Nat
  OBVIOUS
<1>3. CASE trail[n].k \in {"ifdef", "ifndef"}
  BY <1>2, <1>3 DEF OpenStep
<1>4. CASE trail[n].k = "endif"
  <2>1. o # <<>> => Front(o) \in Seq(Nat)
    BY DEF Front
  <2> QED
    BY <1>4, <2>1 DEF OpenStep
<1>5. CASE trail[n].k \in {"elsif", "else"}
  BY <1>5 DEF OpenStep
<1> QED
  BY <1>1, <1>3, <1>4, <1>5 DEF Conditionals

\* OpenAfter is what its recursion says.
LEMMA OpenAfterFacts ==
  ASSUME NEW trail \in Seq(Directives)
  PROVE  /\ OpenAfter(trail)[0] = <<>>
         /\ \A n \in 1 .. Len(trail) : OpenAfter(trail)[n] = OpenStep(trail, n, OpenAfter(trail)[n-1])
<1> DEFINE N == Len(trail)
           Eq(a) == a = [n \in 0 .. N |-> IF n = 0 THEN <<>> ELSE OpenStep(trail, n, a[n-1])]
           open == CHOOSE a : Eq(a)
           S == Seq(Nat)
           step == [p \in Nat \X S |-> IF p[1] \in 1 .. N THEN OpenStep(trail, p[1], p[2]) ELSE p[2]]
<1>1. OpenAfter(trail) = open
  BY DEF OpenAfter, OpenStep
<1>2. N \in Nat /\ <<>> \in S
  OBVIOUS
<1>3. step \in [Nat \X S -> S]
  <2> SUFFICES ASSUME NEW p \in Nat \X S
               PROVE  (IF p[1] \in 1 .. N THEN OpenStep(trail, p[1], p[2]) ELSE p[2]) \in S
    OBVIOUS
  <2>1. p[2] \in S
    OBVIOUS
  <2> QED
    BY <2>1, OpenStepFacts
<1> HIDE DEF N, S
<1>4. PICK it \in [0 .. N -> S] : Iterates(it, <<>>, step, N)
  <2> HIDE DEF step
  <2> QED
    BY <1>2, <1>3, Iteration
<1>5. it[0] = <<>> /\ \A k \in 1 .. N : it[k] = OpenStep(trail, k, it[k-1])
  <2>1. ASSUME NEW k \in 1 .. N PROVE it[k] = OpenStep(trail, k, it[k-1])
    <3>1. k - 1 \in 0 .. N /\ <<k, it[k - 1]>> \in Nat \X S
      BY <1>2
    <3>2. it[k] = step[<<k, it[k - 1]>>]
      BY <1>4 DEF Iterates
    <3> QED
      BY <3>1, <3>2
  <2> QED
    BY <1>4, <2>1 DEF Iterates
<1>6. Eq(it)
  <2>1. ASSUME NEW n \in 0 .. N PROVE it[n] = IF n = 0 THEN <<>> ELSE OpenStep(trail, n, it[n-1])
    <3>1. n # 0 => n \in 1 .. N
      BY <1>2
    <3> QED
      BY <1>5, <3>1
  <2>2. it = [n \in 0 .. N |-> it[n]]
    OBVIOUS
  <2> QED
    BY <2>1, <2>2
<1>7. Eq(open)
  <2> HIDE DEF Eq
  <2> QED
    BY <1>6
<1> HIDE DEF open
<1>8. \A n \in 0 .. N : open[n] = IF n = 0 THEN <<>> ELSE OpenStep(trail, n, open[n-1])
  BY <1>7, Zenon
<1>9. open[0] = <<>>
  <2>1. 0 \in 0 .. N
    BY <1>2
  <2> QED
    BY <1>8, <2>1
<1>10. ASSUME NEW n \in 1 .. N PROVE open[n] = OpenStep(trail, n, open[n-1])
  <2>1. n \in 0 .. N /\ n # 0
    BY <1>2
  <2> QED
    BY <1>8, <2>1
<1> QED
  BY <1>1, <1>9, <1>10 DEF N

\* A further directive changes nothing of the conditionals open before it.
LEMMA OpenBefore ==
  ASSUME NEW t \in Seq(Directives), NEW d \in Directives
  PROVE  /\ \A n \in 0 .. Len(t) : OpenAfter(Append(t, d))[n] = OpenAfter(t)[n]
         /\ OpenAfter(Append(t, d))[Len(t) + 1] = OpenStep(Append(t, d), Len(t) + 1, OpenAfter(t)[Len(t)])
<1> DEFINE u == Append(t, d)
           N == Len(t)
<1>1. /\ u \in Seq(Directives) /\ N \in Nat /\ Len(u) = N + 1 /\ u[N + 1] = d
      /\ \A n \in 1 .. N : u[n] = t[n]
  OBVIOUS
<1>2. OpenAfter(u)[0] = <<>> /\ OpenAfter(t)[0] = <<>>
  BY <1>1, OpenAfterFacts
<1>3. \A n \in 1 .. N + 1 : OpenAfter(u)[n] = OpenStep(u, n, OpenAfter(u)[n-1])
  <2> HIDE DEF u, N
  <2> QED
    BY <1>1, OpenAfterFacts
<1>4. \A n \in 1 .. N : OpenAfter(t)[n] = OpenStep(t, n, OpenAfter(t)[n-1])
  BY OpenAfterFacts
<1> HIDE DEF u, N
<1>5. ASSUME NEW n \in 1 .. N, OpenAfter(u)[n-1] = OpenAfter(t)[n-1] PROVE OpenAfter(u)[n] = OpenAfter(t)[n]
  <2>1. n \in 1 .. N + 1 /\ u[n] = t[n]
    BY <1>1
  <2>2. \A o : OpenStep(u, n, o) = OpenStep(t, n, o)
    BY <2>1 DEF OpenStep
  <2> QED
    BY <1>3, <1>4, <1>5, <2>1, <2>2
<1>6. \A n \in 0 .. N : OpenAfter(u)[n] = OpenAfter(t)[n]
  <2> DEFINE f == OpenAfter(u)
             g == OpenAfter(t)
  <2>1. f[0] = g[0]
    BY <1>2
  <2>2. \A k \in 1 .. N : f[k - 1] = g[k - 1] => f[k] = g[k]
    BY <1>5
  <2>3. N \in Nat
    BY <1>1
  <2> HIDE DEF f, g
  <2>4. \A k \in 0 .. N : f[k] = g[k]
    BY <2>1, <2>2, <2>3, SameIterates, ZenonT(40)
  <2> QED
    BY <2>4 DEF f, g
<1>7. OpenAfter(u)[N + 1] = OpenStep(u, N + 1, OpenAfter(t)[N])
  <2>1. N + 1 \in 1 .. N + 1 /\ N + 1 - 1 = N /\ N \in 0 .. N
    BY <1>1
  <2> QED
    BY <1>3, <1>6, <2>1
<1> QED
  BY <1>6, <1>7 DEF u, N

\* The branches a conditional gains with a further directive.
LEMMA BranchesFacts ==
  ASSUME NEW t \in Seq(Directives), NEW o \in 1 .. Len(t)
  PROVE  Branches(t, o) \subseteq 1 .. Len(t) /\ o \in Branches(t, o)
BY DEF Branches

\* The directive d after t is a branch of the conditional opened by o.
Branch(t, d, o) ==
  LET open == OpenAfter(t)[Len(t)] IN d.k \in {"elsif", "else"} /\ open # <<>> /\ Last(open) = o

\* A further directive is a branch of the innermost open conditional, or of none.
LEMMA BranchesBefore ==
  ASSUME NEW t \in Seq(Directives), NEW d \in Directives, NEW o \in 1 .. Len(t)
  PROVE  Branches(Append(t, d), o) =
           IF Branch(t, d, o) THEN Branches(t, o) \cup {Len(t) + 1} ELSE Branches(t, o)
<1> DEFINE u == Append(t, d)
           N == Len(t)
           open == OpenAfter(t)
           B(n) == u[n].k \in {"elsif", "else"} /\ OpenAfter(u)[n] # <<>> /\ Last(OpenAfter(u)[n]) = o
           C(n) == t[n].k \in {"elsif", "else"} /\ open[n] # <<>> /\ Last(open[n]) = o
           D == Branch(t, d, o)
<1>1. /\ N \in Nat /\ Len(u) = N + 1 /\ u[N + 1] = d
      /\ \A n \in 1 .. N : u[n] = t[n]
  OBVIOUS
<1>2. Branches(u, o) = {o} \cup {n \in o+1 .. N + 1 : B(n)}
  BY <1>1 DEF Branches
<1>3. Branches(t, o) = {o} \cup {n \in o+1 .. N : C(n)}
  BY DEF Branches
<1>4. ASSUME NEW n \in o+1 .. N PROVE B(n) <=> C(n)
  <2>1. n \in 1 .. N /\ n \in 0 .. N
    OBVIOUS
  <2>2. OpenAfter(u)[n] = open[n]
    BY <2>1, OpenBefore
  <2> QED
    BY <1>1, <2>1, <2>2
<1>5. B(N + 1) <=> D
  <2>1. OpenAfter(u)[N + 1] = OpenStep(u, N + 1, open[N])
    BY OpenBefore
  <2>2. d.k \in {"elsif", "else"} => OpenAfter(u)[N + 1] = open[N]
    BY <1>1, <2>1 DEF OpenStep
  <2>3. D <=> d.k \in {"elsif", "else"} /\ open[N] # <<>> /\ Last(open[N]) = o
    BY DEF Branch
  <2> QED
    BY <1>1, <2>2, <2>3
<1> HIDE DEF u, B, C, D, open
<1>6. {n \in o+1 .. N + 1 : B(n)} = {n \in o+1 .. N : C(n)} \cup (IF D THEN {N + 1} ELSE {})
  BY <1>1, <1>4, <1>5
<1> HIDE DEF N
<1>7. Branches(u, o) = IF D THEN Branches(t, o) \cup {N + 1} ELSE Branches(t, o)
  BY <1>2, <1>3, <1>6
<1> QED
  BY <1>7 DEF u, D, N

\* The last branch of a conditional.
LEMMA SelectedFacts ==
  ASSUME NEW t \in Seq(Directives), NEW o \in 1 .. Len(t),
         NEW n \in Branches(t, o), \A m \in Branches(t, o) : m <= n
  PROVE  Selected(t, o) <=> t[n].holds /\ \A m \in Branches(t, o) \ {n} : ~t[m].holds
<1> DEFINE B == Branches(t, o)
           last == CHOOSE k \in B : \A m \in B : m <= k
<1>1. B \subseteq 1 .. Len(t)
  BY BranchesFacts
<1>2. last \in B /\ \A m \in B : m <= last
  OBVIOUS
<1>3. last = n
  <2>1. last <= n /\ n <= last
    BY <1>2
  <2>2. last \in Int /\ n \in Int
    BY <1>1, <1>2
  <2> HIDE DEF last
  <2> QED
    BY <2>1, <2>2
<1>4. Selected(t, o) <=> t[last].holds /\ \A m \in B \ {last} : ~t[m].holds
  BY DEF Selected
<1> HIDE DEF B, last
<1> QED
  BY <1>3, <1>4 DEF B

\* Every conditional has a last branch.
LEMMA LastBranch ==
  ASSUME NEW t \in Seq(Directives), NEW o \in 1 .. Len(t)
  PROVE  \E n \in Branches(t, o) : \A m \in Branches(t, o) : m <= n
<1>1. Branches(t, o) \subseteq 0 .. Len(t) /\ Branches(t, o) # {} /\ Len(t) \in Nat
  BY BranchesFacts
<1> QED
  BY <1>1, GreatestElement

\* A directive that is no branch of a conditional leaves it as it is.
LEMMA FollowsStill ==
  ASSUME NEW t \in Seq(Directives), NEW d \in Directives, NEW o \in 1 .. Len(t),
         Branches(Append(t, d), o) = Branches(t, o), NEW l, Follows(t, o, l)
  PROVE  Follows(Append(t, d), o, l)
<1> DEFINE u == Append(t, d)
<1>1. u \in Seq(Directives) /\ o \in 1 .. Len(u) /\ \A n \in 1 .. Len(t) : u[n] = t[n]
  OBVIOUS
<1>2. \A n \in Branches(t, o) : u[n] = t[n]
  BY <1>1, BranchesFacts
<1>3. PICK n \in Branches(t, o) : \A m \in Branches(t, o) : m <= n
  BY LastBranch
<1>4. Selected(t, o) <=> t[n].holds /\ \A m \in Branches(t, o) \ {n} : ~t[m].holds
  BY <1>3, SelectedFacts
<1> HIDE DEF u
<1>5. Selected(u, o) <=> u[n].holds /\ \A m \in Branches(u, o) \ {n} : ~u[m].holds
  <2>1. n \in Branches(u, o) /\ \A m \in Branches(u, o) : m <= n
    BY <1>3 DEF u
  <2> QED
    BY <1>1, <2>1, SelectedFacts
<1>6. Branches(u, o) = Branches(t, o)
  BY DEF u
<1>7. Selected(u, o) <=> Selected(t, o)
  BY <1>2, <1>4, <1>5, <1>6
<1>8. (\E m \in Branches(u, o) : u[m].holds) <=> \E m \in Branches(t, o) : t[m].holds
  BY <1>2, <1>6
<1> QED
  BY <1>7, <1>8 DEF Follows, u

\* What Tracked says, with the open conditionals named.
Tracks(t, ifdefs, open) ==
  /\ open \in Seq(1 .. Len(t)) /\ Len(open) = Len(ifdefs)
  /\ \A i, j \in 1 .. Len(open) : i < j => open[i] < open[j]
  /\ \A j \in 1 .. Len(open) :
       /\ ifdefs[j].parent_active <=> \A i \in 1 .. j-1 : ifdefs[i].active
       /\ Follows(t, open[j], ifdefs[j])

\* Tracked, by its parts.
LEMMA TrackedDef ==
  ASSUME NEW t, NEW ifdefs
  PROVE  Tracked(t, ifdefs) <=> Tracks(t, ifdefs, OpenAfter(t)[Len(t)])
BY DEF Tracked, Tracks

\* Nothing is open at the start of a call.
LEMMA TrackedStart == Tracked(<<>>, <<>>)
<1>1. OpenAfter(<<>>)[Len(<<>>)] = <<>>
  <2>1. <<>> \in Seq(Directives) /\ Len(<<>>) = 0
    OBVIOUS
  <2> QED
    BY <2>1, OpenAfterFacts
<1>2. Tracks(<<>>, <<>>, <<>>)
  BY DEF Tracks
<1> QED
  BY <1>1, <1>2, TrackedDef

\* `ifdef and `ifndef open a conditional.
LEMMA TrackedPush ==
  ASSUME NEW t \in Seq(Directives), NEW ifdefs \in Seq(Levels), Tracked(t, ifdefs),
         NEW d \in Directives, d.k \in {"ifdef", "ifndef"}, NEW new \in Levels,
         new.parent_active <=> \A i \in 1 .. Len(ifdefs) : ifdefs[i].active,
         new.active <=> new.parent_active /\ d.holds, new.branch_taken <=> new.parent_active /\ d.holds
  PROVE  Tracked(Append(t, d), Append(ifdefs, new))
<1> DEFINE u == Append(t, d)
           N == Len(t)
           open == OpenAfter(t)[N]
           now == Append(open, N + 1)
           levels == Append(ifdefs, new)
           K == Len(ifdefs)
<1>1. /\ N \in Nat /\ Len(u) = N + 1 /\ u[N + 1] = d /\ u \in Seq(Directives)
      /\ \A n \in 1 .. N : u[n] = t[n]
  OBVIOUS
<1>2. OpenAfter(u)[Len(u)] = now
  <2>1. OpenAfter(u)[N + 1] = OpenStep(u, N + 1, open)
    BY OpenBefore
  <2> QED
    BY <1>1, <2>1 DEF OpenStep
<1>3. Tracks(t, ifdefs, open)
  BY TrackedDef
<1> HIDE DEF u, open
<1>4. open \in Seq(1 .. N) /\ Len(open) = K /\ K \in Nat
  BY <1>3 DEF Tracks
<1>5. /\ Len(now) = K + 1 /\ now[K + 1] = N + 1 /\ \A j \in 1 .. K : now[j] = open[j] /\ open[j] \in 1 .. N
      /\ now \in Seq(1 .. N + 1)
  BY <1>1, <1>4
<1>6. Len(levels) = K + 1 /\ levels[K + 1] = new /\ \A j \in 1 .. K : levels[j] = ifdefs[j]
  BY <1>4
<1> HIDE DEF now, levels
<1>7. \A i, j \in 1 .. Len(now) : i < j => now[i] < now[j]
  <2> SUFFICES ASSUME NEW i \in 1 .. K + 1, NEW j \in 1 .. K + 1, i < j PROVE now[i] < now[j]
    BY <1>5
  <2>1. i \in 1 .. K /\ now[i] \in 1 .. N
    <3>1. i \in 1 .. K
      BY <1>4
    <3> QED
      BY <1>5, <3>1
  <2>2. CASE j = K + 1
    BY <1>1, <1>5, <2>1, <2>2
  <2>3. CASE j # K + 1
    <3>1. j \in 1 .. K
      BY <1>4, <2>3
    <3>2. open[i] < open[j]
      BY <1>3, <1>4, <2>1, <3>1 DEF Tracks
    <3> QED
      BY <1>5, <2>1, <3>1, <3>2
  <2> QED
    BY <2>2, <2>3
<1>8. ASSUME NEW j \in 1 .. K + 1
      PROVE  /\ levels[j].parent_active <=> \A i \in 1 .. j-1 : levels[i].active
             /\ Follows(u, now[j], levels[j])
  <2>1. CASE j = K + 1
    <3>1. levels[j].parent_active <=> \A i \in 1 .. j-1 : levels[i].active
      BY <1>4, <1>6, <2>1
    <3>2. Branches(u, N + 1) = {N + 1}
      BY <1>1 DEF Branches
    <3>3. Selected(u, N + 1) <=> d.holds
      <4>1. N + 1 \in 1 .. Len(u) /\ N + 1 \in Branches(u, N + 1) /\ \A m \in Branches(u, N + 1) : m <= N + 1
        BY <1>1, <3>2
      <4>2. Selected(u, N + 1) <=>
              u[N + 1].holds /\ \A m \in Branches(u, N + 1) \ {N + 1} : ~u[m].holds
        BY <1>1, <4>1, SelectedFacts
      <4> QED
        BY <1>1, <3>2, <4>2
    <3>4. (\E m \in Branches(u, N + 1) : u[m].holds) <=> d.holds
      BY <1>1, <3>2
    <3>5. Follows(u, N + 1, new)
      BY <3>3, <3>4 DEF Follows
    <3> QED
      BY <1>5, <1>6, <2>1, <3>1, <3>5
  <2>2. CASE j # K + 1
    <3>1. j \in 1 .. K
      BY <1>4, <2>2
    <3>2. /\ ifdefs[j].parent_active <=> \A i \in 1 .. j-1 : ifdefs[i].active
          /\ Follows(t, open[j], ifdefs[j])
      BY <1>3, <1>4, <3>1 DEF Tracks
    <3>3. levels[j].parent_active <=> \A i \in 1 .. j-1 : levels[i].active
      BY <1>4, <1>6, <3>1, <3>2
    <3>4. open[j] \in 1 .. Len(t)
      BY <1>5, <3>1
    <3>5. Branches(u, open[j]) = Branches(t, open[j])
      <4>1. ~Branch(t, d, open[j])
        BY DEF Branch
      <4> QED
        BY <3>4, <4>1, BranchesBefore DEF u
    <3>6. Follows(u, open[j], ifdefs[j])
      BY <3>2, <3>4, <3>5, FollowsStill DEF u
    <3> QED
      BY <1>5, <1>6, <3>1, <3>3, <3>6
  <2> QED
    BY <2>1, <2>2
<1>9. Tracks(u, levels, now)
  BY <1>1, <1>5, <1>6, <1>7, <1>8 DEF Tracks
<1> QED
  BY <1>2, <1>9, TrackedDef DEF u, levels

\* `endif closes the last.
LEMMA TrackedPop ==
  ASSUME NEW t \in Seq(Directives), NEW ifdefs \in Seq(Levels), Tracked(t, ifdefs),
         NEW d \in Directives, d.k = "endif"
  PROVE  Tracked(Append(t, d), IF ifdefs = <<>> THEN <<>> ELSE Front(ifdefs))
<1> DEFINE u == Append(t, d)
           N == Len(t)
           open == OpenAfter(t)[N]
           now == IF open = <<>> THEN <<>> ELSE Front(open)
           levels == IF ifdefs = <<>> THEN <<>> ELSE Front(ifdefs)
           K == Len(ifdefs)
<1>1. /\ N \in Nat /\ Len(u) = N + 1 /\ u[N + 1] = d /\ u \in Seq(Directives)
      /\ \A n \in 1 .. N : u[n] = t[n]
  OBVIOUS
<1>2. OpenAfter(u)[Len(u)] = now
  <2>1. OpenAfter(u)[N + 1] = OpenStep(u, N + 1, open)
    BY OpenBefore
  <2> QED
    BY <1>1, <2>1 DEF OpenStep
<1>3. Tracks(t, ifdefs, open)
  BY TrackedDef
<1> HIDE DEF u, open
<1>4. open \in Seq(1 .. N) /\ Len(open) = K /\ K \in Nat
  BY <1>3 DEF Tracks
<1>5. CASE K = 0
  <2>1. ifdefs = <<>> /\ open = <<>>
    BY <1>4, <1>5
  <2>2. Tracks(u, <<>>, <<>>)
    BY DEF Tracks
  <2> QED
    BY <1>2, <2>1, <2>2, TrackedDef DEF u
<1>6. CASE K # 0
  <2>1. ifdefs # <<>> /\ open # <<>>
    BY <1>4, <1>6
  <2>2. levels = Front(ifdefs) /\ now = Front(open)
    BY <2>1
  <2>3. /\ now \in Seq(1 .. N) /\ Len(now) = K - 1
        /\ \A j \in 1 .. K - 1 : now[j] = open[j]
    BY <1>4, <2>1, <2>2, FrontAt
  <2>4. Len(levels) = K - 1 /\ \A j \in 1 .. K - 1 : levels[j] = ifdefs[j]
    BY <2>1, <2>2, FrontAt
  <2> HIDE DEF now, levels
  <2>5. ASSUME NEW j \in 1 .. K - 1
        PROVE  /\ levels[j].parent_active <=> \A i \in 1 .. j-1 : levels[i].active
               /\ Follows(u, now[j], levels[j])
    <3>1. j \in 1 .. K
      BY <1>4
    <3>2. /\ ifdefs[j].parent_active <=> \A i \in 1 .. j-1 : ifdefs[i].active
          /\ Follows(t, open[j], ifdefs[j])
      BY <1>3, <1>4, <3>1 DEF Tracks
    <3>3. \A i \in 1 .. j-1 : levels[i] = ifdefs[i]
      <4>1. \A i \in 1 .. j-1 : i \in 1 .. K - 1
        BY <1>4
      <4> QED
        BY <2>4, <4>1
    <3>4. open[j] \in 1 .. Len(t)
      BY <1>4, <3>1
    <3>5. Branches(u, open[j]) = Branches(t, open[j])
      <4>1. ~Branch(t, d, open[j])
        BY DEF Branch
      <4> QED
        BY <3>4, <4>1, BranchesBefore DEF u
    <3>6. Follows(u, open[j], ifdefs[j])
      BY <3>2, <3>4, <3>5, FollowsStill DEF u
    <3> QED
      BY <2>3, <2>4, <3>2, <3>3, <3>6
  <2>6. \A i, j \in 1 .. K - 1 : i < j => now[i] < now[j]
    <3> SUFFICES ASSUME NEW i \in 1 .. K - 1, NEW j \in 1 .. K - 1, i < j PROVE now[i] < now[j]
      OBVIOUS
    <3>1. i \in 1 .. Len(open) /\ j \in 1 .. Len(open)
      BY <1>4
    <3>2. open[i] < open[j]
      BY <1>3, <3>1 DEF Tracks
    <3> QED
      BY <2>3, <3>2
  <2>7. now \in Seq(1 .. N + 1)
    BY <1>1, <2>3
  <2>8. Tracks(u, levels, now)
    BY <1>1, <2>3, <2>4, <2>5, <2>6, <2>7 DEF Tracks
  <2> QED
    BY <1>2, <2>8, TrackedDef DEF u, levels
<1> QED
  BY <1>4, <1>5, <1>6

\* `elsif and `else go on with the last.
LEMMA TrackedBranch ==
  ASSUME NEW t \in Seq(Directives), NEW ifdefs \in Seq(Levels), Tracked(t, ifdefs), ifdefs # <<>>,
         NEW d \in Directives, d.k \in {"elsif", "else"},
         NEW last \in Levels, last = ifdefs[Len(ifdefs)], NEW next \in Levels,
         next.parent_active = last.parent_active, ~last.parent_active => ~next.active,
         last.parent_active => next.active = (d.holds /\ ~last.branch_taken),
         last.parent_active => next.branch_taken = (d.holds \/ last.branch_taken)
  PROVE  Tracked(Append(t, d), [ifdefs EXCEPT ![Len(ifdefs)] = next])
<1> DEFINE u == Append(t, d)
           N == Len(t)
           open == OpenAfter(t)[N]
           levels == [ifdefs EXCEPT ![Len(ifdefs)] = next]
           K == Len(ifdefs)
           o == open[K]
<1>1. /\ N \in Nat /\ Len(u) = N + 1 /\ u[N + 1] = d /\ u \in Seq(Directives)
      /\ \A n \in 1 .. N : u[n] = t[n]
  OBVIOUS
<1>2. OpenAfter(u)[Len(u)] = open
  <2>1. OpenAfter(u)[N + 1] = OpenStep(u, N + 1, open)
    BY OpenBefore
  <2> QED
    BY <1>1, <2>1 DEF OpenStep
<1>3. Tracks(t, ifdefs, open)
  BY TrackedDef
<1>b. \A i \in 1 .. N : Branch(t, d, i) <=> open # <<>> /\ open[Len(open)] = i
  BY DEF Branch, Last
<1> HIDE DEF u, open
<1>4. open \in Seq(1 .. N) /\ Len(open) = K /\ K \in Nat \ {0} /\ open # <<>> /\ K \in 1 .. K
  BY <1>3 DEF Tracks
<1>5. Len(levels) = K /\ levels[K] = next /\ \A j \in 1 .. K : j # K => levels[j] = ifdefs[j]
  BY <1>4
<1> HIDE DEF levels
<1>6. ASSUME NEW j \in 1 .. K
      PROVE  levels[j].parent_active <=> \A i \in 1 .. j-1 : levels[i].active
  <2>1. ifdefs[j].parent_active <=> \A i \in 1 .. j-1 : ifdefs[i].active
    BY <1>3, <1>4 DEF Tracks
  <2>2. \A i \in 1 .. j-1 : levels[i] = ifdefs[i]
    BY <1>4, <1>5
  <2>3. levels[j].parent_active = ifdefs[j].parent_active
    BY <1>4, <1>5
  <2> QED
    BY <2>1, <2>2, <2>3
<1>7. ASSUME NEW j \in 1 .. K, j # K PROVE Follows(u, open[j], levels[j])
  <2>1. open[j] \in 1 .. Len(t) /\ open[K] \in 1 .. N /\ j < K
    BY <1>4, <1>7
  <2>2. open[j] # open[K]
    <3>1. open[j] < open[K]
      BY <1>3, <1>4, <2>1 DEF Tracks
    <3> QED
      BY <2>1, <3>1
  <2>3. Branches(u, open[j]) = Branches(t, open[j])
    <3>1. ~Branch(t, d, open[j])
      BY <1>b, <1>4, <2>1, <2>2
    <3> QED
      BY <2>1, <3>1, BranchesBefore DEF u
  <2>4. Follows(t, open[j], ifdefs[j])
    BY <1>3, <1>4 DEF Tracks
  <2>5. Follows(u, open[j], ifdefs[j])
    BY <2>1, <2>3, <2>4, FollowsStill DEF u
  <2> QED
    BY <1>5, <1>7, <2>5
<1>8. Follows(u, o, next)
  <2>1. o \in 1 .. Len(t) /\ Follows(t, o, last)
    BY <1>3, <1>4 DEF Tracks
  <2> HIDE DEF o
  <2>2. Branches(u, o) = Branches(t, o) \cup {N + 1}
    <3>1. Branch(t, d, o)
      BY <1>b, <1>4, <2>1 DEF o
    <3> QED
      BY <2>1, <3>1, BranchesBefore DEF u
  <2>3. Branches(t, o) \subseteq 1 .. N
    BY <2>1, BranchesFacts
  <2>4. \A m \in Branches(t, o) : u[m] = t[m] /\ m # N + 1 /\ m <= N + 1
    BY <1>1, <2>3
  <2>5. Selected(u, o) <=> u[N + 1].holds /\ \A m \in Branches(u, o) \ {N + 1} : ~u[m].holds
    <3>1. /\ o \in 1 .. Len(u) /\ N + 1 \in Branches(u, o) /\ N + 1 <= N + 1
          /\ \A m \in Branches(u, o) : m <= N + 1
      BY <1>1, <2>1, <2>2, <2>4
    <3> QED
      BY <1>1, <3>1, SelectedFacts
  <2>6. Selected(u, o) <=> d.holds /\ \A m \in Branches(t, o) : ~t[m].holds
    BY <1>1, <2>2, <2>4, <2>5
  <2>7. (\E m \in Branches(u, o) : u[m].holds) <=> d.holds \/ \E m \in Branches(t, o) : t[m].holds
    BY <1>1, <2>2, <2>4
  <2>8. last.parent_active => (last.branch_taken <=> \E m \in Branches(t, o) : t[m].holds)
    BY <2>1 DEF Follows
  <2> QED
    BY <2>6, <2>7, <2>8 DEF Follows
<1>9. Tracks(u, levels, open)
  <2>1. open \in Seq(1 .. N + 1)
    BY <1>1, <1>4
  <2>2. \A i, j \in 1 .. Len(open) : i < j => open[i] < open[j]
    BY <1>3 DEF Tracks
  <2>3. \A j \in 1 .. K : Follows(u, open[j], levels[j])
    BY <1>5, <1>7, <1>8
  <2> QED
    BY <1>1, <1>4, <1>5, <1>6, <2>1, <2>2, <2>3 DEF Tracks
<1> QED
  BY <1>2, <1>9, TrackedDef DEF u, levels

\* A line is kept exactly when every open conditional is in its branch.
LEMMA TrackedSelects ==
  ASSUME NEW t \in Seq(Directives), NEW ifdefs \in Seq(Levels), Tracked(t, ifdefs)
  PROVE  LET open == OpenAfter(t)[Len(t)]
         IN (\A i \in DOMAIN ifdefs : ifdefs[i].active) <=> \A j \in DOMAIN open : Selected(t, open[j])
<1> DEFINE open == OpenAfter(t)[Len(t)]
           K == Len(ifdefs)
<1>1. Tracks(t, ifdefs, open)
  BY TrackedDef
<1> HIDE DEF open
<1>2. DOMAIN ifdefs = 1 .. K /\ DOMAIN open = 1 .. K /\ K \in Nat
  BY <1>1 DEF Tracks
<1>3. \A j \in 1 .. K : /\ ifdefs[j].parent_active <=> \A i \in 1 .. j-1 : ifdefs[i].active
                        /\ Follows(t, open[j], ifdefs[j])
  BY <1>1, <1>2 DEF Tracks
<1>4. ASSUME \A i \in 1 .. K : ifdefs[i].active, NEW j \in 1 .. K PROVE Selected(t, open[j])
  <2>1. ifdefs[j].parent_active
    BY <1>2, <1>3, <1>4
  <2> QED
    BY <1>3, <1>4, <2>1 DEF Follows
<1>5. ASSUME \A j \in 1 .. K : Selected(t, open[j]), NEW i \in 1 .. K PROVE ifdefs[i].active
  <2> SUFFICES ASSUME ~ifdefs[i].active PROVE FALSE
    OBVIOUS
  <2> DEFINE S == {j \in 1 .. K : ~ifdefs[j].active}
  <2>1. S \in SUBSET Nat /\ S # {}
    BY <1>2
  <2>2. PICK j \in S : \A m \in S : j <= m
    BY <2>1, LeastElement
  <2>3. j \in 1 .. K /\ ~ifdefs[j].active
    OBVIOUS
  <2>4. \A m \in 1 .. j-1 : ifdefs[m].active
    <3> SUFFICES ASSUME NEW m \in 1 .. j-1, ~ifdefs[m].active PROVE FALSE
      OBVIOUS
    <3>1. m \in S /\ ~(j <= m)
      BY <1>2, <2>3
    <3> QED
      BY <2>2, <3>1
  <2>5. ifdefs[j].parent_active
    BY <1>3, <2>3, <2>4
  <2> QED
    BY <1>3, <1>5, <2>3, <2>5 DEF Follows
<1> QED
  BY <1>2, <1>4, <1>5 DEF open

\* Without an open conditional they are read over.
LEMMA TrackedStray ==
  ASSUME NEW t \in Seq(Directives), Tracked(t, <<>>), NEW d \in Directives, d.k \in {"elsif", "else"}
  PROVE  Tracked(Append(t, d), <<>>)
<1> DEFINE u == Append(t, d)
           N == Len(t)
           open == OpenAfter(t)[N]
<1>1. N \in Nat /\ Len(u) = N + 1 /\ u[N + 1] = d
  OBVIOUS
<1>2. OpenAfter(u)[Len(u)] = open
  <2>1. OpenAfter(u)[N + 1] = OpenStep(u, N + 1, open)
    BY OpenBefore
  <2> QED
    BY <1>1, <2>1 DEF OpenStep
<1>3. Tracks(t, <<>>, open)
  BY TrackedDef
<1> HIDE DEF u, open
<1>4. open = <<>>
  BY <1>3 DEF Tracks
<1>5. Tracks(u, <<>>, open)
  BY <1>4 DEF Tracks
<1> QED
  BY <1>2, <1>5, TrackedDef DEF u

\* A conditional directive and the state of the conditionals after it.
LEMMA TrackedOn ==
  ASSUME NEW t \in Seq(Directives), NEW ifdefs \in Seq(Levels), Tracked(t, ifdefs),
         NEW k \in Conditionals, NEW cond \in BOOLEAN, k \in {"else", "endif"} => cond,
         NEW act \in BOOLEAN, act <=> \A i \in DOMAIN ifdefs : ifdefs[i].active,
         NEW new, new = [parent_active |-> act, branch_taken |-> act /\ cond, active |-> act /\ cond],
         NEW stack,
         k \in {"ifdef", "ifndef"} => stack = Append(ifdefs, new),
         k = "elsif" => stack = IF ifdefs = <<>> THEN ifdefs
                                ELSE [ifdefs EXCEPT ![Len(ifdefs)] = ElsifState(@, cond)],
         k = "else" => stack = IF ifdefs = <<>> THEN ifdefs ELSE [ifdefs EXCEPT ![Len(ifdefs)] = ElseState(@)],
         k = "endif" => stack = IF ifdefs = <<>> THEN <<>> ELSE Front(ifdefs)
  PROVE  stack \in Seq(Levels) /\ Tracked(Append(t, [k |-> k, holds |-> cond]), stack)
<1> DEFINE d == [k |-> k, holds |-> cond]
           K == Len(ifdefs)
           last == ifdefs[K]
<1>1. d \in Directives /\ d.k = k /\ d.holds = cond /\ K \in Nat /\ DOMAIN ifdefs = 1 .. K
  BY DEF Directives
<1> HIDE DEF d
<1>2. CASE k \in {"ifdef", "ifndef"}
  <2>1. /\ new \in Levels /\ new.parent_active = act /\ new.active = (act /\ cond)
        /\ new.branch_taken = (act /\ cond)
    BY DEF Levels
  <2>2. new.parent_active <=> \A i \in 1 .. Len(ifdefs) : ifdefs[i].active
    BY <1>1, <2>1
  <2>3. stack = Append(ifdefs, new) /\ Append(ifdefs, new) \in Seq(Levels)
    <3>1. stack = Append(ifdefs, new)
      BY <1>2
    <3>2. Append(ifdefs, new) \in Seq(Levels)
      BY <2>1
    <3> QED
      BY <3>1, <3>2
  <2>4. Tracked(Append(t, d), Append(ifdefs, new))
    BY <1>1, <1>2, <2>1, <2>2, TrackedPush
  <2> QED
    BY <2>3, <2>4 DEF d
<1>3. CASE k = "endif"
  <2>1. stack \in Seq(Levels)
    BY <1>3, FrontAt
  <2>2. Tracked(Append(t, d), stack)
    BY <1>1, <1>3, TrackedPop
  <2> QED
    BY <2>1, <2>2 DEF d
<1>4. CASE k \in {"elsif", "else"} /\ ifdefs = <<>>
  <2>1. stack = <<>>
    BY <1>4
  <2>2. Tracked(Append(t, d), <<>>)
    BY <1>1, <1>4, TrackedStray
  <2> QED
    BY <2>1, <2>2 DEF d
<1>5. CASE k \in {"elsif", "else"} /\ ifdefs # <<>>
  <2> DEFINE next == IF k = "elsif" THEN ElsifState(last, cond) ELSE ElseState(last)
  <2>1. last \in Levels
    BY <1>5
  <2> HIDE DEF last
  <2>2. stack = [ifdefs EXCEPT ![K] = next]
    BY <1>5 DEF last
  <2>3. next \in Levels
    BY <2>1 DEF Levels, ElsifState, ElseState
  <2>4. next.parent_active = last.parent_active
    BY <2>1 DEF Levels, ElsifState, ElseState
  <2>5. ~last.parent_active => ~next.active
    BY <2>1 DEF Levels, ElsifState, ElseState
  <2>6. last.parent_active => next.active = (d.holds /\ ~last.branch_taken)
    BY <1>1, <1>5, <2>1 DEF Levels, ElsifState, ElseState
  <2>7. last.parent_active => next.branch_taken = (d.holds \/ last.branch_taken)
    BY <1>1, <1>5, <2>1 DEF Levels, ElsifState, ElseState
  <2> HIDE DEF next
  <2>8. Tracked(Append(t, d), [ifdefs EXCEPT ![Len(ifdefs)] = next])
    <3>1. last = ifdefs[Len(ifdefs)]
      BY DEF last
    <3> QED
      BY <1>1, <1>5, <2>1, <2>3, <2>4, <2>5, <2>6, <2>7, <3>1, TrackedBranch
  <2>9. stack \in Seq(Levels)
    <3>1. [ifdefs EXCEPT ![K] = next] \in Seq(Levels)
      BY <2>3, LastReplaced
    <3> QED
      BY <2>2, <3>1
  <2> QED
    BY <2>2, <2>8, <2>9 DEF d
<1> QED
  BY <1>2, <1>3, <1>4, <1>5 DEF Conditionals

-----------------------------------------------------------------------------
(* The calls *)

\* The innermost frame goes on.
LEMMA ReplaceTop ==
  ASSUME NEW fs, NEW cur, StackOK(fs, cur), fs # <<>>, NEW g \in Frames, Attributed(g),
         Tracked(g.trail, g.ifdefs), NEW f, f = fs[Len(fs)],
         g.kind = f.kind, g.fixed = f.fixed, g.saved = f.saved, g.called = f.called
  PROVE  StackOK([fs EXCEPT ![Len(fs)] = g], g.at)
<1> DEFINE K == Len(fs)
           gs == [fs EXCEPT ![K] = g]
<1>1. fs \in Seq(Frames) /\ K \in Nat \ {0}
  BY DEF StackOK
<1>2. /\ gs \in Seq(Frames) /\ Len(gs) = K /\ gs[K] = g /\ gs # <<>>
      /\ \A i \in 1 .. K : i # K => gs[i] = fs[i]
  BY <1>1
<1> HIDE DEF gs
<1>3. \A i \in 1 .. K : Attributed(gs[i]) /\ Tracked(gs[i].trail, gs[i].ifdefs)
  BY <1>2 DEF StackOK
<1>4. ASSUME NEW i \in 1 .. K - 1 PROVE Waiting(gs[i], gs[i + 1])
  <2>1. i \in 1 .. K /\ i # K /\ i + 1 \in 1 .. K /\ gs[i] = fs[i] /\ Waiting(fs[i], fs[i + 1])
    BY <1>1, <1>2 DEF StackOK
  <2>2. CASE i + 1 = K
    BY <1>2, <2>1, <2>2 DEF Waiting
  <2>3. CASE i + 1 # K
    BY <1>2, <2>1, <2>3
  <2> QED
    BY <2>2, <2>3
<1>5. gs[1].kind = "file" /\ ~g.called
  BY <1>1, <1>2 DEF StackOK
<1> QED
  BY <1>2, <1>3, <1>4, <1>5 DEF StackOK, gs

\* It calls another.
LEMMA PushFrame ==
  ASSUME NEW fs, NEW cur, StackOK(fs, cur), fs # <<>>, NEW g \in Frames, Attributed(g),
         Tracked(g.trail, g.ifdefs), NEW f, f = fs[Len(fs)],
         g.kind = f.kind, g.fixed = f.fixed, g.saved = f.saved,
         NEW h \in Frames, Attributed(h), Tracked(h.trail, h.ifdefs), Waiting(g, h), ~h.called
  PROVE  StackOK(Append([fs EXCEPT ![Len(fs)] = g], h), h.at)
<1> DEFINE K == Len(fs)
           gs == [fs EXCEPT ![K] = g]
           hs == Append(gs, h)
<1>1. fs \in Seq(Frames) /\ K \in Nat \ {0}
  BY DEF StackOK
<1>2. /\ gs \in Seq(Frames) /\ Len(gs) = K /\ gs[K] = g
      /\ \A i \in 1 .. K : i # K => gs[i] = fs[i]
  BY <1>1
<1> HIDE DEF gs
<1>3. /\ hs \in Seq(Frames) /\ Len(hs) = K + 1 /\ hs[K + 1] = h /\ hs # <<>>
      /\ \A i \in 1 .. K : hs[i] = gs[i]
  BY <1>1, <1>2
<1> HIDE DEF hs
<1>4. \A i \in 1 .. K + 1 : Attributed(hs[i]) /\ Tracked(hs[i].trail, hs[i].ifdefs)
  <2> SUFFICES ASSUME NEW i \in 1 .. K + 1 PROVE Attributed(hs[i]) /\ Tracked(hs[i].trail, hs[i].ifdefs)
    OBVIOUS
  <2>1. i = K + 1 \/ i = K \/ (i \in 1 .. K /\ i # K)
    BY <1>1
  <2> QED
    BY <1>1, <1>2, <1>3, <2>1 DEF StackOK
<1>5. ASSUME NEW i \in 1 .. K PROVE Waiting(hs[i], hs[i + 1])
  <2>1. CASE i = K
    BY <1>1, <1>2, <1>3, <2>1
  <2>2. CASE i # K
    <3>0. i \in 1 .. K - 1 /\ i + 1 \in 1 .. K
      BY <1>1, <2>2
    <3>1. hs[i] = fs[i] /\ hs[i + 1] = gs[i + 1] /\ Waiting(fs[i], fs[i + 1])
      BY <1>2, <1>3, <2>2, <3>0 DEF StackOK
    <3>2. CASE i + 1 = K
      BY <1>2, <3>0, <3>1, <3>2 DEF Waiting
    <3>3. CASE i + 1 # K
      BY <1>2, <3>0, <3>1, <3>3
    <3> QED
      BY <3>2, <3>3
  <2> QED
    BY <2>1, <2>2
<1>6. hs[1].kind = "file"
  BY <1>1, <1>2, <1>3 DEF StackOK
<1>7. K + 1 - 1 = K
  BY <1>1
<1>8. ~hs[Len(hs)].called /\ hs[Len(hs)].at = h.at
  BY <1>3
<1>9. \A i \in 1 .. Len(hs) - 1 : Waiting(hs[i], hs[i + 1])
  BY <1>3, <1>5, <1>7
<1>10. StackOK(hs, h.at)
  BY <1>3, <1>4, <1>6, <1>8, <1>9 DEF StackOK
<1> QED
  BY <1>10 DEF gs, hs

\* It returns.
LEMMA PopFrame ==
  ASSUME NEW fs, NEW cur, StackOK(fs, cur), Len(fs) > 1, NEW g \in Frames, Attributed(g),
         Tracked(g.trail, g.ifdefs), NEW f, f = fs[Len(fs) - 1],
         g.kind = f.kind, g.fixed = f.fixed, g.saved = f.saved, ~g.called
  PROVE  StackOK([Front(fs) EXCEPT ![Len(fs) - 1] = g], g.at)
<1> DEFINE K == Len(fs) - 1
           es == Front(fs)
           gs == [es EXCEPT ![K] = g]
<1>1. fs \in Seq(Frames) /\ Len(fs) \in Nat /\ fs # <<>> /\ K \in Nat \ {0}
  BY DEF StackOK
<1>2. es \in Seq(Frames) /\ Len(es) = K /\ \A i \in 1 .. K : es[i] = fs[i]
  BY <1>1, FrontAt
<1> HIDE DEF es
<1>3. /\ gs \in Seq(Frames) /\ Len(gs) = K /\ gs[K] = g /\ gs # <<>>
      /\ \A i \in 1 .. K : i # K => gs[i] = fs[i]
  BY <1>1, <1>2
<1> HIDE DEF gs
<1>4. ASSUME NEW i \in 1 .. K PROVE Attributed(gs[i]) /\ Tracked(gs[i].trail, gs[i].ifdefs)
  <2>1. i \in 1 .. Len(fs)
    BY <1>1
  <2> QED
    BY <1>3, <2>1 DEF StackOK
<1>5. ASSUME NEW i \in 1 .. K - 1 PROVE Waiting(gs[i], gs[i + 1])
  <2>1. i \in 1 .. K /\ i # K /\ i + 1 \in 1 .. K /\ gs[i] = fs[i] /\ Waiting(fs[i], fs[i + 1])
    BY <1>1, <1>3 DEF StackOK
  <2>2. CASE i + 1 = K
    BY <1>3, <2>1, <2>2 DEF Waiting
  <2>3. CASE i + 1 # K
    BY <1>3, <2>1, <2>3
  <2> QED
    BY <2>2, <2>3
<1>6. gs[1].kind = "file"
  BY <1>1, <1>3 DEF StackOK
<1> QED
  BY <1>3, <1>4, <1>5, <1>6 DEF StackOK, gs, es, K

\* A frame that begins.
LEMMA NewFrameFacts ==
  ASSUME NEW kind \in {"file", "macro"}, NEW fixed \in Places, NEW saved \in Places, NEW text \in Seq(Lines),
         NEW at \in Places, kind = "macro" => at = fixed, NEW g, g = NewFrame(kind, fixed, saved, text, at)
  PROVE  /\ g \in Frames /\ Attributed(g) /\ Tracked(g.trail, g.ifdefs) /\ ~g.called /\ g.at = at
         /\ g.kind = kind /\ g.fixed = fixed /\ g.saved = saved
<1>1. g \in Frames
  BY DEF NewFrame, Frames
<1>2. /\ g.out = <<>> /\ g.origins = <<>> /\ g.seen = 0 /\ g.here = fixed /\ g.at = at /\ g.kind = kind
      /\ g.fixed = fixed /\ g.saved = saved /\ g.trail = <<>> /\ g.ifdefs = <<>> /\ g.called = FALSE
  BY DEF NewFrame
<1>3. Attributed(g)
  BY <1>2 DEF Attributed
<1> QED
  BY <1>1, <1>2, <1>3, TrackedStart

-----------------------------------------------------------------------------
(* Steps *)

\* A step keeps the invariant when the calls, the macros and the cursor stay in order.
Kept == StackOK(frames', current') /\ Bodies(defines') /\ current' \in Places /\ last_map' # "dropped"

\* The innermost call, about to read a line.
LEMMA TopFacts ==
  ASSUME IInv, frames # <<>>
  PROVE  /\ Top \in Frames /\ Attributed(Top) /\ Tracked(Top.trail, Top.ifdefs) /\ Top.at = current
         /\ StackOK(frames, current) /\ Len(frames) \in Nat \ {0} /\ ~Top.called
BY DEF IInv, StackOK, Top

\* The frame after the head of the loop, where the cursor is.
LEMMA LineFacts ==
  ASSUME IInv, NEW ln, NEW step \in {0, 1}, NEW more, Read(ln, step, more)
  PROVE  /\ frames # <<>> /\ Moved(Top, NextLine(Top, step), step)
         /\ NextLine(Top, step).at = Move(Top, step)
<1>1. frames # <<>>
  BY DEF Read
<1>2. Top \in Frames /\ Attributed(Top) /\ Top.at = current
  BY <1>1, TopFacts
<1>3. (Top.kind = "macro" => Top.text # <<>>) /\ step \in Int
  BY DEF Read
<1>4. Moved(Top, NextLine(Top, step), step)
  BY <1>2, <1>3, NextLineFacts
<1> QED
  BY <1>1, <1>2, <1>4 DEF Moved, Move

\* The innermost call goes on with g.
LEMMA GoesOn ==
  ASSUME IInv, frames # <<>>, NEW g, SetTop(g), g \in Frames, Attributed(g), SameCall(Top, g), g.at = current'
  PROVE  StackOK(frames', current') /\ current' \in Places
<1>1. /\ Tracked(Top.trail, Top.ifdefs) /\ StackOK(frames, current)
  BY TopFacts
<1>2. Tracked(g.trail, g.ifdefs)
  BY <1>1 DEF SameCall
<1>3. Top = frames[Len(frames)]
  BY DEF Top
<1>4. StackOK([frames EXCEPT ![Len(frames)] = g], g.at)
  BY <1>1, <1>2, <1>3, ReplaceTop DEF SameCall
<1>5. g.at \in Places
  BY DEF Frames
<1> QED
  BY <1>4, <1>5 DEF SetTop

\* It moves on by n lines.
LEMMA MovesOn ==
  ASSUME IInv, NEW ln, NEW step \in {0, 1}, NEW more, Read(ln, step, more), NEW g, NEW n \in Int,
         Moved(NextLine(Top, step), g, n), SetTop(g), current' = Ahead(Top, current, step + n)
  PROVE  StackOK(frames', current') /\ current' \in Places
<1>1. frames # <<>> /\ Moved(Top, NextLine(Top, step), step)
  BY LineFacts
<1>2. Top \in Frames /\ Top.at = current /\ Top.at \in Places
  BY <1>1, TopFacts DEF Frames
<1> DEFINE f == NextLine(Top, step)
<1>3. f \in Frames /\ f.kind = Top.kind /\ f.at = Ahead(Top, Top.at, step)
  BY <1>1 DEF Moved, Ready, SameCall
<1> HIDE DEF f
<1>4. g.at = Ahead(Top, Ahead(Top, Top.at, step), n) /\ g \in Frames /\ Attributed(g) /\ SameCall(Top, g)
  BY <1>1, <1>3 DEF Moved, Ready, SameCall, Ahead, f
<1>5. step \in Int
  OBVIOUS
<1>6. g.at = current'
  BY <1>2, <1>4, <1>5, AheadFacts
<1> QED
  BY <1>1, <1>4, <1>6, GoesOn

\* It writes a newline and moves on.
LEMMA BlankGoesOn ==
  ASSUME IInv, NEW ln, NEW step \in {0, 1}, NEW more, Read(ln, step, more),
         SetTop(Blank(NextLine(Top, step))), current' = Move(Top, step)
  PROVE  StackOK(frames', current') /\ current' \in Places
<1> DEFINE f == NextLine(Top, step)
<1>1. frames # <<>> /\ Moved(Top, f, step) /\ f.at = Move(Top, step)
  BY LineFacts
<1> HIDE DEF f
<1>2. Ready(Blank(f)) /\ SameCall(f, Blank(f)) /\ Blank(f).at = f.at
  BY <1>1, BlankFacts DEF Moved
<1>3. SameCall(Top, Blank(f))
  BY <1>1, <1>2 DEF Moved, SameCall
<1>4. SetTop(Blank(f))
  BY DEF f
<1> QED
  BY <1>1, <1>2, <1>3, <1>4, GoesOn DEF Ready

\* A step that changes neither the macros nor the map keeps both.
LEMMA Same ==
  ASSUME IInv, StackOK(frames', current'), current' \in Places, UNCHANGED <<defines, last_map>>
  PROVE  Kept
BY DEF IInv, Kept

\* The invariant is kept by `define.
LEMMA DefineKeeps ==
  ASSUME IInv, NEW ln \in Lines, NEW step \in {0, 1}, NEW more \in Nat, Define(ln, step, more)
  PROVE  Kept
<1> DEFINE f == NextLine(Top, step)
<1>1. Read(ln, step, more) /\ SetTop(Consume(f, more)) /\ current' = Ahead(Top, current, step + more)
  BY DEF Define
<1>2. Moved(Top, f, step)
  BY <1>1, LineFacts
<1> HIDE DEF f
<1>3. Moved(f, Consume(f, more), more)
  BY <1>2, ConsumeFacts DEF Moved
<1>4. StackOK(frames', current') /\ current' \in Places
  BY <1>1, <1>3, MovesOn DEF f
<1>5. Bodies(defines')
  <2>1. ln.m \in Macros /\ ln.body \in Seq(Lines)
    BY PreprocessorAssumption DEF Define
  <2>2. defines' = [defines EXCEPT ![ln.m] = ln.body] \/ defines' = defines
    BY DEF Define
  <2> QED
    BY <2>1, <2>2 DEF IInv, Bodies
<1> QED
  BY <1>4, <1>5 DEF Kept, IInv, Define

\* The invariant is kept by `undef and `undefineall.
LEMMA UndefineKeeps ==
  ASSUME IInv, NEW ln \in Lines, NEW step \in {0, 1}, Undefine(ln, step)
  PROVE  Kept
<1>1. StackOK(frames', current') /\ current' \in Places
  BY BlankGoesOn DEF Undefine
<1>2. Bodies(defines')
  BY DEF IInv, Bodies, Undefine
<1> QED
  BY <1>1, <1>2 DEF Kept, IInv, Undefine

\* The invariant is kept by a skipped line, `timescale, `resetall and a failing `include.
LEMMA BlanksKeep ==
  ASSUME IInv, NEW ln \in Lines, NEW step \in {0, 1},
         Skip(ln, step) \/ Scale(ln, step) \/ IncludeFails(ln, step)
  PROVE  Kept
<1>1. StackOK(frames', current') /\ current' \in Places
  BY BlankGoesOn DEF Skip, Scale, IncludeFails
<1> QED
  BY <1>1, Same DEF Skip, Scale, IncludeFails, scaling

\* The invariant is kept by a protected region.
LEMMA ProtectKeeps ==
  ASSUME IInv, NEW ln \in Lines, NEW step \in {0, 1}, NEW more \in Nat, Protect(ln, step, more)
  PROVE  Kept
<1> DEFINE f == NextLine(Top, step)
<1>1. Read(ln, step, more) /\ SetTop(Consume(f, more)) /\ current' = Ahead(Top, current, step + more)
  BY DEF Protect
<1>2. Moved(Top, f, step)
  BY <1>1, LineFacts
<1> HIDE DEF f
<1>3. Moved(f, Consume(f, more), more)
  BY <1>2, ConsumeFacts DEF Moved
<1>4. StackOK(frames', current') /\ current' \in Places
  BY <1>1, <1>3, MovesOn DEF f
<1> QED
  BY <1>4, Same DEF Protect

\* The invariant is kept by a line of text.
LEMMA TextKeeps ==
  ASSUME IInv, NEW ln \in Lines, NEW step \in {0, 1}, Text(ln, step)
  PROVE  Kept
<1> DEFINE f == NextLine(Top, step)
           l == Line(f.at, Move(Top, step), f.at, DesignElements(ln))
           g == [f EXCEPT !.out = Append(@, l)]
<1>1. /\ Read(ln, step, 0) /\ current' = Move(Top, step) /\ SetTop(Fill(g, f.here))
      /\ UNCHANGED <<defines, last_map>>
  BY DEF Text
<1>2. frames # <<>> /\ Moved(Top, f, step) /\ f.at = Move(Top, step)
  BY <1>1, LineFacts
<1> HIDE DEF f
<1>3. l \in OutLines /\ l.at = f.at /\ l.said = l.begins
  <2>1. f.at \in Places
    BY <1>2 DEF Moved, Ready, Frames
  <2>2. DesignElements(ln) \subseteq Elements
    BY DeclaresFacts
  <2> QED
    BY <1>2, <2>1, <2>2 DEF Line, OutLines
<1> HIDE DEF l
<1>4. Ready(g) /\ SameCall(f, g) /\ g.at = f.at
  BY <1>2, <1>3, AddLine DEF Moved
<1>5. f.here = g.here
  BY <1>2, <1>4 DEF Moved, Ready
<1> HIDE DEF g
<1>6. Moved(g, Fill(g, g.here), 0)
  BY <1>4, FilledFacts
<1> DEFINE h == Fill(g, g.here)
<1>7. h \in Frames /\ Attributed(h) /\ SameCall(Top, h) /\ h.at = current'
  <2>1. h.at = g.at
    <3>1. g \in Frames /\ g.at \in Places /\ 0 \in Int
      BY <1>4 DEF Ready, Frames
    <3>2. Ahead(g, g.at, 0) = g.at
      BY <3>1, AheadFacts
    <3> QED
      BY <1>6, <3>2 DEF Moved
  <2> QED
    BY <1>1, <1>2, <1>4, <1>6, <2>1 DEF Moved, Ready, SameCall
<1>8. SetTop(h)
  BY <1>1, <1>5
<1> HIDE DEF h
<1>9. StackOK(frames', current') /\ current' \in Places
  BY <1>2, <1>7, <1>8, GoesOn
<1> QED
  BY <1>1, <1>9, Same

\* The invariant is kept by a macro use whose expansion is text.
LEMMA UseKeeps ==
  ASSUME IInv, NEW ln \in Lines, NEW step \in {0, 1}, NEW more \in Nat, Use(ln, step, more)
  PROVE  Kept
<1> DEFINE f == NextLine(Top, step)
           joined == 1 + more
           g == PutExpansion(f, Move(Top, step), joined, Expand(ln))
           h == AfterUse(g, joined)
<1>1. /\ Read(ln, step, more) /\ current' = Ahead(Top, current, step + more) /\ SetTop(h)
      /\ UNCHANGED <<defines, last_map>>
  BY DEF Use
<1>2. Moved(Top, f, step) /\ f.at = Move(Top, step)
  BY <1>1, LineFacts
<1>3. joined \in Nat /\ joined - 1 = more /\ 0 + more = more /\ 0 \in Int /\ more \in Int
  OBVIOUS
<1> HIDE DEF f, joined
<1>4. Expand(ln) \in Seq(Lines)
  BY ExpandFacts
<1>5. Moved(f, g, 0)
  BY <1>2, <1>3, <1>4, PutExpansionFacts DEF Moved
<1> HIDE DEF g
<1>6. Moved(g, h, joined - 1)
  BY <1>3, <1>5, AfterUseFacts DEF Moved
<1> HIDE DEF h
<1>7. Moved(f, h, more)
  <2>1. Ready(f) /\ Moved(g, h, more)
    BY <1>2, <1>3, <1>6 DEF Moved
  <2>2. Moved(f, h, 0 + more)
    BY <1>3, <1>5, <2>1, MovedTwice
  <2> QED
    BY <1>3, <2>2
<1>8. StackOK(frames', current') /\ current' \in Places
  BY <1>1, <1>3, <1>7, MovesOn DEF f
<1> QED
  BY <1>1, <1>8, Same

\* The call for an expansion that holds directives.
LEMMA UseCallKeeps ==
  ASSUME IInv, NEW ln \in Lines, NEW step \in {0, 1}, NEW more \in Nat, UseCall(ln, step, more)
  PROVE  Kept
<1> DEFINE f == NextLine(Top, step)
           text == Expand(ln)
           g == [f EXCEPT !.called = TRUE, !.joined = 1 + more]
           h == NewFrame("macro", f.here, Move(Top, step), text, f.at)
<1>1. /\ Read(ln, step, more) /\ current' = Move(Top, step) /\ UNCHANGED <<defines, last_map>>
      /\ frames' = Append([frames EXCEPT ![Len(frames)] = g], h)
  BY DEF UseCall
<1>2. frames # <<>> /\ Moved(Top, f, step) /\ f.at = Move(Top, step)
  BY <1>1, LineFacts
<1>3. text \in Seq(Lines)
  BY ExpandFacts
<1>4. f \in Frames /\ Attributed(f) /\ f.here = f.at /\ SameCall(Top, f) /\ f.seen = Len(f.out) /\ f.at \in Places
  BY <1>2 DEF Moved, Ready, Frames
<1> HIDE DEF f, text
<1>5. /\ h \in Frames /\ Attributed(h) /\ Tracked(h.trail, h.ifdefs) /\ ~h.called /\ h.at = f.at
      /\ h.kind = "macro" /\ h.fixed = f.here /\ h.saved = f.at
  BY <1>2, <1>3, <1>4, NewFrameFacts
<1>6. g \in Frames
  <2>1. 1 + more \in Nat
    OBVIOUS
  <2> QED
    BY <1>4, <2>1 DEF Frames
<1>7. /\ g.kind = f.kind /\ g.fixed = f.fixed /\ g.saved = f.saved /\ g.out = f.out /\ g.origins = f.origins
      /\ g.seen = f.seen /\ g.here = f.here /\ g.at = f.at /\ g.trail = f.trail /\ g.ifdefs = f.ifdefs
      /\ g.called /\ g.joined = 1 + more
  BY <1>4 DEF Frames
<1> HIDE DEF g, h
<1>8. Attributed(g)
  BY <1>4, <1>7, ZenonT(60) DEF Attributed
<1>9. Waiting(g, h)
  BY <1>4, <1>5, <1>7 DEF Waiting
<1>10. Top = frames[Len(frames)] /\ StackOK(frames, current) /\ Tracked(g.trail, g.ifdefs)
  BY <1>2, <1>4, <1>7, TopFacts DEF Top, SameCall
<1>11. g.kind = Top.kind /\ g.fixed = Top.fixed /\ g.saved = Top.saved
  BY <1>4, <1>7 DEF SameCall
<1>12. StackOK(frames', h.at)
  BY <1>1, <1>2, <1>5, <1>6, <1>8, <1>9, <1>10, <1>11, PushFrame
<1>13. current' = h.at /\ current' \in Places
  BY <1>1, <1>2, <1>4, <1>5
<1> QED
  BY <1>1, <1>12, <1>13, Same

\* The invariant is kept by an `include that calls for the file.
LEMMA IncludeKeeps ==
  ASSUME IInv, NEW ln \in Lines, NEW step \in {0, 1}, Include(ln, step)
  PROVE  Kept
<1> DEFINE f == NextLine(Top, step)
           start == [file |-> ln.file, line |-> 0]
           g == [f EXCEPT !.called = TRUE]
           h == NewFrame("file", start, Move(Top, step), <<>>, start)
<1>1. /\ Read(ln, step, 0) /\ current' = start /\ UNCHANGED <<defines, last_map>> /\ start \in Places
      /\ frames' = Append([frames EXCEPT ![Len(frames)] = g], h)
  BY DEF Include, NewFile, Places
<1>2. frames # <<>> /\ Moved(Top, f, step) /\ f.at = Move(Top, step)
  BY <1>1, LineFacts
<1>4. f \in Frames /\ Attributed(f) /\ f.here = f.at /\ SameCall(Top, f) /\ f.seen = Len(f.out) /\ f.at \in Places
  BY <1>2 DEF Moved, Ready, Frames
<1> HIDE DEF f, start
<1>5. /\ h \in Frames /\ Attributed(h) /\ Tracked(h.trail, h.ifdefs) /\ ~h.called /\ h.at = start
      /\ h.kind = "file" /\ h.saved = f.at
  <2>1. <<>> \in Seq(Lines) /\ "file" \in {"file", "macro"} /\ "file" # "macro"
    OBVIOUS
  <2>2. Move(Top, step) \in Places
    BY <1>2, <1>4
  <2>3. start \in Places
    BY <1>1
  <2> DEFINE none == <<>>
  <2>4. h = NewFrame("file", start, Move(Top, step), none, start) /\ none \in Seq(Lines)
    OBVIOUS
  <2> HIDE DEF h, none
  <2> QED
    BY <1>2, <2>1, <2>2, <2>3, <2>4, NewFrameFacts
<1>6. g \in Frames
  BY <1>4 DEF Frames
<1>7. /\ g.kind = f.kind /\ g.fixed = f.fixed /\ g.saved = f.saved /\ g.out = f.out /\ g.origins = f.origins
      /\ g.seen = f.seen /\ g.here = f.here /\ g.at = f.at /\ g.trail = f.trail /\ g.ifdefs = f.ifdefs
      /\ g.called
  BY <1>4 DEF Frames
<1> HIDE DEF g, h
<1>8. Attributed(g)
  BY <1>4, <1>7, ZenonT(60) DEF Attributed
<1>9. Waiting(g, h)
  BY <1>4, <1>5, <1>7 DEF Waiting
<1>10. Top = frames[Len(frames)] /\ StackOK(frames, current) /\ Tracked(g.trail, g.ifdefs)
  BY <1>2, <1>4, <1>7, TopFacts DEF Top, SameCall
<1>11. g.kind = Top.kind /\ g.fixed = Top.fixed /\ g.saved = Top.saved
  BY <1>4, <1>7 DEF SameCall
<1>12. StackOK(frames', h.at)
  BY <1>1, <1>2, <1>5, <1>6, <1>8, <1>9, <1>10, <1>11, PushFrame
<1>13. current' = h.at /\ current' \in Places
  BY <1>1, <1>5
<1> QED
  BY <1>1, <1>12, <1>13, Same

\* The invariant is kept by a conditional directive.
LEMMA ConditionalKeeps ==
  ASSUME IInv, NEW ln \in Lines, NEW step \in {0, 1}, Conditional(ln, step)
  PROVE  Kept
<1> DEFINE f == NextLine(Top, step)
           cond == CASE ln.k \in {"ifdef", "elsif"} -> IsDefined(ln.m)
                     [] ln.k = "ifndef" -> ~IsDefined(ln.m)
                     [] ln.k \in {"else", "endif"} -> TRUE
           new == [parent_active |-> Active(f), branch_taken |-> Active(f) /\ cond,
                   active |-> Active(f) /\ cond]
           stack == CASE ln.k \in {"ifdef", "ifndef"} -> Append(f.ifdefs, new)
                      [] ln.k = "elsif" -> OnLast(f.ifdefs, LAMBDA last : ElsifState(last, cond))
                      [] ln.k = "else"  -> OnLast(f.ifdefs, ElseState)
                      [] ln.k = "endif" -> IF f.ifdefs = <<>> THEN <<>> ELSE Front(f.ifdefs)
           g == [Blank(f) EXCEPT !.ifdefs = stack, !.trail = Append(@, [k |-> ln.k, holds |-> cond])]
<1>1. /\ Read(ln, step, 0) /\ ln.k \in Conditionals /\ current' = Move(Top, step)
      /\ SetTop(g) /\ UNCHANGED <<defines, last_map>>
  BY DEF Conditional
<1>2. frames # <<>> /\ Moved(Top, f, step) /\ f.at = Move(Top, step)
  BY <1>1, LineFacts
<1>3. Top \in Frames /\ Tracked(Top.trail, Top.ifdefs) /\ StackOK(frames, current)
  BY <1>2, TopFacts
<1>4. cond \in BOOLEAN /\ (ln.k \in {"else", "endif"} => cond)
  BY <1>1 DEF Conditionals, IsDefined
<1>5. /\ ln.k \in {"ifdef", "ifndef"} => stack = Append(f.ifdefs, new)
      /\ ln.k = "elsif" => stack = IF f.ifdefs = <<>> THEN f.ifdefs
                                   ELSE [f.ifdefs EXCEPT ![Len(f.ifdefs)] = ElsifState(@, cond)]
      /\ ln.k = "else" => stack = IF f.ifdefs = <<>> THEN f.ifdefs
                                  ELSE [f.ifdefs EXCEPT ![Len(f.ifdefs)] = ElseState(@)]
      /\ ln.k = "endif" => stack = IF f.ifdefs = <<>> THEN <<>> ELSE Front(f.ifdefs)
  BY DEF OnLast
<1> HIDE DEF cond, stack, f
<1>6. f \in Frames /\ f.ifdefs \in Seq(Levels) /\ f.trail \in Seq(Directives) /\ Tracked(f.trail, f.ifdefs)
  BY <1>2, <1>3 DEF Moved, Ready, SameCall, Frames
<1> DEFINE act == Active(f)
<1>7. act \in BOOLEAN /\ (act <=> \A i \in DOMAIN f.ifdefs : f.ifdefs[i].active)
  BY DEF Active
<1>a. new = [parent_active |-> act, branch_taken |-> act /\ cond, active |-> act /\ cond]
  OBVIOUS
<1> HIDE DEF act, new
<1>8. stack \in Seq(Levels) /\ Tracked(Append(f.trail, [k |-> ln.k, holds |-> cond]), stack)
  BY <1>1, <1>4, <1>5, <1>6, <1>7, <1>a, TrackedOn
<1> DEFINE b == Blank(f)
           d == [k |-> ln.k, holds |-> cond]
<1>9. Ready(b) /\ SameCall(f, b) /\ b.at = f.at
  BY <1>2, BlankFacts DEF Moved
<1> HIDE DEF b
<1>10. b \in Frames /\ b.trail = f.trail /\ g = [b EXCEPT !.ifdefs = stack, !.trail = Append(f.trail, d)]
  BY <1>9 DEF Ready, SameCall, Frames, b
<1>11. d \in Directives /\ Append(f.trail, d) \in Seq(Directives)
  BY <1>1, <1>4, <1>6 DEF Directives
<1> HIDE DEF g, d
<1>12. g \in Frames
  BY <1>8, <1>10, <1>11 DEF Frames
<1>13. /\ g.kind = b.kind /\ g.fixed = b.fixed /\ g.saved = b.saved /\ g.out = b.out /\ g.origins = b.origins
       /\ g.seen = b.seen /\ g.here = b.here /\ g.at = b.at /\ g.called = b.called
       /\ g.trail = Append(f.trail, d) /\ g.ifdefs = stack
  BY <1>10 DEF Frames
<1>14. Attributed(g)
  BY <1>9, <1>13 DEF Ready, Attributed
<1>15. Tracked(g.trail, g.ifdefs)
  BY <1>8, <1>13 DEF d
<1>16. /\ g.kind = Top.kind /\ g.fixed = Top.fixed /\ g.saved = Top.saved /\ g.called = Top.called
       /\ Top = frames[Len(frames)]
  BY <1>2, <1>9, <1>13 DEF Moved, SameCall, Top
<1>17. StackOK([frames EXCEPT ![Len(frames)] = g], g.at)
  BY <1>2, <1>3, <1>12, <1>14, <1>15, <1>16, ReplaceTop
<1>18. g.at = current' /\ g.at \in Places
  BY <1>1, <1>2, <1>9, <1>12, <1>13 DEF Frames
<1> QED
  BY <1>1, <1>17, <1>18, Same DEF SetTop

\* The invariant is kept by `line.
LEMMA LineDirectiveKeeps ==
  ASSUME IInv, NEW ln \in Lines, NEW step \in {0, 1}, LineDirective(ln, step)
  PROVE  Kept
<1> DEFINE f == NextLine(Top, step)
           to == [file |-> ln.file, line |-> ln.n - 1]
           b == Blank(f)
           g == [b EXCEPT !.at = to, !.fresh = TRUE]
<1>1. /\ Read(ln, step, 0) /\ Top.kind = "file" /\ current' = to /\ SetTop(g)
      /\ UNCHANGED <<defines, last_map>>
  BY DEF LineDirective
<1>2. frames # <<>> /\ Moved(Top, f, step)
  BY <1>1, LineFacts
<1>3. to \in Places
  <2>1. ln.k = "line" /\ ln.n \in Nat
    BY PreprocessorAssumption DEF LineDirective
  <2>2. ln.n - 1 \in Int /\ ln.file \in {l.file : l \in {l \in Lines : l.k = "line"}}
    BY <2>1
  <2> QED
    BY <2>2 DEF Places
<1> HIDE DEF f, to
<1>4. Ready(b) /\ SameCall(f, b)
  BY <1>2, BlankFacts DEF Moved
<1> HIDE DEF b
<1>5. g \in Frames
  BY <1>3, <1>4 DEF Ready, Frames
<1>6. /\ g.kind = b.kind /\ g.out = b.out /\ g.origins = b.origins
      /\ g.seen = b.seen /\ g.here = b.here /\ g.at = to /\ SameCall(b, g)
  BY <1>4 DEF Ready, Frames, SameCall
<1> HIDE DEF g
<1>7. SameCall(Top, g)
  BY <1>2, <1>4, <1>6 DEF Moved, SameCall
<1>8. Attributed(g)
  BY <1>1, <1>4, <1>6, <1>7 DEF Ready, Attributed, SameCall
<1>9. StackOK(frames', current') /\ current' \in Places
  BY <1>1, <1>2, <1>5, <1>6, <1>7, <1>8, GoesOn
<1> QED
  BY <1>1, <1>9, Same

\* The innermost call, complete, and the one it returns to.
LEMMA CallFacts ==
  ASSUME IInv, Len(frames) > 1,
         NEW g, g = Final(Top), NEW p, p = [frames[Len(frames) - 1] EXCEPT !.called = FALSE]
  PROVE  /\ g \in Frames /\ Attributed(g) /\ g.seen = Len(g.out)
         /\ Ready(p) /\ p.seen = Len(p.out) /\ ~p.called /\ Tracked(p.trail, p.ifdefs) /\ Top.saved = p.at
         /\ Top.kind = "macro" => p.joined - 1 \in Nat
         /\ LET f == frames[Len(frames) - 1]
            IN p.kind = f.kind /\ p.fixed = f.fixed /\ p.saved = f.saved
<1> DEFINE K == Len(frames) - 1
           f == frames[K]
<1>1. /\ frames # <<>> /\ Len(frames) \in Nat /\ K \in 1 .. Len(frames) /\ K \in 1 .. Len(frames) - 1
      /\ K + 1 = Len(frames) /\ frames \in Seq(Frames)
  BY DEF IInv, StackOK
<1>2. Top \in Frames /\ Attributed(Top)
  BY <1>1, TopFacts
<1>3. g \in Frames /\ Attributed(g) /\ g.seen = Len(g.out)
  BY <1>2, FillFacts DEF Final
<1>4. f \in Frames /\ Attributed(f) /\ Tracked(f.trail, f.ifdefs) /\ Waiting(f, Top)
  <2>1. Waiting(frames[K], frames[K + 1])
    BY <1>1 DEF IInv, StackOK
  <2>2. f \in Frames /\ Attributed(f) /\ Tracked(f.trail, f.ifdefs)
    BY <1>1 DEF IInv, StackOK
  <2> QED
    BY <1>1, <2>1, <2>2 DEF Top
<1> HIDE DEF f
<1>5. p = [f EXCEPT !.called = FALSE]
  BY DEF f
<1>6. p \in Frames
  BY <1>4, <1>5 DEF Frames
<1>7. /\ p.kind = f.kind /\ p.fixed = f.fixed /\ p.saved = f.saved /\ p.out = f.out /\ p.origins = f.origins
      /\ p.seen = f.seen /\ p.here = f.here /\ p.at = f.at /\ p.trail = f.trail /\ p.ifdefs = f.ifdefs
      /\ ~p.called /\ p.joined = f.joined
  BY <1>4, <1>5 DEF Frames
<1>8. Attributed(p)
  BY <1>4, <1>7, ZenonT(60) DEF Attributed
<1>9. p.joined \in Nat /\ (Top.kind = "macro" => p.joined >= 1)
  BY <1>4, <1>6, <1>7 DEF Frames, Waiting
<1> QED
  BY <1>3, <1>4, <1>6, <1>7, <1>8, <1>9 DEF f, Ready, Waiting

\* The caller goes on with h.
LEMMA Returns ==
  ASSUME IInv, Len(frames) > 1, NEW p, p = [frames[Len(frames) - 1] EXCEPT !.called = FALSE],
         NEW h, NEW n \in Int, Moved(p, h, n), frames' = [Front(frames) EXCEPT ![Len(frames) - 1] = h],
         current' = Ahead(p, Top.saved, n)
  PROVE  StackOK(frames', current') /\ current' \in Places
<1> DEFINE f == frames[Len(frames) - 1]
           g == Final(Top)
<1>1. /\ ~p.called /\ Tracked(p.trail, p.ifdefs) /\ Top.saved = p.at
      /\ p.kind = f.kind /\ p.fixed = f.fixed /\ p.saved = f.saved
  BY CallFacts
<1> HIDE DEF f, g
<1>2. h \in Frames /\ Attributed(h) /\ h.at = current'
  BY <1>1 DEF Moved, Ready
<1>3. /\ Tracked(h.trail, h.ifdefs) /\ ~h.called
      /\ h.kind = f.kind /\ h.fixed = f.fixed /\ h.saved = f.saved
  BY <1>1 DEF Moved, SameCall
<1>4. StackOK(frames, current) /\ f = frames[Len(frames) - 1]
  BY DEF IInv, f
<1>5. StackOK([Front(frames) EXCEPT ![Len(frames) - 1] = h], h.at)
  BY <1>2, <1>3, <1>4, PopFrame
<1>6. h.at \in Places
  BY <1>2 DEF Frames
<1> QED
  BY <1>2, <1>5, <1>6

\* The invariant is kept by the return of a macro's expansion.
LEMMA ReturnMacroKeeps ==
  ASSUME IInv, ReturnMacro
  PROVE  Kept
<1> DEFINE g == Final(Top)
           p == [frames[Len(frames) - 1] EXCEPT !.called = FALSE]
           blank == \A i \in DOMAIN g.out : ~g.out[i].text
           r == Fill(p, p.here)
           lines == Append(g.out, NoLine(p.at))
           origins == g.origins \o TailOrigin(p)
           q == IF blank THEN PutExpansion(p, Top.saved, p.joined, <<>>) ELSE Extend(r, lines, origins)
           h == AfterUse(q, p.joined)
<1>1. /\ frames # <<>> /\ Top.kind = "macro" /\ UNCHANGED <<defines, last_map>>
      /\ frames' = [Front(frames) EXCEPT ![Len(frames) - 1] = h]
      /\ current' = Ahead(p, Top.saved, p.joined - 1)
  BY DEF ReturnMacro
<1>2. Len(frames) > 1
  <2>1. Len(frames) \in Nat \ {0} /\ frames[1].kind = "file"
    BY <1>1 DEF IInv, StackOK
  <2> DEFINE n == Len(frames)
  <2>2. n # 1
    BY <1>1, <2>1 DEF Top
  <2>3. n \in Nat /\ n # 0
    BY <2>1
  <2> HIDE DEF n
  <2>4. n > 1
    BY <2>2, <2>3
  <2> QED
    BY <2>4 DEF n
<1>3. /\ g \in Frames /\ Attributed(g) /\ g.seen = Len(g.out)
      /\ Ready(p) /\ p.seen = Len(p.out) /\ p.joined - 1 \in Nat /\ Top.saved = p.at
  BY <1>1, <1>2, CallFacts
<1>4. p = [frames[Len(frames) - 1] EXCEPT !.called = FALSE]
  OBVIOUS
<1> HIDE DEF g, p, blank
<1>5. p.joined \in Nat /\ p.at \in Places /\ p.here = p.at
  BY <1>3 DEF Ready, Frames
<1>6. Moved(p, q, 0)
  <2>1. CASE blank
    <3> DEFINE none == <<>>
    <3>1. none \in Seq(Lines)
      OBVIOUS
    <3> HIDE DEF none
    <3>2. Moved(p, PutExpansion(p, Top.saved, p.joined, none), 0)
      BY <1>3, <1>5, <3>1, PutExpansionFacts
    <3> QED
      BY <2>1, <3>2 DEF none
  <2>2. CASE ~blank
    <3>1. Moved(p, r, 0)
      BY <1>3, FilledFacts
    <3> HIDE DEF r
    <3>2. /\ g.out \in Seq(OutLines) /\ g.origins \in Seq(Places) /\ Len(g.origins) = Len(g.out)
          /\ Len(g.out) \in Nat
          /\ \A n \in 1 .. Len(g.out) : g.origins[n] = g.out[n].at /\ g.out[n].said = g.out[n].begins
      BY <1>3 DEF Frames, Attributed
    <3>3. NoLine(p.at) \in OutLines /\ NoLine(p.at).at = p.at /\ NoLine(p.at).said = NoLine(p.at).begins
      BY <1>5 DEF NoLine, OutLines
    <3> DEFINE N == Len(g.out)
    <3>4. /\ lines \in Seq(OutLines) /\ Len(lines) = N + 1 /\ lines[N + 1] = NoLine(p.at)
          /\ \A n \in 1 .. N : lines[n] = g.out[n]
      BY <3>2, <3>3
    <3>5. origins = Append(g.origins, p.at)
      BY <1>5, <3>2 DEF TailOrigin
    <3>6. /\ origins \in Seq(Places) /\ Len(origins) = N + 1 /\ origins[N + 1] = p.at
          /\ \A n \in 1 .. N : origins[n] = g.origins[n]
      BY <1>5, <3>2, <3>5
    <3> HIDE DEF lines, origins
    <3>7. ASSUME NEW n \in 1 .. Len(lines) PROVE origins[n] = lines[n].at /\ lines[n].said = lines[n].begins
      <4>1. n \in 1 .. N \/ n = N + 1
        BY <3>2, <3>4
      <4> QED
        BY <3>2, <3>3, <3>4, <3>6, <4>1
    <3>8. Moved(r, Extend(r, lines, origins), 0)
      BY <3>1, <3>4, <3>6, <3>7, ExtendFacts DEF Moved
    <3>9. 0 \in Int /\ 0 + 0 = 0
      OBVIOUS
    <3>10. Moved(p, Extend(r, lines, origins), 0)
      BY <1>3, <3>1, <3>8, <3>9, MovedTwice
    <3> QED
      BY <2>2, <3>10
  <2> QED
    BY <2>1, <2>2
<1> HIDE DEF q
<1>7. Moved(q, h, p.joined - 1)
  BY <1>5, <1>6, AfterUseFacts DEF Moved
<1> HIDE DEF h
<1> DEFINE n == p.joined - 1
<1>8. n \in Int /\ 0 \in Int /\ 0 + n = n /\ current' = Ahead(p, Top.saved, n) /\ Moved(q, h, n)
  BY <1>1, <1>5, <1>7
<1> HIDE DEF n
<1>9. Moved(p, h, n)
  <2>1. Moved(p, h, 0 + n)
    BY <1>3, <1>6, <1>8, MovedTwice
  <2> QED
    BY <1>8, <2>1
<1>10. StackOK(frames', current') /\ current' \in Places
  BY <1>1, <1>2, <1>4, <1>8, <1>9, Returns
<1> QED
  BY <1>1, <1>10, Same

\* The invariant is kept by the return of an included file.
LEMMA ReturnIncludeKeeps ==
  ASSUME IInv, ReturnInclude
  PROVE  Kept
<1> DEFINE g == Final(Top)
           p == [frames[Len(frames) - 1] EXCEPT !.called = FALSE]
           h == Extend(p, g.out, g.origins)
<1>1. /\ Len(frames) > 1 /\ UNCHANGED <<defines, last_map>>
      /\ frames' = [Front(frames) EXCEPT ![Len(frames) - 1] = h] /\ current' = Top.saved
  BY DEF ReturnInclude, Restored
<1>2. /\ g \in Frames /\ Attributed(g) /\ g.seen = Len(g.out)
      /\ Ready(p) /\ p.seen = Len(p.out) /\ Top.saved = p.at
  BY <1>1, CallFacts
<1>3. p = [frames[Len(frames) - 1] EXCEPT !.called = FALSE]
  OBVIOUS
<1> HIDE DEF g, p
<1>4. /\ g.out \in Seq(OutLines) /\ g.origins \in Seq(Places) /\ Len(g.origins) = Len(g.out)
      /\ \A n \in 1 .. Len(g.out) : g.origins[n] = g.out[n].at /\ g.out[n].said = g.out[n].begins
  BY <1>2 DEF Frames, Attributed
<1>5. Moved(p, h, 0)
  BY <1>2, <1>4, ExtendFacts
<1> HIDE DEF h
<1>6. current' = Ahead(p, Top.saved, 0) /\ 0 \in Int
  <2>1. p \in Frames /\ p.at \in Places /\ 0 \in Int
    BY <1>2 DEF Ready, Frames
  <2> QED
    BY <1>1, <1>2, <2>1, AheadFacts
<1>7. StackOK(frames', current') /\ current' \in Places
  BY <1>1, <1>3, <1>5, <1>6, Returns
<1> QED
  BY <1>1, <1>7, Same

\* The invariant is kept by the begin of a file.
LEMMA BeginFileKeeps ==
  ASSUME IInv, NEW file \in Files, BeginFile(file)
  PROVE  Kept
<1> DEFINE start == [file |-> file, line |-> 0]
           none == <<>>
           g == NewFrame("file", start, current, none, start)
<1>1. frames' = <<g>> /\ current' = start /\ UNCHANGED <<defines, last_map>>
  BY DEF BeginFile, NewFile
<1>2. start \in Places /\ current \in Places /\ none \in Seq(Lines) /\ "file" \in {"file", "macro"}
  BY DEF Places, IInv
<1>3. g = NewFrame("file", start, current, none, start)
  OBVIOUS
<1> HIDE DEF start, none, g
<1>4. /\ g \in Frames /\ Attributed(g) /\ Tracked(g.trail, g.ifdefs) /\ ~g.called /\ g.at = start
      /\ g.kind = "file"
  BY <1>2, <1>3, NewFrameFacts
<1>5. StackOK(<<g>>, start)
  BY <1>4 DEF StackOK
<1> QED
  BY <1>1, <1>2, <1>5, Same

\* The invariant is kept by the end of a file.
LEMMA FinishFileKeeps ==
  ASSUME IInv, FinishFile
  PROVE  Kept
<1> DEFINE g == Final(Top)
<1>1. frames # <<>>
  BY DEF FinishFile
<1>2. Top \in Frames /\ Attributed(Top)
  BY <1>1, TopFacts
<1>3. Attributed(g) /\ g.seen = Len(g.out)
  BY <1>2, FillFacts DEF Final
<1>4. last_map' = "kept"
  BY <1>3 DEF FinishFile, Attributed
<1>5. frames' = <<>> /\ current' = Top.saved /\ defines' = defines
  BY DEF FinishFile, Restored
<1>6. StackOK(<<>>, Top.saved)
  BY DEF StackOK
<1>7. Top.saved \in Places
  BY <1>2 DEF Frames
<1> QED
  BY <1>4, <1>5, <1>6, <1>7 DEF Kept, IInv

-----------------------------------------------------------------------------
(* Theorems *)

\* IInv holds in every reachable state: of every call, the lines written have
\* the origin of their text or will get it at the next step, a caller waits at
\* the line of its call, and the stack of conditionals is the list of those
\* that the directives read so far leave open.
THEOREM Invariance == Spec => []IInv
<1>1. Init => IInv
  <2> SUFFICES ASSUME Init PROVE IInv
    OBVIOUS
  <2>1. current \in Places
    BY DEF Init, Places
  <2>2. Bodies(defines)
    BY DEF Init, Bodies
  <2>3. StackOK(frames, current)
    BY DEF Init, StackOK
  <2> QED
    BY <2>1, <2>2, <2>3 DEF Init, IInv
<1>2. IInv /\ [Next]_vars => IInv'
  <2> SUFFICES ASSUME IInv, [Next]_vars PROVE IInv'
    OBVIOUS
  <2>1. CASE UNCHANGED vars
    BY <2>1 DEF vars, IInv, Bodies, StackOK
  <2>2. CASE Next
    <3>1. Kept
      <4>1. ASSUME NEW ln \in Candidates, NEW step \in {0, 1},
                   \/ Conditional(ln, step) \/ Undefine(ln, step) \/ Skip(ln, step) \/ Text(ln, step)
                   \/ Scale(ln, step) \/ LineDirective(ln, step) \/ Include(ln, step) \/ IncludeFails(ln, step)
                   \/ \E more \in 0 .. input.joined : \/ Define(ln, step, more) \/ Protect(ln, step, more)
                                                 \/ Use(ln, step, more) \/ UseCall(ln, step, more)
            PROVE  Kept
        <5>1. ln \in Lines
          <6>1. CASE frames = <<>>
            BY <6>1 DEF Candidates
          <6>2. CASE frames # <<>> /\ Top.kind = "macro"
            <7>1. Top.text \in Seq(Lines)
              BY <6>2, TopFacts DEF Frames
            <7> QED
              BY <6>2, <7>1 DEF Candidates, ToSet
          <6>3. CASE frames # <<>> /\ Top.kind # "macro"
            BY <6>3, PreprocessorAssumption DEF Candidates, IInv
          <6> QED
            BY <6>1, <6>2, <6>3
        <5>2. \A more \in 0 .. input.joined : more \in Nat
          BY PreprocessorAssumption DEF IInv
        <5> QED
          BY <4>1, <5>1, <5>2, ConditionalKeeps, UndefineKeeps, BlanksKeep, TextKeeps, LineDirectiveKeeps,
             IncludeKeeps, DefineKeeps, ProtectKeeps, UseKeeps, UseCallKeeps
      <4>2. CASE ReturnMacro
        BY <4>2, ReturnMacroKeeps
      <4>3. CASE ReturnInclude
        BY <4>3, ReturnIncludeKeeps
      <4>4. CASE FinishFile
        BY <4>4, FinishFileKeeps
      <4>5. CASE \E file \in Files : BeginFile(file)
        BY <4>5, BeginFileKeeps
      <4> QED
        BY <2>2, <4>1, <4>2, <4>3, <4>4, <4>5 DEF Next, Step
    <3> QED
      BY <2>2, <3>1 DEF Next, Kept, IInv
  <2> QED
    BY <2>1, <2>2
<1> QED
  BY <1>1, <1>2, PTL DEF Spec

\* Every line of the output, and the place `__LINE__ and `__FILE__ name in it,
\* is the place its text was read from, and the line map is never dropped,
\* whatever files, macros, lines and nesting there are.
THEOREM OriginsCorrect == Spec => []OriginsTrue
<1>1. IInv => OriginsTrue
  <2> SUFFICES ASSUME IInv, NEW i \in DOMAIN frames
               PROVE  LET f == frames[i]
                      IN /\ \A n \in DOMAIN f.origins : n \in DOMAIN f.out => f.origins[n] = f.out[n].at
                         /\ \A n \in DOMAIN f.out : n > f.seen => f.here = f.out[n].at
                         /\ \A n \in DOMAIN f.out : f.out[n].said = f.out[n].begins
    BY DEF OriginsTrue, IInv
  <2> DEFINE f == frames[i]
  <2>1. f \in Frames /\ Attributed(f)
    BY DEF IInv, StackOK
  <2> HIDE DEF f
  <2>2. f.out \in Seq(OutLines) /\ f.origins \in Seq(Places) /\ f.seen \in Nat
    BY <2>1 DEF Frames
  <2>3. DOMAIN f.out = 1 .. Len(f.out) /\ DOMAIN f.origins = 1 .. Len(f.origins) /\ Len(f.out) \in Nat
    BY <2>2
  <2>4. \A n \in DOMAIN f.out : n > f.seen => n \in f.seen + 1 .. Len(f.out)
    BY <2>2, <2>3
  <2> QED
    BY <2>1, <2>3, <2>4 DEF f, Attributed
<1> QED
  BY <1>1, Invariance, PTL

\* The text of a call is kept exactly inside the branches IEEE 1800 selects, of
\* every conditional open around it, however they nest and whatever was defined
\* since the branch was chosen.
THEOREM BranchesSelected == Spec => []BranchSelection
<1>1. IInv => BranchSelection
  <2> SUFFICES ASSUME IInv, NEW i \in DOMAIN frames
               PROVE  LET f == frames[i]
                          open == OpenAfter(f.trail)[Len(f.trail)]
                      IN Active(f) <=> \A j \in DOMAIN open : Selected(f.trail, open[j])
    BY DEF BranchSelection, Selected
  <2> DEFINE f == frames[i]
  <2>1. f \in Frames /\ Tracked(f.trail, f.ifdefs)
    BY DEF IInv, StackOK
  <2>2. f.trail \in Seq(Directives) /\ f.ifdefs \in Seq(Levels)
    BY <2>1 DEF Frames
  <2> HIDE DEF f
  <2>3. LET open == OpenAfter(f.trail)[Len(f.trail)]
        IN (\A k \in DOMAIN f.ifdefs : f.ifdefs[k].active) <=> \A j \in DOMAIN open : Selected(f.trail, open[j])
    BY <2>1, <2>2, TrackedSelects
  <2> QED
    BY <2>3 DEF f, Active
<1> QED
  BY <1>1, Invariance, PTL
=============================================================================
