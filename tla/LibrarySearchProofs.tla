------------------------- MODULE LibrarySearchProofs ------------------------
(***************************************************************************)
(* Proofs about the library search, for every library, design, order of    *)
(* the directories and order of the worklist: what is adopted is what the  *)
(* design needs, and the published sources are those of what was adopted.  *)
(*                                                                         *)
(* A name is defined, reported or on the worklist (NamesTracked); a name   *)
(* is reported only when no file is left to index (NothingSkipped with     *)
(* SearchFacts), so the index is what every file would give. A definition  *)
(* keeps the origin it was adopted from because a file that is indexed     *)
(* later never takes a name from an earlier one (OriginFacts).  The number *)
(* of a definition is that of this file, among the indexed files           *)
(* (SourcesFacts) and among the published ones (PublishFacts), whatever    *)
(* files were passed over in between.                                      *)
(***************************************************************************)
EXTENDS LibrarySearch, OrderLemmas

-----------------------------------------------------------------------------
(* The inductive invariant *)

\* The types; those of the definitions are part of Registry.
TypesOK ==
  /\ text \in Texts /\ design \in Designs /\ phase \in {"index", "search", "done"}
  /\ scanned \in Seq(Files) /\ pending \in Seq(ToSet(DirFiles))
  /\ work \in Seq(Names) /\ unresolved \subseteq Names /\ adopted \subseteq Names
  /\ DOMAIN definitions \subseteq Names

\* The design keeps its definitions, and an adopted one is that of the file
\* which defined it first.
Registry ==
  /\ DOMAIN definitions = DOMAIN design.defs \cup adopted /\ adopted \cap DOMAIN design.defs = {}
  /\ \A n \in DOMAIN design.defs : /\ definitions[n].insts = design.defs[n]
                                   /\ phase # "done" => definitions[n].from = "design"
  /\ \A n \in adopted :
       /\ Indexed(scanned, n) /\ definitions[n].from = OriginOf(scanned, n)
       /\ definitions[n].insts = text[OriginOf(scanned, n)].defs[n]

\* Every file that can be read was indexed, or will be if a name needs it.
NothingSkipped ==
  /\ phase = "index" => /\ scanned = <<>> /\ ToSet(pending) = ToSet(DirFiles) /\ ~full_scan_done
                        /\ work = <<>> /\ adopted = {} /\ unresolved = {}
  /\ phase # "index" => Readable \subseteq ToSet(scanned) \cup ToSet(pending)
  /\ full_scan_done => pending = <<>>

\* A name is defined, was reported or is still to be looked for.
NamesTracked ==
  /\ \A n \in unresolved : \A f \in Readable : n \notin DOMAIN text[f].defs
  /\ phase # "index" => Instantiated(definitions) \subseteq DOMAIN definitions \cup unresolved \cup ToSet(work)
  /\ phase = "done" => work = <<>>

\* Only what is needed is adopted or looked for.
WorkNeeded ==
  \A S \in SUBSET (Names \ DOMAIN design.defs) :
    S \cap NeededBeside(S) = {} => S \cap (adopted \cup ToSet(work)) = {}

\* The inductive invariant: with the two properties, which are claims about the
\* finished search only.
IInv == TypesOK /\ Registry /\ NothingSkipped /\ NamesTracked /\ WorkNeeded /\ SearchComplete /\ SourcesTrue

-----------------------------------------------------------------------------
(* Sequences of files *)

\* A sequence and the set of what it holds.
LEMMA SeqFacts ==
  ASSUME NEW S, NEW s \in Seq(S)
  PROVE  /\ Len(s) \in Nat /\ DOMAIN s = 1 .. Len(s) /\ ToSet(s) \subseteq S /\ IsFiniteSet(ToSet(s))
         /\ s \in Seq(ToSet(s)) /\ (ToSet(s) = {} <=> s = <<>>)
<1>1. Len(s) \in Nat /\ DOMAIN s = 1 .. Len(s) /\ s \in [1 .. Len(s) -> S]
  OBVIOUS
<1>a. s \in [1 .. Len(s) -> ToSet(s)]
  BY <1>1 DEF ToSet
<1>2. s \in Surjection(1 .. Len(s), ToSet(s)) /\ ToSet(s) \subseteq S
  BY <1>1 DEF Surjection, ToSet
<1>3. IsFiniteSet(ToSet(s))
  BY <1>1, <1>2, FS_Interval, FS_Surjection
<1>4. s \in Seq(ToSet(s))
  BY <1>1, <1>a
<1>5. ToSet(s) = {} <=> s = <<>>
  <2>1. Len(s) = 0 => s = <<>>
    OBVIOUS
  <2>2. Len(s) # 0 => s[1] \in ToSet(s)
    BY <1>1 DEF ToSet
  <2>3. s = <<>> => ToSet(s) = {}
    BY DEF ToSet
  <2> QED
    BY <2>1, <2>2, <2>3
<1> QED
  BY <1>1, <1>2, <1>3, <1>4, <1>5

\* Concatenation adds what it holds and keeps every position of its left part.
LEMMA ConcatFacts ==
  ASSUME NEW S, NEW s \in Seq(S), NEW t \in Seq(S)
  PROVE  /\ s \o t \in Seq(S) /\ ToSet(s \o t) = ToSet(s) \cup ToSet(t)
         /\ DOMAIN s \subseteq DOMAIN (s \o t) /\ \A i \in DOMAIN s : (s \o t)[i] = s[i]
<1>1. /\ s \o t \in Seq(S) /\ Len(s \o t) = Len(s) + Len(t) /\ Len(s) \in Nat /\ Len(t) \in Nat
      /\ DOMAIN s = 1 .. Len(s) /\ DOMAIN t = 1 .. Len(t) /\ DOMAIN (s \o t) = 1 .. Len(s) + Len(t)
  OBVIOUS
<1>2. /\ \A i \in 1 .. Len(s) : (s \o t)[i] = s[i]
      /\ \A i \in 1 .. Len(t) : (s \o t)[Len(s) + i] = t[i]
      /\ \A i \in Len(s) + 1 .. Len(s) + Len(t) : (s \o t)[i] = t[i - Len(s)]
  OBVIOUS
<1> DEFINE u == s \o t
<1> HIDE DEF u
<1>3. /\ DOMAIN u = 1 .. Len(s) + Len(t)
      /\ \A i \in 1 .. Len(s) : u[i] = s[i]
      /\ \A i \in 1 .. Len(t) : u[Len(s) + i] = t[i]
      /\ \A i \in Len(s) + 1 .. Len(s) + Len(t) : u[i] = t[i - Len(s)]
  BY <1>1, <1>2 DEF u
<1>4. ToSet(u) \subseteq ToSet(s) \cup ToSet(t)
  <2> SUFFICES ASSUME NEW i \in DOMAIN u PROVE u[i] \in ToSet(s) \cup ToSet(t)
    BY DEF ToSet
  <2>1. CASE i \in 1 .. Len(s)
    BY <1>1, <1>3, <2>1 DEF ToSet
  <2>2. CASE i \in Len(s) + 1 .. Len(s) + Len(t)
    <3>1. i - Len(s) \in 1 .. Len(t)
      BY <1>1, <2>2
    <3> QED
      BY <1>1, <1>3, <2>2, <3>1 DEF ToSet
  <2> QED
    BY <1>1, <1>3, <2>1, <2>2
<1>5. ToSet(s) \subseteq ToSet(u)
  BY <1>1, <1>3 DEF ToSet
<1>6. ToSet(t) \subseteq ToSet(u)
  <2> SUFFICES ASSUME NEW i \in 1 .. Len(t) PROVE t[i] \in ToSet(u)
    BY <1>1 DEF ToSet
  <2>1. Len(s) + i \in 1 .. Len(s) + Len(t)
    BY <1>1
  <2> QED
    BY <1>3, <2>1 DEF ToSet
<1> QED
  BY <1>1, <1>2, <1>4, <1>5, <1>6 DEF u

\* What is left of a sequence: what it has of the set.
LEMMA FilterFacts ==
  ASSUME NEW T, NEW s \in Seq(T), NEW S
  PROVE  Filter(s, S) \in Seq(ToSet(s) \cap S) /\ ToSet(Filter(s, S)) = ToSet(s) \cap S
<1> DEFINE in == {i \in DOMAIN s : s[i] \in S}
           R == {p \in in \X in : p[1] < p[2]}
           rank(n) == Cardinality({m \in in : <<m, n>> \in R})
           at(k) == CHOOSE i \in in : Cardinality({j \in in : j < i}) = k - 1
           N == Cardinality(in)
<1>1. Len(s) \in Nat /\ DOMAIN s = 1 .. Len(s)
  BY SeqFacts
<1>2. IsFiniteSet(in) /\ in \subseteq Nat
  <2>1. in \in SUBSET (1 .. Len(s)) /\ IsFiniteSet(1 .. Len(s))
    BY <1>1, FS_Interval
  <2> HIDE DEF in
  <2>2. in \subseteq Nat
    BY <1>1, <2>1
  <2>3. IsFiniteSet(in)
    BY <2>1, FS_Subset
  <2> QED
    BY <2>2, <2>3
<1>3. \A m, n \in in : <<m, n>> \in R <=> m < n
  OBVIOUS
<1>a. \A i : i \in in => i \in DOMAIN s /\ s[i] \in S
  OBVIOUS
<1>b. \A i \in DOMAIN s : s[i] \in S => i \in in
  OBVIOUS
<1> HIDE DEF R, in
<1>4. /\ \A n \in in : rank(n) \in 0 .. N - 1
      /\ \A k \in 0 .. N - 1 : \E n \in in : rank(n) = k
      /\ \A m, n \in in : rank(m) < rank(n) <=> <<m, n>> \in R
  <2>1. /\ \A m \in in : <<m, m>> \notin R
        /\ \A m, n \in in : m # n => <<m, n>> \in R \/ <<n, m>> \in R
        /\ \A l, m, n \in in : <<l, m>> \in R /\ <<m, n>> \in R => <<l, n>> \in R
    BY <1>2, <1>3
  <2> QED
    BY <1>2, <2>1, Ranking
<1>5. \A n \in in : rank(n) = Cardinality({j \in in : j < n})
  <2> SUFFICES ASSUME NEW n \in in PROVE {m \in in : <<m, n>> \in R} = {j \in in : j < n}
    OBVIOUS
  <2> QED
    BY <1>3
<1>6. N \in Nat
  BY <1>2, FS_CardinalityType
<1> HIDE DEF rank, N
<1>7. \A k \in 1 .. N : at(k) \in in /\ rank(at(k)) = k - 1
  <2> SUFFICES ASSUME NEW k \in 1 .. N PROVE at(k) \in in /\ rank(at(k)) = k - 1
    OBVIOUS
  <2>1. k - 1 \in 0 .. N - 1
    BY <1>6
  <2>2. \E i \in in : Cardinality({j \in in : j < i}) = k - 1
    BY <1>4, <1>5, <2>1
  <2>3. at(k) \in in /\ Cardinality({j \in in : j < at(k)}) = k - 1
    BY <2>2
  <2> QED
    BY <1>5, <2>3
<1>8. \A i \in in : \E k \in 1 .. N : at(k) = i
  <2> SUFFICES ASSUME NEW i \in in PROVE \E k \in 1 .. N : at(k) = i
    OBVIOUS
  <2>1. PICK k \in 1 .. N : k - 1 = rank(i)
    <3>1. \A r \in 0 .. N - 1 : r + 1 \in 1 .. N /\ r + 1 - 1 = r
      BY <1>6
    <3> QED
      BY <1>4, <3>1
  <2>2. at(k) \in in /\ rank(at(k)) = rank(i)
    BY <1>7, <2>1
  <2>3. at(k) = i
    <3>1. rank(i) \in Nat
      BY <1>4, <1>6
    <3>2. at(k) < i => rank(at(k)) < rank(i)
      BY <1>3, <1>4, <2>2
    <3>3. i < at(k) => rank(i) < rank(at(k))
      BY <1>3, <1>4, <2>2
    <3> QED
      <4>1. at(k) \in Nat /\ i \in Nat
        BY <1>2, <2>2
      <4>2. ~(at(k) < i) /\ ~(i < at(k))
        BY <2>2, <3>1, <3>2, <3>3
      <4> HIDE DEF at
      <4> QED
        BY <4>1, <4>2
  <2> QED
    BY <2>3
<1>9. Filter(s, S) = [k \in 1 .. N |-> s[at(k)]]
  BY DEF Filter, N, in
<1> HIDE DEF at
<1> DEFINE f == [k \in 1 .. N |-> s[at(k)]]
<1>10. f \in [1 .. N -> ToSet(s) \cap S]
  BY <1>7, <1>a DEF ToSet
<1>11. f \in Seq(ToSet(s) \cap S)
  BY <1>6, <1>10
<1>12. ToSet(f) = ToSet(s) \cap S
  <2>1. \A x \in ToSet(s) \cap S : \E k \in 1 .. N : f[k] = x
    <3> SUFFICES ASSUME NEW i \in DOMAIN s, s[i] \in S PROVE \E k \in 1 .. N : f[k] = s[i]
      BY DEF ToSet
    <3>1. PICK k \in 1 .. N : at(k) = i
      BY <1>8, <1>b
    <3> QED
      BY <3>1
  <2>2. DOMAIN f = 1 .. N
    OBVIOUS
  <2> HIDE DEF f
  <2> QED
    BY <1>10, <2>1, <2>2 DEF ToSet
<1> QED
  BY <1>9, <1>11, <1>12

-----------------------------------------------------------------------------
(* The index *)

\* The file that defines a name first does so whatever is indexed later.
LEMMA OriginFacts ==
  ASSUME NEW order \in Seq(Files), NEW n, Indexed(order, n)
  PROVE  /\ OriginOf(order, n) \in ToSet(order) /\ Defines(OriginOf(order, n), n)
         /\ \A more \in Seq(Files) : /\ Indexed(order \o more, n)
                                     /\ OriginOf(order \o more, n) = OriginOf(order, n)
<1> DEFINE In(i) == Defines(order[i], n)
           T == {i \in DOMAIN order : Defines(order[i], n)}
<1>1. Len(order) \in Nat /\ DOMAIN order = 1 .. Len(order)
  BY SeqFacts
<1>2. T \in SUBSET Nat /\ T # {}
  BY <1>1 DEF Indexed
<1>3. PICK i \in T : \A j \in T : i <= j
  BY <1>2, LeastElement
<1>4. i \in 1 .. Len(order) /\ Defines(order[i], n) /\ \A j \in 1 .. i-1 : ~Defines(order[j], n)
  BY <1>1, <1>3
<1>5. ASSUME NEW o, DOMAIN order \subseteq DOMAIN o, DOMAIN o \subseteq Nat \ {0},
             \A j \in DOMAIN order : o[j] = order[j]
      PROVE  Indexed(o, n) /\ OriginOf(o, n) = order[i]
  <2> DEFINE First(k) == Defines(o[k], n) /\ \A j \in 1 .. k-1 : ~Defines(o[j], n)
  <2>1. i \in DOMAIN o /\ First(i) /\ o[i] = order[i]
    BY <1>1, <1>4, <1>5
  <2>2. \A k \in DOMAIN o : First(k) => k = i
    <3> SUFFICES ASSUME NEW k \in DOMAIN o, First(k), k # i PROVE FALSE
      OBVIOUS
    <3>1. k \in Nat /\ i \in Nat /\ i >= 1
      BY <1>4, <1>5
    <3>2. CASE k < i
      <4>1. k \in 1 .. i-1 \/ k = 0
        BY <3>1, <3>2
      <4>2. k # 0
        BY <1>5
      <4> QED
        BY <2>1, <4>1, <4>2
    <3>3. CASE i < k
      <4>1. i \in 1 .. k-1
        BY <3>1, <3>3
      <4> QED
        BY <2>1, <4>1
    <3> QED
      BY <3>1, <3>2, <3>3
  <2>3. OriginOf(o, n) = o[CHOOSE k \in DOMAIN o : First(k)]
    BY DEF OriginOf
  <2>4. Indexed(o, n)
    BY <2>1 DEF Indexed
  <2> HIDE DEF First
  <2> QED
    BY <2>1, <2>2, <2>3, <2>4
<1>6. OriginOf(order, n) = order[i]
  BY <1>1, <1>5
<1>7. ASSUME NEW more \in Seq(Files)
      PROVE  Indexed(order \o more, n) /\ OriginOf(order \o more, n) = order[i]
  <2> DEFINE o == order \o more
  <2>1. DOMAIN order \subseteq DOMAIN o /\ \A j \in DOMAIN order : o[j] = order[j]
    BY ConcatFacts
  <2>2. DOMAIN o \subseteq Nat \ {0}
    BY ConcatFacts, SeqFacts
  <2> HIDE DEF o
  <2>3. Indexed(o, n) /\ OriginOf(o, n) = order[i]
    BY <1>5, <2>1, <2>2
  <2> QED
    BY <2>3 DEF o
<1> QED
  BY <1>1, <1>4, <1>6, <1>7 DEF ToSet

\* The file at position i of `order` is the first that defines n.
FirstAt(order, i, n) == Defines(order[i], n) /\ \A j \in 1 .. i-1 : ~Defines(order[j], n)

\* There is one such file.
LEMMA FirstIsOrigin ==
  ASSUME NEW order \in Seq(Files), NEW n, NEW i \in 1 .. Len(order), FirstAt(order, i, n)
  PROVE  OriginOf(order, n) = order[i]
<1>1. Len(order) \in Nat /\ DOMAIN order = 1 .. Len(order)
  BY SeqFacts
<1>2. ASSUME NEW k \in DOMAIN order, FirstAt(order, k, n) PROVE k = i
  <2>1. k \in 1 .. Len(order)
    BY <1>1
  <2>2. ~(k < i) /\ ~(i < k)
    <3>1. k < i => k \in 1 .. i-1
      BY <1>1, <2>1
    <3>2. i < k => i \in 1 .. k-1
      BY <1>1, <2>1
    <3> QED
      BY <1>2, <3>1, <3>2 DEF FirstAt
  <2> QED
    BY <1>1, <2>1, <2>2
<1>3. OriginOf(order, n) = order[CHOOSE k \in DOMAIN order : FirstAt(order, k, n)]
  BY DEF OriginOf, FirstAt
<1> QED
  BY <1>1, <1>2, <1>3

\* The texts are read only.
LEMMA IndexKept ==
  ASSUME text' = text, NEW order, NEW n
  PROVE  /\ Indexed(order, n)' <=> Indexed(order, n)
         /\ OriginOf(order, n)' = OriginOf(order, n)
<1>1. Readable' = Readable
  BY DEF Readable
<1>2. \A f : Defines(f, n)' <=> Defines(f, n)
  BY <1>1 DEF Defines
<1> QED
  BY <1>2 DEF Indexed, OriginOf, Defines, Readable

\* The files are finitely many.
LEMMA FileFacts == /\ IsFiniteSet(Files) /\ IsFiniteSet(ToSet(DirFiles))
                   /\ ToSet(DirFiles) \subseteq Files /\ ToSet(LibFiles) \subseteq Files
                   /\ LibFiles \in Seq(Files) /\ DirFiles \in Seq(Files) /\ DirFiles \in Seq(ToSet(DirFiles))
<1>1. LibFiles \in Seq(Files) /\ DirFiles \in Seq(Files)
  BY LibraryAssumption
<1>2. IsFiniteSet(ToSet(LibFiles)) /\ IsFiniteSet(ToSet(DirFiles)) /\ DirFiles \in Seq(ToSet(DirFiles))
  BY <1>1, SeqFacts
<1>3. IsFiniteSet(Files)
  BY <1>2, FS_Union DEF Files
<1> QED
  BY <1>1, <1>2, <1>3 DEF Files

\* One search: the index grows, no file that can be read is lost, and a name
\* that is still not defined has had them all indexed.
LEMMA SearchFacts ==
  ASSUME TypesOK, NothingSkipped, phase = "search", NEW name, NEW found, found = Search(name)
  PROVE  /\ \E more \in Seq(Files) : found.scanned = scanned \o more
         /\ found.pending \in Seq(ToSet(DirFiles))
         /\ Readable \subseteq ToSet(found.scanned) \cup ToSet(found.pending)
         /\ found.full => found.pending = <<>>
         /\ ~Indexed(found.scanned, name) => found.pending = <<>>
<1> DEFINE hits == Filter(DirFiles, Hits(name))
           rest == Filter(pending, ToSet(pending) \ Hits(name))
           own == scanned \o hits
           all == own \o rest
<1>1. scanned \in Seq(Files) /\ pending \in Seq(ToSet(DirFiles)) /\ ToSet(pending) \subseteq ToSet(DirFiles)
  BY SeqFacts DEF TypesOK
<1>2. Hits(name) \subseteq ToSet(pending)
  BY DEF Hits
<1>3. hits \in Seq(Files) /\ ToSet(hits) = Hits(name)
  <2>1. hits \in Seq(ToSet(DirFiles) \cap Hits(name)) /\ ToSet(hits) = ToSet(DirFiles) \cap Hits(name)
    BY FileFacts, FilterFacts
  <2> HIDE DEF hits
  <2>2. hits \in Seq(Files)
    BY <2>1, FileFacts
  <2> QED
    BY <1>1, <1>2, <2>1, <2>2
<1>4. rest \in Seq(ToSet(DirFiles)) /\ rest \in Seq(Files) /\ ToSet(rest) = ToSet(pending) \ Hits(name)
  <2> DEFINE S == ToSet(pending) \ Hits(name)
  <2>1. rest \in Seq(ToSet(pending) \cap S) /\ ToSet(rest) = ToSet(pending) \cap S
    BY <1>1, FilterFacts
  <2>2. ToSet(pending) \cap S = ToSet(pending) \ Hits(name)
    OBVIOUS
  <2>3. ToSet(pending) \ Hits(name) \subseteq ToSet(DirFiles) /\ ToSet(pending) \ Hits(name) \subseteq Files
    BY <1>1, FileFacts
  <2> HIDE DEF rest, S
  <2> QED
    BY <2>1, <2>2, <2>3
<1> HIDE DEF hits, rest
<1>5. own \in Seq(Files) /\ ToSet(own) = ToSet(scanned) \cup Hits(name)
  BY <1>1, <1>3, ConcatFacts
<1>6. all = scanned \o (hits \o rest) /\ hits \o rest \in Seq(Files)
  BY <1>1, <1>3, <1>4
<1> HIDE DEF own
<1>7. ToSet(all) = ToSet(own) \cup ToSet(rest)
  BY <1>4, <1>5, ConcatFacts
<1>8. Readable \subseteq ToSet(scanned) \cup ToSet(pending) /\ (full_scan_done => pending = <<>>)
  BY DEF NothingSkipped
<1>9. ToSet(<<>>) = {} /\ <<>> \in Seq(Files) /\ scanned = scanned \o <<>> /\ <<>> \in Seq(ToSet(DirFiles))
  BY <1>1 DEF ToSet
<1> DEFINE scan == ~Indexed(own, name) /\ ~full_scan_done
<1>10. found = IF Indexed(scanned, name) \/ pending = <<>>
               THEN [scanned |-> scanned, pending |-> pending, full |-> full_scan_done]
               ELSE IF scan THEN [scanned |-> all, pending |-> <<>>, full |-> TRUE]
               ELSE [scanned |-> own, pending |-> rest, full |-> full_scan_done]
  BY DEF Search, IndexFiles, hits, rest, own
<1> HIDE DEF all
<1>a. /\ Indexed(scanned, name) \/ pending = <<>> =>
           found.scanned = scanned /\ found.pending = pending /\ found.full = full_scan_done
      /\ ~(Indexed(scanned, name) \/ pending = <<>>) /\ scan =>
           found.scanned = all /\ found.pending = <<>>
      /\ ~(Indexed(scanned, name) \/ pending = <<>>) /\ ~scan =>
           found.scanned = own /\ found.pending = rest /\ found.full = full_scan_done
  <2> DEFINE done == Indexed(scanned, name) \/ pending = <<>>
  <2> HIDE DEF scan, done
  <2>1. done => found = [scanned |-> scanned, pending |-> pending, full |-> full_scan_done]
    BY <1>10, Zenon DEF done
  <2>2. ~done /\ scan => found = [scanned |-> all, pending |-> <<>>, full |-> TRUE]
    BY <1>10, Zenon DEF done
  <2>3. ~done /\ ~scan => found = [scanned |-> own, pending |-> rest, full |-> full_scan_done]
    BY <1>10, Zenon DEF done
  <2>4. done => found.scanned = scanned /\ found.pending = pending /\ found.full = full_scan_done
    BY <2>1
  <2>5. ~done /\ scan => found.scanned = all /\ found.pending = <<>>
    BY <2>2
  <2>6. ~done /\ ~scan => found.scanned = own /\ found.pending = rest /\ found.full = full_scan_done
    BY <2>3
  <2> QED
    BY <2>4, <2>5, <2>6 DEF done
<1>11. CASE Indexed(scanned, name) \/ pending = <<>>
  <2>1. found.scanned = scanned /\ found.pending = pending /\ found.full = full_scan_done
    BY <1>11, <1>a
  <2>2. \E more \in Seq(Files) : found.scanned = scanned \o more
    BY <1>9, <2>1
  <2>3. ~Indexed(found.scanned, name) => found.pending = <<>>
    BY <1>11, <2>1
  <2> QED
    BY <1>1, <1>8, <2>1, <2>2, <2>3
<1>12. CASE ~(Indexed(scanned, name) \/ pending = <<>>) /\ scan
  <2>1. found.scanned = all /\ found.pending = <<>>
    BY <1>12, <1>a
  <2> QED
    BY <1>1, <1>2, <1>4, <1>5, <1>6, <1>7, <1>8, <1>9, <2>1 DEF all, own
<1>13. CASE ~(Indexed(scanned, name) \/ pending = <<>>) /\ ~scan
  <2>1. found.scanned = own /\ found.pending = rest /\ found.full = full_scan_done
    BY <1>13, <1>a
  <2>2. ~full_scan_done /\ Indexed(own, name)
    BY <1>8, <1>13
  <2> QED
    BY <1>3, <1>4, <1>5, <1>8, <2>1, <2>2 DEF own
<1> QED
  BY <1>11, <1>12, <1>13

-----------------------------------------------------------------------------
(* The numbers of the files *)

Entries == [name : Names, file : Nat]
IndexedSources == [files : Seq(Files), def_file : SUBSET Entries]
PublishedSources == [files : Seq(Files), renumber : SUBSET [old : Nat, new : Nat], def_file : SUBSET Entries]

\* Every name that the first k files define has the number of the first of them.
Numbered(order, k, s) ==
  /\ IsFiniteSet(s.def_file)
  /\ NamesOf(s.def_file) = {n \in Names : \E i \in 1 .. k : Defines(order[i], n)}
  /\ \A e \in s.def_file : /\ e.file \in 1 .. Len(s.files)
                           /\ \E i \in 1 .. k : FirstAt(order, i, e.name) /\ s.files[e.file] = order[i]

\* What an entry says.
LEMMA EntryFacts ==
  ASSUME NEW n, NEW i
  PROVE  Entry(n, i).name = n /\ Entry(n, i).file = i
BY DEF Entry

\* The names of entries.
LEMMA NamesFacts ==
  ASSUME NEW S, NEW i
  PROVE  NamesOf({Entry(n, i) : n \in S}) = S
<1> DEFINE entries == {Entry(n, i) : n \in S}
<1>1. \A e \in entries : e.name \in S
  BY EntryFacts
<1>2. \A n \in S : \E e \in entries : e.name = n
  BY EntryFacts
<1> HIDE DEF entries
<1> QED
  BY <1>1, <1>2 DEF NamesOf, entries

\* A file that is indexed keeps lib_sources of its type.
LEMMA AddFileType ==
  ASSUME NEW s \in IndexedSources, NEW f \in Files
  PROVE  AddFile(s, f) \in IndexedSources
<1> DEFINE defined == {n \in Names : Defines(f, n) /\ n \notin NamesOf(s.def_file)}
           last == Len(s.files) + 1
           more == {Entry(n, last) : n \in defined}
<1>1. s.files \in Seq(Files) /\ s.def_file \subseteq Entries
  BY DEF IndexedSources
<1>2. Append(s.files, f) \in Seq(Files) /\ last \in Nat
  BY <1>1
<1>3. more \subseteq Entries
  BY <1>2 DEF Entries, Entry
<1>4. AddFile(s, f) = IF defined = {} THEN s ELSE [files |-> Append(s.files, f), def_file |-> s.def_file \cup more]
  BY DEF AddFile
<1> HIDE DEF defined, more
<1> QED
  BY <1>1, <1>2, <1>3, <1>4 DEF IndexedSources

\* The next file, which may define nothing new, keeps the numbers right.
LEMMA AddFileKeeps ==
  ASSUME NEW order \in Seq(Files), NEW k \in 1 .. Len(order), NEW s \in IndexedSources, Numbered(order, k - 1, s)
  PROVE  Numbered(order, k, AddFile(s, order[k]))
<1> DEFINE f == order[k]
           defined == {n \in Names : Defines(f, n) /\ n \notin NamesOf(s.def_file)}
           last == Len(s.files) + 1
           more == {Entry(n, last) : n \in defined}
           g == AddFile(s, f)
           Known(m) == {n \in Names : \E i \in 1 .. m : Defines(order[i], n)}
<1>1. /\ s.files \in Seq(Files) /\ Len(s.files) \in Nat /\ last \in Nat /\ f \in Files
      /\ k \in Nat /\ k - 1 \in Nat /\ \A i : i \in 1 .. k <=> i \in 1 .. k-1 \/ i = k
  BY DEF IndexedSources
<1>2. g = IF defined = {} THEN s ELSE [files |-> Append(s.files, f), def_file |-> s.def_file \cup more]
  BY DEF AddFile
<1>3. NamesOf(s.def_file) = Known(k - 1)
  BY DEF Numbered
<1>4. Known(k) = Known(k - 1) \cup defined
  BY <1>1, <1>3
<1>5. \A n \in defined : FirstAt(order, k, n)
  BY <1>1, <1>3 DEF FirstAt
<1> HIDE DEF defined, g
<1>6. ASSUME NEW e \in s.def_file
      PROVE  /\ e.file \in 1 .. Len(s.files)
             /\ \E i \in 1 .. k : FirstAt(order, i, e.name) /\ s.files[e.file] = order[i]
  BY <1>1 DEF Numbered
<1>7. CASE defined = {}
  <2>1. g = s
    BY <1>2, <1>7
  <2>2. Known(k) = NamesOf(s.def_file)
    BY <1>3, <1>4, <1>7
  <2> HIDE DEF f
  <2> QED
    BY <1>6, <2>1, <2>2 DEF Numbered, g, f
<1>8. CASE defined # {}
  <2>1. g.files = Append(s.files, f) /\ g.def_file = s.def_file \cup more
    BY <1>2, <1>8
  <2>2. /\ Len(g.files) = last /\ g.files[last] = f
        /\ \A p \in 1 .. Len(s.files) : p \in 1 .. last /\ g.files[p] = s.files[p]
    BY <1>1, <2>1
  <2>3. IsFiniteSet(g.def_file)
    <3>1. IsFiniteSet(defined)
      <4>1. defined \subseteq Names
        BY DEF defined
      <4> QED
        BY <4>1, LibraryAssumption, FS_Subset
    <3>2. IsFiniteSet(more)
      <4>1. [n \in defined |-> Entry(n, last)] \in Surjection(defined, more)
        BY DEF Surjection
      <4> QED
        BY <3>1, <4>1, FS_Surjection
    <3>3. IsFiniteSet(s.def_file)
      BY DEF Numbered
    <3> HIDE DEF more
    <3> QED
      BY <2>1, <3>2, <3>3, FS_Union
  <2>4. NamesOf(g.def_file) = Known(k)
    <3>1. NamesOf(more) = defined
      BY NamesFacts
    <3>2. NamesOf(g.def_file) = NamesOf(s.def_file) \cup NamesOf(more)
      BY <2>1 DEF NamesOf
    <3> QED
      BY <1>3, <1>4, <3>1, <3>2
  <2>5. ASSUME NEW e \in g.def_file
        PROVE  /\ e.file \in 1 .. Len(g.files)
               /\ \E i \in 1 .. k : FirstAt(order, i, e.name) /\ g.files[e.file] = order[i]
    <3>1. CASE e \in s.def_file
      <4> HIDE DEF last, f
      <4> QED
        BY <1>6, <2>2, <3>1
    <3>2. CASE e \in more
      <4>1. PICK n \in defined : e = Entry(n, last)
        BY <3>2
      <4>2. e.name = n /\ e.file = last
        BY <4>1 DEF Entry
      <4>3. last \in 1 .. last /\ k \in 1 .. k
        BY <1>1
      <4> HIDE DEF last
      <4> QED
        BY <1>5, <2>2, <4>2, <4>3
    <3> QED
      BY <2>1, <3>1, <3>2
  <2> HIDE DEF f
  <2> QED
    BY <2>3, <2>4, <2>5 DEF Numbered, g, f
<1> QED
  BY <1>7, <1>8 DEF g

\* After all files every name has the number of the file it was taken from.
LEMMA SourcesFacts ==
  ASSUME NEW order \in Seq(Files), NEW s \in Sources(order)
  PROVE  s \in IndexedSources /\ Numbered(order, Len(order), s)
<1> DEFINE N == Len(order)
           base == {[files |-> <<>>, def_file |-> {}]}
           Eq(a) == a = [k \in 0 .. N |-> IF k = 0 THEN base ELSE {AddFile(t, order[k]) : t \in a[k-1]}]
           after == CHOOSE a : Eq(a)
           All == SUBSET IndexedSources
           step == [p \in Nat \X All |-> IF p[1] \in 1 .. N THEN {AddFile(t, order[p[1]]) : t \in p[2]} ELSE {}]
<1>1. Sources(order) = after[N] /\ N \in Nat /\ \A k \in 1 .. N : order[k] \in Files
  BY DEF Sources
<1>2. base \in All /\ \A b \in base : Numbered(order, 0, b)
  <2>1. <<>> \in Seq(Files) /\ {} \in SUBSET Entries /\ IsFiniteSet({}) /\ NamesOf({}) = {}
    BY FS_EmptySet DEF NamesOf
  <2> QED
    BY <2>1 DEF IndexedSources, Numbered
<1>3. step \in [Nat \X All -> All]
  <2>1. ASSUME NEW p \in Nat \X All, p[1] \in 1 .. N PROVE {AddFile(t, order[p[1]]) : t \in p[2]} \in All
    <3>1. order[p[1]] \in Files /\ p[2] \subseteq IndexedSources
      BY <1>1, <2>1
    <3> QED
      BY <3>1, AddFileType
  <2>2. {} \in All
    OBVIOUS
  <2> HIDE DEF All, N
  <2> QED
    BY <2>1, <2>2
<1> HIDE DEF base, All, N
<1>4. PICK it \in [0 .. N -> All] : Iterates(it, base, step, N)
  <2> HIDE DEF step
  <2> QED
    BY <1>1, <1>2, <1>3, Iteration
<1>5. it[0] = base /\ \A k \in 1 .. N : it[k] = {AddFile(t, order[k]) : t \in it[k-1]}
  <2>1. ASSUME NEW k \in 1 .. N PROVE it[k] = {AddFile(t, order[k]) : t \in it[k-1]}
    <3>1. k - 1 \in 0 .. N /\ <<k, it[k - 1]>> \in Nat \X All
      BY <1>1
    <3>2. it[k] = step[<<k, it[k - 1]>>]
      BY <1>4 DEF Iterates
    <3> QED
      BY <3>1, <3>2
  <2> QED
    BY <1>4, <2>1 DEF Iterates
<1>6. Eq(it)
  <2>1. ASSUME NEW k \in 0 .. N
        PROVE  it[k] = IF k = 0 THEN base ELSE {AddFile(t, order[k]) : t \in it[k-1]}
    <3>1. k # 0 => k \in 1 .. N
      BY <1>1
    <3> QED
      BY <1>5, <3>1
  <2>2. it = [k \in 0 .. N |-> it[k]]
    OBVIOUS
  <2> QED
    BY <2>1, <2>2
<1>7. Eq(after)
  <2> HIDE DEF Eq
  <2> QED
    BY <1>6
<1> HIDE DEF after
<1>8. \A k \in 0 .. N : after[k] = IF k = 0 THEN base ELSE {AddFile(t, order[k]) : t \in after[k-1]}
  BY <1>7, Zenon
<1> DEFINE Right(k) == \A t \in after[k] : t \in IndexedSources /\ Numbered(order, k, t)
           T == {k \in Nat : k <= N => Right(k)}
<1>9. 0 \in T
  <2>1. 0 \in 0 .. N
    BY <1>1
  <2>2. after[0] = base
    BY <1>8, <2>1
  <2> QED
    BY <1>2, <2>2 DEF All
<1>10. ASSUME NEW n \in Nat, n \in T PROVE n + 1 \in T
  <2> DEFINE m == n + 1
  <2>1. m \in Nat /\ m - 1 = n
    OBVIOUS
  <2> SUFFICES ASSUME m <= N PROVE Right(m)
    BY <2>1
  <2>2. m \in 0 .. N /\ m \in 1 .. N /\ m # 0 /\ Right(m - 1)
    BY <1>1, <1>10, <2>1
  <2> HIDE DEF m
  <2>3. after[m] = {AddFile(t, order[m]) : t \in after[m-1]}
    BY <1>8, <2>2
  <2>4. ASSUME NEW t \in after[m-1]
        PROVE  AddFile(t, order[m]) \in IndexedSources /\ Numbered(order, m, AddFile(t, order[m]))
    <3>1. t \in IndexedSources /\ Numbered(order, m - 1, t) /\ order[m] \in Files
      BY <1>1, <2>2
    <3>2. m \in 1 .. Len(order)
      BY <2>2 DEF N
    <3> QED
      BY <3>1, <3>2, AddFileType, AddFileKeeps
  <2> QED
    BY <2>3, <2>4
<1> HIDE DEF T
<1>11. Nat \subseteq T
  BY <1>9, <1>10, SetInduction
<1>12. Right(N)
  BY <1>1, <1>11 DEF T
<1> QED
  BY <1>1, <1>12 DEF N

\* Every entry of the walk so far is published under the position of its file,
\* and nothing else is.
Renumbered(files, walk, k, s) ==
  /\ \A r \in s.renumber : r.new \in 1 .. Len(s.files) /\ s.files[r.new] = files[r.old]
  /\ NamesOf(s.def_file) = {walk[i].name : i \in 1 .. k}
  /\ \A e \in s.def_file : /\ e.file \in 1 .. Len(s.files)
                           /\ \E i \in 1 .. k : e.name = walk[i].name /\ s.files[e.file] = files[walk[i].file]
  /\ \A p \in 1 .. Len(s.files) : \E i \in 1 .. k : s.files[p] = files[walk[i].file]

\* An entry whose number is that of a file.
Located(files) == {e \in Entries : e.file \in DOMAIN files}

\* Of an entry that is published: a file it shares with an earlier one, or one
\* that is added at the end.
LEMMA PublishDefCases ==
  ASSUME NEW files \in Seq(Files), NEW s \in PublishedSources, NEW e \in Located(files)
  PROVE  LET g == PublishDef(files, s, e)
         IN \/ /\ g.files = s.files /\ g.renumber = s.renumber
               /\ \E known \in SUBSET s.renumber :
                    /\ known # {} /\ \A r \in known : r.old = e.file
                    /\ g.def_file = s.def_file \cup {Entry(e.name, r.new) : r \in known}
               /\ g \in PublishedSources
            \/ /\ g.files = Append(s.files, files[e.file])
               /\ g.renumber = s.renumber \cup {[old |-> e.file, new |-> Len(s.files) + 1]}
               /\ g.def_file = s.def_file \cup {Entry(e.name, Len(s.files) + 1)}
               /\ g \in PublishedSources
<1> DEFINE known == {r \in s.renumber : r.old = e.file}
           last == Len(s.files) + 1
           g == PublishDef(files, s, e)
           more == {Entry(e.name, r.new) : r \in known}
           one == [old |-> e.file, new |-> last]
<1>1. /\ s.files \in Seq(Files) /\ s.renumber \subseteq [old : Nat, new : Nat] /\ s.def_file \subseteq Entries
      /\ last \in Nat /\ e.file \in Nat /\ e.name \in Names /\ e.file \in DOMAIN files /\ files[e.file] \in Files
      /\ Append(s.files, files[e.file]) \in Seq(Files)
  BY DEF PublishedSources, Located, Entries
<1>2. more \subseteq Entries /\ Entry(e.name, last) \in Entries /\ one \in [old : Nat, new : Nat]
  <2>1. \A r \in known : r.new \in Nat
    BY <1>1
  <2> HIDE DEF known
  <2> QED
    BY <1>1, <2>1 DEF Entry, Entries
<1>3. CASE known # {}
  <2>1. g = [s EXCEPT !.def_file = s.def_file \cup more]
    BY <1>3 DEF PublishDef
  <2> HIDE DEF g, more
  <2>2. g.files = s.files /\ g.renumber = s.renumber /\ g.def_file = s.def_file \cup more /\ g \in PublishedSources
    BY <1>1, <1>2, <2>1 DEF PublishedSources
  <2>3. known \in SUBSET s.renumber /\ known # {} /\ \A r \in known : r.old = e.file
    BY <1>3
  <2> HIDE DEF known
  <2> QED
    BY <2>2, <2>3 DEF more, g
<1>4. CASE known = {}
  <2>1. g = [files |-> Append(s.files, files[e.file]), renumber |-> s.renumber \cup {one},
             def_file |-> s.def_file \cup {Entry(e.name, last)}]
    BY <1>1, <1>4 DEF PublishDef
  <2> HIDE DEF g, one, last
  <2>2. g \in PublishedSources
    BY <1>1, <1>2, <2>1 DEF PublishedSources
  <2> QED
    BY <2>1, <2>2 DEF g, one, last
<1> QED
  BY <1>3, <1>4

\* The next entry keeps the published ones right.
LEMMA PublishDefKeeps ==
  ASSUME NEW files \in Seq(Files), NEW walk \in Seq(Located(files)), NEW k \in 1 .. Len(walk),
         NEW s \in PublishedSources, Renumbered(files, walk, k - 1, s)
  PROVE  Renumbered(files, walk, k, PublishDef(files, s, walk[k]))
<1> DEFINE e == walk[k]
           last == Len(s.files) + 1
           g == PublishDef(files, s, e)
           Walked(m) == {walk[i].name : i \in 1 .. m}
<1>1. /\ k \in Nat /\ \A i : i \in 1 .. k <=> i \in 1 .. k-1 \/ i = k
      /\ e \in Located(files) /\ s.files \in Seq(Files) /\ Len(s.files) \in Nat /\ last \in Nat
  BY DEF PublishedSources
<1>2. Walked(k) = Walked(k - 1) \cup {e.name} /\ NamesOf(s.def_file) = Walked(k - 1)
  BY <1>1 DEF Renumbered
<1>3. /\ \A d \in s.def_file : /\ d.file \in 1 .. Len(s.files)
                               /\ \E i \in 1 .. k : d.name = walk[i].name /\ s.files[d.file] = files[walk[i].file]
      /\ \A p \in 1 .. Len(s.files) : \E i \in 1 .. k : s.files[p] = files[walk[i].file]
  BY <1>1 DEF Renumbered
<1>4. \A r \in s.renumber : r.new \in 1 .. Len(s.files) /\ s.files[r.new] = files[r.old]
  BY DEF Renumbered
<1>5. CASE /\ g.files = s.files /\ g.renumber = s.renumber
           /\ \E known \in SUBSET s.renumber :
                /\ known # {} /\ \A r \in known : r.old = e.file
                /\ g.def_file = s.def_file \cup {Entry(e.name, r.new) : r \in known}
  <2>1. PICK known \in SUBSET s.renumber :
               /\ known # {} /\ \A r \in known : r.old = e.file
               /\ g.def_file = s.def_file \cup {Entry(e.name, r.new) : r \in known}
    BY <1>5
  <2> DEFINE more == {Entry(e.name, r.new) : r \in known}
  <2>2. \A d \in more : d.name = e.name /\ d.file \in 1 .. Len(s.files) /\ s.files[d.file] = files[e.file]
    BY <1>4, <2>1, EntryFacts
  <2>3. NamesOf(more) = {e.name}
    <3>1. PICK r \in known : TRUE
      BY <2>1
    <3>2. Entry(e.name, r.new) \in more /\ Entry(e.name, r.new).name = e.name
      BY EntryFacts
    <3> HIDE DEF more
    <3> QED
      BY <2>2, <3>2 DEF NamesOf
  <2>4. NamesOf(g.def_file) = NamesOf(s.def_file) \cup NamesOf(more)
    BY <2>1 DEF NamesOf
  <2>5. ASSUME NEW d \in g.def_file
        PROVE  /\ d.file \in 1 .. Len(s.files)
               /\ \E i \in 1 .. k : d.name = walk[i].name /\ s.files[d.file] = files[walk[i].file]
    <3>1. k \in 1 .. k /\ (d \in s.def_file \/ d \in more)
      BY <1>1, <2>1
    <3> HIDE DEF more
    <3> QED
      BY <1>3, <2>2, <3>1
  <2>6. NamesOf(g.def_file) = Walked(k) /\ g.files = s.files /\ g.renumber = s.renumber
    BY <1>2, <1>5, <2>3, <2>4
  <2> HIDE DEF g, more
  <2>7. Renumbered(files, walk, k, g)
    BY <1>3, <1>4, <2>5, <2>6 DEF Renumbered
  <2> QED
    BY <2>7 DEF g
<1>6. CASE /\ g.files = Append(s.files, files[e.file])
           /\ g.renumber = s.renumber \cup {[old |-> e.file, new |-> last]}
           /\ g.def_file = s.def_file \cup {Entry(e.name, last)}
  <2>1. /\ Len(g.files) = last /\ g.files[last] = files[e.file] /\ last \in 1 .. last /\ k \in 1 .. k
        /\ \A p \in 1 .. Len(s.files) : p \in 1 .. last /\ g.files[p] = s.files[p]
        /\ \A p \in 1 .. last : p \in 1 .. Len(s.files) \/ p = last
    BY <1>1, <1>6
  <2> HIDE DEF last
  <2> DEFINE new == Entry(e.name, last)
  <2>a. new.name = e.name /\ new.file = last /\ g.def_file = s.def_file \cup {new}
    BY <1>6, EntryFacts
  <2> HIDE DEF new
  <2>2. NamesOf(g.def_file) = NamesOf(s.def_file) \cup {e.name}
    BY <2>a DEF NamesOf
  <2>3. \A r \in g.renumber : r.new \in 1 .. Len(g.files) /\ g.files[r.new] = files[r.old]
    BY <1>4, <1>6, <2>1
  <2>4. ASSUME NEW d \in g.def_file
        PROVE  /\ d.file \in 1 .. Len(g.files)
               /\ \E i \in 1 .. k : d.name = walk[i].name /\ g.files[d.file] = files[walk[i].file]
    <3>1. CASE d \in s.def_file
      <4>1. d.file \in 1 .. Len(s.files)
        BY <1>3, <3>1
      <4>2. PICK i \in 1 .. k : d.name = walk[i].name /\ s.files[d.file] = files[walk[i].file]
        BY <1>3, <3>1
      <4>3. d.file \in 1 .. Len(g.files) /\ g.files[d.file] = s.files[d.file]
        BY <2>1, <4>1
      <4> QED
        BY <4>2, <4>3
    <3>2. CASE d = new
      <4>1. d.file = last /\ d.name = walk[k].name /\ g.files[last] = files[walk[k].file]
        BY <2>1, <2>a, <3>2
      <4> HIDE DEF g, e
      <4> QED
        BY <2>1, <4>1
    <3> QED
      BY <2>a, <3>1, <3>2
  <2>5. \A p \in 1 .. Len(g.files) : \E i \in 1 .. k : g.files[p] = files[walk[i].file]
    BY <1>3, <2>1
  <2> HIDE DEF g
  <2> QED
    BY <1>2, <2>2, <2>3, <2>4, <2>5 DEF Renumbered, g
<1> QED
  BY <1>1, <1>5, <1>6, PublishDefCases

\* After the walk every entry is published under the position of its file.
LEMMA PublishFacts ==
  ASSUME NEW files \in Seq(Files), NEW walk \in Seq(Located(files)), NEW s \in Publish(files, walk)
  PROVE  s \in PublishedSources /\ Renumbered(files, walk, Len(walk), s)
<1> DEFINE N == Len(walk)
           base == {[files |-> <<>>, renumber |-> {}, def_file |-> {}]}
           Eq(a) == a = [k \in 0 .. N |-> IF k = 0 THEN base ELSE {PublishDef(files, t, walk[k]) : t \in a[k-1]}]
           after == CHOOSE a : Eq(a)
           All == SUBSET PublishedSources
           step == [p \in Nat \X All |-> IF p[1] \in 1 .. N THEN {PublishDef(files, t, walk[p[1]]) : t \in p[2]} ELSE {}]
<1>1. Publish(files, walk) = after[N] /\ N \in Nat /\ \A k \in 1 .. N : walk[k] \in Located(files)
  BY DEF Publish
<1>2. base \in All /\ \A b \in base : Renumbered(files, walk, 0, b)
  <2>1. <<>> \in Seq(Files) /\ {} \in SUBSET Entries /\ NamesOf({}) = {} /\ {} \in SUBSET [old : Nat, new : Nat]
    BY DEF NamesOf
  <2> QED
    BY <2>1 DEF PublishedSources, Renumbered
<1>3. step \in [Nat \X All -> All]
  <2>1. ASSUME NEW p \in Nat \X All, p[1] \in 1 .. N PROVE {PublishDef(files, t, walk[p[1]]) : t \in p[2]} \in All
    <3>1. walk[p[1]] \in Located(files) /\ p[2] \subseteq PublishedSources
      BY <1>1, <2>1
    <3> QED
      BY <3>1, PublishDefCases
  <2>2. {} \in All
    OBVIOUS
  <2> HIDE DEF All, N
  <2> QED
    BY <2>1, <2>2
<1> HIDE DEF base, All, N
<1>4. PICK it \in [0 .. N -> All] : Iterates(it, base, step, N)
  <2> HIDE DEF step
  <2> QED
    BY <1>1, <1>2, <1>3, Iteration
<1>5. it[0] = base /\ \A k \in 1 .. N : it[k] = {PublishDef(files, t, walk[k]) : t \in it[k-1]}
  <2>1. ASSUME NEW k \in 1 .. N PROVE it[k] = {PublishDef(files, t, walk[k]) : t \in it[k-1]}
    <3>1. k - 1 \in 0 .. N /\ <<k, it[k - 1]>> \in Nat \X All
      BY <1>1
    <3>2. it[k] = step[<<k, it[k - 1]>>]
      BY <1>4 DEF Iterates
    <3> QED
      BY <3>1, <3>2
  <2> QED
    BY <1>4, <2>1 DEF Iterates
<1>6. Eq(it)
  <2>1. ASSUME NEW k \in 0 .. N
        PROVE  it[k] = IF k = 0 THEN base ELSE {PublishDef(files, t, walk[k]) : t \in it[k-1]}
    <3>1. k # 0 => k \in 1 .. N
      BY <1>1
    <3> QED
      BY <1>5, <3>1
  <2>2. it = [k \in 0 .. N |-> it[k]]
    OBVIOUS
  <2> QED
    BY <2>1, <2>2
<1>7. Eq(after)
  <2> HIDE DEF Eq
  <2> QED
    BY <1>6
<1> HIDE DEF after
<1>8. \A k \in 0 .. N : after[k] = IF k = 0 THEN base ELSE {PublishDef(files, t, walk[k]) : t \in after[k-1]}
  BY <1>7, Zenon
<1> DEFINE Right(k) == \A t \in after[k] : t \in PublishedSources /\ Renumbered(files, walk, k, t)
           T == {k \in Nat : k <= N => Right(k)}
<1>9. 0 \in T
  <2>1. 0 \in 0 .. N
    BY <1>1
  <2>2. after[0] = base
    BY <1>8, <2>1
  <2> QED
    BY <1>2, <2>2 DEF All
<1>10. ASSUME NEW n \in Nat, n \in T PROVE n + 1 \in T
  <2> DEFINE m == n + 1
  <2>1. m \in Nat /\ m - 1 = n
    OBVIOUS
  <2> SUFFICES ASSUME m <= N PROVE Right(m)
    BY <2>1
  <2>2. m \in 0 .. N /\ m \in 1 .. N /\ m # 0 /\ Right(m - 1)
    BY <1>1, <1>10, <2>1
  <2> HIDE DEF m
  <2>3. after[m] = {PublishDef(files, t, walk[m]) : t \in after[m-1]}
    BY <1>8, <2>2
  <2>4. ASSUME NEW t \in after[m-1]
        PROVE  /\ PublishDef(files, t, walk[m]) \in PublishedSources
               /\ Renumbered(files, walk, m, PublishDef(files, t, walk[m]))
    <3>1. t \in PublishedSources /\ Renumbered(files, walk, m - 1, t) /\ walk[m] \in Located(files)
      BY <1>1, <2>2
    <3>2. m \in 1 .. Len(walk)
      BY <2>2 DEF N
    <3> QED
      BY <3>1, <3>2, PublishDefCases, PublishDefKeeps
  <2> QED
    BY <2>3, <2>4
<1> HIDE DEF T
<1>11. Nat \subseteq T
  BY <1>9, <1>10, SetInduction
<1>12. Right(N)
  BY <1>1, <1>11 DEF T
<1> QED
  BY <1>1, <1>12 DEF N

-----------------------------------------------------------------------------
(* The actions *)

\* The last name of the worklist and the names before it.
LEMMA FrontFacts ==
  ASSUME NEW S, NEW s \in Seq(S), s # <<>>
  PROVE  Front(s) \in Seq(S) /\ Last(s) \in S /\ ToSet(s) = ToSet(Front(s)) \cup {Last(s)}
<1>1. Len(s) \in Nat /\ Len(s) # 0 /\ DOMAIN s = 1 .. Len(s) /\ \A i \in 1 .. Len(s) : s[i] \in S
  OBVIOUS
<1>2. /\ Front(s) \in Seq(S) /\ DOMAIN Front(s) = 1 .. Len(s) - 1
      /\ \A i \in 1 .. Len(s) - 1 : Front(s)[i] = s[i]
  BY <1>1 DEF Front
<1>3. Last(s) = s[Len(s)] /\ Len(s) \in 1 .. Len(s)
  BY <1>1 DEF Last
<1>4. \A i : i \in 1 .. Len(s) <=> i \in 1 .. Len(s) - 1 \/ i = Len(s)
  BY <1>1
<1>5. ToSet(s) = ToSet(Front(s)) \cup {Last(s)}
  BY <1>1, <1>2, <1>3, <1>4 DEF ToSet
<1> QED
  BY <1>1, <1>2, <1>3, <1>5

\* A list of a hash set of names.
LEMMA OrdersFacts ==
  ASSUME NEW S \in SUBSET Names, NEW s \in Orders(S)
  PROVE  s \in Seq(Names) /\ ToSet(s) = S
<1>1. IsFiniteSet(S)
  BY LibraryAssumption, FS_Subset
<1>2. s \in Seq(S) /\ ToSet(s) = S
  BY <1>1, SequencesOfSet DEF Orders
<1> QED
  BY <1>2

\* The search starts with a design and no library file.
LEMMA InitInv == Init => IInv
<1> SUFFICES ASSUME Init PROVE IInv
  OBVIOUS
<1>1. pending \in Seq(ToSet(DirFiles)) /\ ToSet(pending) = ToSet(DirFiles)
  BY FileFacts, SequencesOfSet DEF Init, Orders
<1>2. TypesOK
  BY <1>1, DesignAssumption DEF Init, TypesOK
<1>3. Registry
  BY DEF Init, Registry
<1>4. NothingSkipped /\ NamesTracked
  BY <1>1 DEF Init, NothingSkipped, NamesTracked
<1>5. ToSet(work) = {}
  BY DEF Init, ToSet
<1>6. WorkNeeded
  BY <1>5 DEF Init, WorkNeeded
<1> QED
  BY <1>2, <1>3, <1>4, <1>6 DEF Init, IInv, SearchComplete, SourcesTrue, Done

\* The definitions instantiate names.
LEMMA InstsFacts ==
  ASSUME TypesOK, Registry
  PROVE  /\ \A n \in DOMAIN definitions : definitions[n].insts \subseteq Names
         /\ design.binds \subseteq Names
<1>1. \A n \in DOMAIN design.defs : definitions[n].insts \subseteq Names
  BY DesignAssumption DEF TypesOK, Registry
<1>2. \A n \in adopted : definitions[n].insts \subseteq Names
  <2> SUFFICES ASSUME NEW n \in adopted PROVE definitions[n].insts \subseteq Names
    OBVIOUS
  <2>1. Indexed(scanned, n) /\ scanned \in Seq(Files) /\ definitions[n].insts = text[OriginOf(scanned, n)].defs[n]
    BY DEF TypesOK, Registry
  <2>2. Defines(OriginOf(scanned, n), n)
    BY <2>1, OriginFacts
  <2> QED
    BY <2>1, <2>2, LibraryAssumption DEF TypesOK, Defines, Readable
<1> QED
  BY <1>1, <1>2, DesignAssumption DEF TypesOK, Registry

\* The `-v` files are indexed and the worklist holds what the design instantiates.
LEMMA SeedInv == IInv /\ Seed => IInv'
<1> SUFFICES ASSUME IInv, Seed PROVE IInv'
  OBVIOUS
<1> DEFINE seed == design.binds \cup UNION {definitions[n].insts : n \in DOMAIN definitions}
<1>1. /\ TypesOK /\ Registry /\ phase = "index" /\ phase' = "search" /\ scanned = <<>>
      /\ adopted = {} /\ unresolved = {} /\ ToSet(pending) = ToSet(DirFiles) /\ ~full_scan_done
  BY DEF IInv, Seed, NothingSkipped
<1>2. seed \subseteq Names
  BY <1>1, InstsFacts
<1>3. work' \in Seq(Names) /\ ToSet(work') = seed
  <2>1. work' \in Orders(seed)
    BY DEF Seed
  <2> HIDE DEF seed
  <2> QED
    BY <1>2, <2>1, OrdersFacts
<1>4. scanned' = LibFiles
  BY <1>1, FileFacts DEF Seed, IndexFiles
<1>5. TypesOK'
  BY <1>1, <1>3, <1>4, FileFacts DEF Seed, TypesOK
<1>6. Registry'
  BY <1>1 DEF Seed, Registry
<1>7. NothingSkipped'
  BY <1>1, <1>4 DEF Seed, NothingSkipped, Readable, Files
<1>8. NamesTracked'
  BY <1>1, <1>3 DEF Seed, NamesTracked, Instantiated
<1>9. WorkNeeded'
  <2> SUFFICES ASSUME NEW S \in SUBSET (Names \ DOMAIN design.defs), S \cap NeededBeside(S) = {}
               PROVE  S \cap seed = {}
    BY <1>1, <1>3 DEF Seed, WorkNeeded, NeededBeside
  <2>1. DOMAIN definitions \ S = DOMAIN definitions
    BY <1>1 DEF Registry
  <2> QED
    BY <2>1 DEF NeededBeside
<1> QED
  BY <1>1, <1>5, <1>6, <1>7, <1>8, <1>9 DEF IInv, SearchComplete, SourcesTrue, Done

\* A name that is defined leaves the worklist.
LEMMA SkipInv == IInv /\ Skip => IInv'
<1> SUFFICES ASSUME IInv, Skip PROVE IInv'
  OBVIOUS
<1>1. TypesOK /\ work \in Seq(Names) /\ work # <<>> /\ phase = "search" /\ phase' = "search"
  BY DEF IInv, Skip, TypesOK
<1>2. work' \in Seq(Names) /\ ToSet(work) = ToSet(work') \cup {Last(work)} /\ Last(work) \in DOMAIN definitions
  BY <1>1, FrontFacts DEF Skip
<1>a. scanned' = scanned /\ text' = text /\ design' = design
  BY DEF Skip
<1>b. TypesOK'
  BY <1>1, <1>2 DEF Skip, TypesOK
<1>c. NothingSkipped'
  BY <1>1, <1>2 DEF IInv, Skip, NothingSkipped, Readable
<1>d. Registry'
  BY <1>1, <1>a, IndexKept DEF IInv, Skip, Registry
<1>3. TypesOK' /\ Registry' /\ NothingSkipped'
  BY <1>b, <1>c, <1>d
<1>4. NamesTracked'
  BY <1>1, <1>2 DEF IInv, Skip, NamesTracked, Instantiated, Readable
<1>5. WorkNeeded'
  BY <1>2 DEF IInv, Skip, WorkNeeded, NeededBeside
<1> QED
  BY <1>1, <1>3, <1>4, <1>5 DEF IInv, SearchComplete, SourcesTrue, Done

\* What resolving a name starts from.
LEMMA ResolveFacts ==
  ASSUME IInv, Resolve
  PROVE  \E name \in Names : \E found :
           /\ name = Last(work) /\ found = Search(name) /\ name \notin DOMAIN definitions
           /\ scanned' = found.scanned /\ pending' = found.pending /\ full_scan_done' = found.full
           /\ phase = "search"
           /\ UNCHANGED <<text, design, published, def_file, phase>>
           /\ \/ /\ Indexed(found.scanned, name) /\ unresolved' = unresolved
                 /\ LET from == OriginOf(found.scanned, name)
                    IN Adopt(name, [from |-> from, insts |-> text[from].defs[name]], Front(work))
              \/ /\ ~Indexed(found.scanned, name) /\ Report(name, Front(work))
                 /\ UNCHANGED <<definitions, adopted, wanted>>
<1>1. Last(work) \in Names
  BY FrontFacts DEF IInv, TypesOK, Resolve
<1> QED
  BY <1>1 DEF Resolve

\* A name that is looked for is adopted, with what it instantiates on the
\* worklist, or reported.
LEMMA ResolveInv == IInv /\ Resolve => IInv'
<1> SUFFICES ASSUME IInv, Resolve PROVE IInv'
  OBVIOUS
<1>1. PICK name \in Names : \E found :
           /\ name = Last(work) /\ found = Search(name) /\ name \notin DOMAIN definitions
           /\ scanned' = found.scanned /\ pending' = found.pending /\ full_scan_done' = found.full
           /\ phase = "search"
           /\ UNCHANGED <<text, design, published, def_file, phase>>
           /\ \/ /\ Indexed(found.scanned, name) /\ unresolved' = unresolved
                 /\ LET from == OriginOf(found.scanned, name)
                    IN Adopt(name, [from |-> from, insts |-> text[from].defs[name]], Front(work))
              \/ /\ ~Indexed(found.scanned, name) /\ Report(name, Front(work))
                 /\ UNCHANGED <<definitions, adopted, wanted>>
  BY ResolveFacts
<1>2. PICK found :
           /\ name = Last(work) /\ found = Search(name) /\ name \notin DOMAIN definitions
           /\ scanned' = found.scanned /\ pending' = found.pending /\ full_scan_done' = found.full
           /\ phase = "search"
           /\ UNCHANGED <<text, design, published, def_file, phase>>
           /\ \/ /\ Indexed(found.scanned, name) /\ unresolved' = unresolved
                 /\ LET from == OriginOf(found.scanned, name)
                    IN Adopt(name, [from |-> from, insts |-> text[from].defs[name]], Front(work))
              \/ /\ ~Indexed(found.scanned, name) /\ Report(name, Front(work))
                 /\ UNCHANGED <<definitions, adopted, wanted>>
  BY <1>1
<1>3. /\ TypesOK /\ Registry /\ NothingSkipped /\ NamesTracked /\ WorkNeeded
      /\ scanned \in Seq(Files) /\ work \in Seq(Names) /\ phase = "search" /\ phase' = "search" /\ work # <<>>
      /\ text' = text /\ design' = design
  BY <1>2 DEF IInv, TypesOK, Resolve
<1>4. Front(work) \in Seq(Names) /\ ToSet(work) = ToSet(Front(work)) \cup {name}
  BY <1>2, <1>3, FrontFacts
<1>5. PICK more \in Seq(Files) : scanned' = scanned \o more
  BY <1>2, <1>3, SearchFacts
<1>6. /\ scanned' \in Seq(Files) /\ pending' \in Seq(ToSet(DirFiles))
      /\ Readable \subseteq ToSet(scanned') \cup ToSet(pending') /\ (full_scan_done' => pending' = <<>>)
      /\ ~Indexed(scanned', name) => pending' = <<>>
  <2>1. /\ pending' \in Seq(ToSet(DirFiles))
        /\ Readable \subseteq ToSet(scanned') \cup ToSet(pending') /\ (full_scan_done' => pending' = <<>>)
        /\ ~Indexed(scanned', name) => pending' = <<>>
    BY <1>2, <1>3, SearchFacts
  <2> QED
    BY <1>3, <1>5, <2>1, ConcatFacts
<1>7. Readable' = Readable
  BY <1>3 DEF Readable
<1>8. NothingSkipped'
  BY <1>3, <1>6, <1>7 DEF NothingSkipped
<1>9. \A n \in adopted : Indexed(scanned', n) /\ OriginOf(scanned', n) = OriginOf(scanned, n)
  BY <1>3, <1>5, OriginFacts DEF Registry
<1>10. \A n : /\ Indexed(scanned, n)' <=> Indexed(scanned', n)
              /\ OriginOf(scanned, n)' = OriginOf(scanned', n)
  <2>1. \A f, n : Defines(f, n)' <=> Defines(f, n)
    BY <1>3, <1>7 DEF Defines
  <2> QED
    BY <1>3, <2>1 DEF Indexed, OriginOf, Defines, Readable
<1>11. CASE /\ Indexed(scanned', name) /\ unresolved' = unresolved
            /\ LET from == OriginOf(scanned', name)
               IN Adopt(name, [from |-> from, insts |-> text[from].defs[name]], Front(work))
  <2> DEFINE from == OriginOf(scanned', name)
             insts == text[from].defs[name]
  <2>1. /\ definitions' = [n \in DOMAIN definitions \cup {name} |->
                             IF n = name THEN [from |-> from, insts |-> insts] ELSE definitions[n]]
        /\ adopted' = adopted \cup {name}
        /\ \E new \in Orders(insts \ (DOMAIN definitions \cup {name})) : work' = Front(work) \o new
    BY <1>11 DEF Adopt
  <2>2. from \in Files /\ insts \subseteq Names
    <3>1. from \in ToSet(scanned') /\ Defines(from, name)
      BY <1>6, <1>11, OriginFacts
    <3> HIDE DEF from
    <3>2. from \in Files /\ name \in DOMAIN text[from].defs
      BY <3>1 DEF Defines, Readable
    <3> QED
      BY <1>3, <3>2, LibraryAssumption DEF TypesOK
  <2> HIDE DEF from, insts
  <2>3. PICK new \in Orders(insts \ (DOMAIN definitions \cup {name})) : work' = Front(work) \o new
    BY <2>1
  <2>4. new \in Seq(Names) /\ ToSet(new) = insts \ (DOMAIN definitions \cup {name})
    <3>1. insts \ (DOMAIN definitions \cup {name}) \in SUBSET Names
      BY <2>2
    <3> QED
      BY <3>1, OrdersFacts
  <2>5. work' \in Seq(Names) /\ ToSet(work') = ToSet(Front(work)) \cup ToSet(new)
    BY <1>4, <2>3, <2>4, ConcatFacts
  <2>6. /\ DOMAIN definitions' = DOMAIN definitions \cup {name}
        /\ definitions'[name].from = from /\ definitions'[name].insts = insts
        /\ \A n \in DOMAIN definitions : definitions'[n] = definitions[n]
    BY <1>2, <2>1
  <2>7. TypesOK'
    BY <1>2, <1>3, <1>6, <1>11, <2>1, <2>5, <2>6 DEF TypesOK
  <2>8. Registry'
    <3>1. DOMAIN definitions' = DOMAIN design.defs \cup adopted' /\ adopted' \cap DOMAIN design.defs = {}
      BY <1>2, <1>3, <2>1, <2>6 DEF Registry
    <3>2. \A n \in DOMAIN design.defs : /\ definitions'[n].insts = design.defs[n]
                                        /\ definitions'[n].from = "design"
      BY <1>3, <2>6 DEF Registry
    <3>3. ASSUME NEW n \in adopted'
          PROVE  /\ Indexed(scanned', n) /\ definitions'[n].from = OriginOf(scanned', n)
                 /\ definitions'[n].insts = text[OriginOf(scanned', n)].defs[n]
      <4>1. CASE n = name
        BY <1>11, <2>6, <4>1 DEF from, insts
      <4>2. CASE n \in adopted
        <5>1. n \in DOMAIN definitions
          BY <1>3, <4>2 DEF Registry
        <5> QED
          BY <1>3, <1>9, <2>6, <4>2, <5>1 DEF Registry
      <4> QED
        BY <2>1, <4>1, <4>2
    <3> QED
      BY <1>3, <1>10, <3>1, <3>2, <3>3 DEF Registry
  <2>9. NamesTracked'
    <3>1. \A n \in unresolved' : \A f \in Readable' : n \notin DOMAIN text'[f].defs
      BY <1>3, <1>7, <1>11 DEF NamesTracked
    <3>2. Instantiated(definitions)' = Instantiated(definitions) \cup insts
      BY <1>2, <1>3, <2>6 DEF Instantiated
    <3>3. Instantiated(definitions) \subseteq DOMAIN definitions \cup unresolved \cup ToSet(work)
      BY <1>3 DEF NamesTracked
    <3>4. Instantiated(definitions)' \subseteq DOMAIN definitions' \cup unresolved' \cup ToSet(work')
      BY <1>4, <1>11, <2>4, <2>5, <2>6, <3>2, <3>3
    <3> QED
      BY <1>3, <3>1, <3>4 DEF NamesTracked
  <2>10. WorkNeeded'
    <3> SUFFICES ASSUME NEW S \in SUBSET (Names \ DOMAIN design.defs), S \cap NeededBeside(S)' = {}
                 PROVE  S \cap (adopted' \cup ToSet(work')) = {}
      BY <1>3 DEF WorkNeeded
    <3>1. NeededBeside(S) \subseteq NeededBeside(S)'
      BY <1>3, <2>6 DEF NeededBeside
    <3>2. S \cap (adopted \cup ToSet(work)) = {}
      BY <1>3, <3>1 DEF WorkNeeded
    <3>3. name \notin S
      BY <1>4, <3>2
    <3>4. insts \subseteq NeededBeside(S)'
      BY <2>6, <3>3 DEF NeededBeside
    <3> QED
      BY <1>4, <2>1, <2>4, <2>5, <3>2, <3>3, <3>4
  <2> QED
    BY <1>3, <1>8, <2>7, <2>8, <2>9, <2>10 DEF IInv, SearchComplete, SourcesTrue, Done
<1>12. CASE /\ ~Indexed(scanned', name) /\ Report(name, Front(work))
            /\ UNCHANGED <<definitions, adopted, wanted>>
  <2>1. unresolved' = unresolved \cup {name} /\ work' = Front(work) /\ definitions' = definitions /\ adopted' = adopted
    BY <1>12 DEF Report
  <2>2. \A f \in Readable : name \notin DOMAIN text[f].defs
    <3>1. Readable \subseteq ToSet(scanned')
      <4>1. pending' = <<>>
        BY <1>6, <1>12
      <4>2. ToSet(pending') = {}
        BY <4>1 DEF ToSet
      <4> QED
        BY <1>6, <4>2
    <3> QED
      BY <1>12, <3>1 DEF Indexed, Defines, ToSet
  <2>3. TypesOK'
    BY <1>3, <1>4, <1>6, <2>1 DEF TypesOK
  <2>4. Registry'
    BY <1>3, <1>9, <1>10, <2>1 DEF Registry
  <2>5. NamesTracked'
    <3>1. \A n \in unresolved' : \A f \in Readable' : n \notin DOMAIN text'[f].defs
      BY <1>3, <1>7, <2>1, <2>2 DEF NamesTracked
    <3>2. Instantiated(definitions)' = Instantiated(definitions)
      BY <1>3, <2>1 DEF Instantiated
    <3> QED
      BY <1>3, <1>4, <2>1, <3>1, <3>2 DEF NamesTracked
  <2>6. WorkNeeded'
    BY <1>3, <1>4, <2>1 DEF WorkNeeded, NeededBeside
  <2> QED
    BY <1>3, <1>8, <2>3, <2>4, <2>5, <2>6 DEF IInv, SearchComplete, SourcesTrue, Done
<1> QED
  BY <1>2, <1>11, <1>12

\* The search ends with the sources of what was adopted.
LEMMA FinishInv == IInv /\ Finish => IInv'
<1> SUFFICES ASSUME IInv, Finish PROVE IInv'
  OBVIOUS
<1>1. /\ TypesOK /\ Registry /\ NothingSkipped /\ NamesTracked /\ WorkNeeded
      /\ scanned \in Seq(Files) /\ pending \in Seq(ToSet(DirFiles)) /\ phase = "search" /\ work = <<>>
      /\ text' = text /\ design' = design /\ work' = work /\ adopted' = adopted /\ unresolved' = unresolved
      /\ full_scan_done' = full_scan_done /\ phase' = "done"
      /\ pending' = IF Forwards # {} THEN <<>> ELSE pending
      /\ text \in Texts /\ design \in Designs
  BY DEF IInv, TypesOK, Finish
<1> DEFINE indexed == Unread
<1> HIDE DEF indexed
<1>2. /\ scanned' = indexed
      /\ definitions' = [n \in DOMAIN definitions |->
                           IF n \in Filled(indexed) THEN [from |-> "typedef", insts |-> {}] ELSE definitions[n]]
      /\ \E sources \in Sources(indexed) : \E walk \in Orders({e \in sources.def_file : e.name \in adopted}) :
           \E s \in Publish(sources.files, walk) : published' = s.files /\ def_file' = s.def_file
  BY DEF Finish, indexed
<1>3. pending \in Seq(Files) /\ ToSet(<<>>) = {} /\ <<>> \in Seq(Files) /\ <<>> \in Seq(ToSet(DirFiles))
      /\ scanned = scanned \o <<>>
  <2>1. pending \in Seq(Files)
    BY <1>1, FileFacts
  <2> QED
    BY <1>1, <2>1 DEF ToSet
<1>4. PICK more \in Seq(Files) : indexed = scanned \o more
  <2>1. CASE Forwards # {}
    BY <1>3, <2>1 DEF indexed, Unread, IndexFiles
  <2>2. CASE Forwards = {}
    BY <1>3, <2>2 DEF indexed, Unread
  <2> QED
    BY <2>1, <2>2
<1>5. indexed \in Seq(Files)
  BY <1>1, <1>4, ConcatFacts
<1>6. /\ Forwards # {} => ToSet(indexed) = ToSet(scanned) \cup ToSet(pending)
      /\ Forwards = {} => indexed = scanned
  BY <1>1, <1>3, ConcatFacts DEF indexed, Unread, IndexFiles
<1>7. Readable' = Readable
  BY <1>1 DEF Readable
<1>8. \A n \in adopted : /\ Indexed(indexed, n) /\ OriginOf(indexed, n) = OriginOf(scanned, n)
                        /\ OriginOf(indexed, n) \in Files
  <2> SUFFICES ASSUME NEW n \in adopted
               PROVE  /\ Indexed(indexed, n) /\ OriginOf(indexed, n) = OriginOf(scanned, n)
                      /\ OriginOf(indexed, n) \in Files
    OBVIOUS
  <2>1. Indexed(scanned, n)
    BY <1>1 DEF Registry
  <2>2. Indexed(indexed, n) /\ OriginOf(indexed, n) = OriginOf(scanned, n)
    BY <1>1, <1>4, <2>1, OriginFacts
  <2>3. Defines(OriginOf(scanned, n), n)
    BY <1>1, <2>1, OriginFacts
  <2> QED
    BY <2>2, <2>3 DEF Defines, Readable
<1>9. \A n : Indexed(scanned, n)' <=> Indexed(scanned', n)
  <2>1. \A f, n : Defines(f, n)' <=> Defines(f, n)
    BY <1>1, <1>7 DEF Defines
  <2> QED
    BY <2>1 DEF Indexed
<1>10. \A n : OriginOf(scanned, n)' = OriginOf(scanned', n)
  <2>1. \A f, n : Defines(f, n)' <=> Defines(f, n)
    BY <1>1, <1>7 DEF Defines
  <2> QED
    BY <1>1, <2>1 DEF OriginOf, Defines, Readable
<1>11. /\ Filled(indexed) \subseteq design.forward \cap DOMAIN definitions
       /\ design.forward \subseteq DOMAIN design.defs
       /\ \A n \in design.forward : design.defs[n] = {}
       /\ Filled(indexed) \cap adopted = {}
  <2>1. design.forward \subseteq {n \in DOMAIN design.defs : design.defs[n] = {}}
    BY <1>1, DesignAssumption
  <2>2. Filled(indexed) \subseteq design.forward \cap DOMAIN definitions
    BY DEF Filled, Forwards
  <2>3. adopted \cap DOMAIN design.defs = {}
    BY <1>1 DEF Registry
  <2> QED
    BY <2>1, <2>2, <2>3
<1>12. /\ DOMAIN definitions' = DOMAIN definitions
       /\ \A n \in DOMAIN definitions : n \notin Filled(indexed) => definitions'[n] = definitions[n]
       /\ \A n \in DOMAIN definitions : n \in Filled(indexed) =>
            definitions'[n].from = "typedef" /\ definitions'[n].insts = {}
  BY <1>2
<1>13. \A n \in DOMAIN definitions : definitions'[n].insts = definitions[n].insts
  BY <1>1, <1>11, <1>12, ZenonT(40) DEF Registry
<1>14. \A n \in adopted : /\ n \in DOMAIN definitions /\ definitions'[n] = definitions[n]
                         /\ definitions'[n].from = OriginOf(indexed, n)
  BY <1>1, <1>8, <1>11, <1>12 DEF Registry
<1>15. TypesOK'
  <2>1. pending' \in Seq(ToSet(DirFiles))
    BY <1>1, <1>3
  <2> QED
    BY <1>1, <1>2, <1>5, <1>12, <2>1 DEF TypesOK
<1>16. Registry'
  <2>1. \A n \in DOMAIN design.defs : definitions'[n].insts = design.defs[n]
    BY <1>1, <1>13 DEF Registry
  <2>2. \A n \in adopted : definitions'[n].insts = text[OriginOf(indexed, n)].defs[n]
    BY <1>1, <1>8, <1>14 DEF Registry
  <2>3. DOMAIN definitions' = DOMAIN design.defs \cup adopted /\ adopted \cap DOMAIN design.defs = {}
    BY <1>1, <1>12 DEF Registry
  <2> QED
    BY <1>1, <1>2, <1>8, <1>9, <1>10, <1>14, <2>1, <2>2, <2>3, ZenonT(40) DEF Registry
<1>17. NothingSkipped'
  <2>1. Readable \subseteq ToSet(scanned') \cup ToSet(pending')
    BY <1>1, <1>2, <1>6 DEF NothingSkipped
  <2> QED
    BY <1>1, <1>7, <2>1 DEF NothingSkipped
<1>18. Instantiated(definitions)' = Instantiated(definitions)
  BY <1>1, <1>12, <1>13 DEF Instantiated
<1>19. /\ Instantiated(definitions)' \subseteq DOMAIN definitions' \cup unresolved'
       /\ \A n \in unresolved' : \A f \in Readable' : n \notin DOMAIN text'[f].defs
  BY <1>1, <1>3, <1>7, <1>12, <1>18 DEF NamesTracked
<1>20. NamesTracked'
  BY <1>1, <1>19 DEF NamesTracked
<1>21. WorkNeeded'
  <2>1. \A S : NeededBeside(S)' = NeededBeside(S)
    BY <1>1, <1>12, <1>13 DEF NeededBeside
  <2> QED
    BY <1>1, <2>1 DEF WorkNeeded
<1>22. SearchComplete'
  <2>1. ASSUME NEW n \in design.forward, NEW f \in Readable, n \in text[f].typedefs
        PROVE  definitions'[n].from = "typedef"
    <3>1. n \in Forwards
      BY <1>1, <1>11 DEF Forwards, Registry
    <3>2. f \in ToSet(indexed)
      BY <1>1, <1>6, <3>1 DEF NothingSkipped
    <3>3. n \in Filled(indexed)
      BY <2>1, <3>1, <3>2 DEF Filled
    <3> QED
      BY <1>11, <1>12, <3>3
  <2> QED
    BY <1>1, <1>7, <1>19, <2>1 DEF SearchComplete
<1>23. SourcesTrue'
  <2>1. PICK sources \in Sources(indexed) : \E walk \in Orders({e \in sources.def_file : e.name \in adopted}) :
           \E s \in Publish(sources.files, walk) : published' = s.files /\ def_file' = s.def_file
    BY <1>2
  <2> DEFINE chosen == {e \in sources.def_file : e.name \in adopted}
             files == sources.files
  <2>2. PICK walk \in Orders(chosen) : \E s \in Publish(files, walk) : published' = s.files /\ def_file' = s.def_file
    BY <2>1
  <2>3. PICK s \in Publish(files, walk) : published' = s.files /\ def_file' = s.def_file
    BY <2>2
  <2>4. sources \in IndexedSources /\ Numbered(indexed, Len(indexed), sources)
    BY <1>5, SourcesFacts
  <2>5. files \in Seq(Files) /\ DOMAIN files = 1 .. Len(files) /\ sources.def_file \subseteq Entries
    BY <2>4 DEF IndexedSources
  <2>6. chosen \subseteq Located(files) /\ IsFiniteSet(chosen)
    <3>1. chosen \subseteq Located(files)
      BY <2>4, <2>5 DEF Numbered, Located
    <3>2. chosen \subseteq sources.def_file /\ IsFiniteSet(sources.def_file)
      BY <2>4 DEF Numbered
    <3> HIDE DEF chosen
    <3> QED
      BY <3>1, <3>2, FS_Subset
  <2>7. NamesOf(chosen) = adopted
    <3>1. NamesOf(sources.def_file) = {n \in Names : \E i \in 1 .. Len(indexed) : Defines(indexed[i], n)}
      BY <2>4 DEF Numbered
    <3>2. ASSUME NEW n \in adopted PROVE n \in NamesOf(sources.def_file)
      <4>1. n \in Names /\ \E i \in DOMAIN indexed : Defines(indexed[i], n)
        BY <1>1, <1>8 DEF TypesOK, Indexed
      <4>2. DOMAIN indexed = 1 .. Len(indexed)
        BY <1>5
      <4> QED
        BY <3>1, <4>1, <4>2
    <3> QED
      BY <3>2 DEF NamesOf
  <2>8. ASSUME NEW e \in chosen PROVE e.name \in adopted /\ files[e.file] = definitions'[e.name].from
    <3>1. PICK i \in 1 .. Len(indexed) : FirstAt(indexed, i, e.name) /\ files[e.file] = indexed[i]
      BY <2>4 DEF Numbered
    <3>2. OriginOf(indexed, e.name) = indexed[i]
      BY <1>5, <3>1, FirstIsOrigin
    <3> QED
      BY <1>14, <3>1, <3>2
  <2> HIDE DEF chosen
  <2>9. walk \in Seq(chosen) /\ ToSet(walk) = chosen /\ DOMAIN walk = 1 .. Len(walk)
    BY <2>6, SequencesOfSet DEF Orders
  <2>10. s \in PublishedSources /\ Renumbered(files, walk, Len(walk), s)
    <3>1. walk \in Seq(Located(files))
      BY <2>6, <2>9
    <3> QED
      BY <2>3, <2>5, <3>1, PublishFacts
  <2> HIDE DEF files
  <2>11. \A i \in 1 .. Len(walk) : walk[i] \in chosen
    BY <2>9
  <2>12. NamesOf(def_file') = adopted
    <3>1. NamesOf(chosen) = {walk[i].name : i \in 1 .. Len(walk)}
      BY <2>9 DEF ToSet, NamesOf
    <3> QED
      BY <2>3, <2>7, <2>10, <3>1 DEF Renumbered
  <2>13. DOMAIN published' = 1 .. Len(published')
    <3>1. s.files \in Seq(Files)
      BY <2>10 DEF PublishedSources
    <3> QED
      BY <2>3, <3>1
  <2>14. ASSUME NEW e \in def_file'
         PROVE  e.file \in DOMAIN published' /\ published'[e.file] = definitions'[e.name].from /\ e.name \in adopted
    BY <2>3, <2>8, <2>10, <2>11, <2>13 DEF Renumbered
  <2>15. ASSUME NEW p \in DOMAIN published' PROVE \E n \in adopted : published'[p] = definitions'[n].from
    BY <2>3, <2>8, <2>10, <2>11, <2>13 DEF Renumbered
  <2>16. ASSUME NEW n \in adopted PROVE \E p \in DOMAIN published' : published'[p] = definitions'[n].from
    <3>1. PICK e \in def_file' : e.name = n
      BY <2>12 DEF NamesOf
    <3> QED
      BY <2>14, <3>1
  <2>17. ToSet(published') = {definitions'[n].from : n \in adopted}
    BY <2>15, <2>16 DEF ToSet
  <2> QED
    BY <1>1, <2>12, <2>14, <2>17 DEF SourcesTrue
<1> QED
  BY <1>15, <1>16, <1>17, <1>20, <1>21, <1>22, <1>23 DEF IInv

\* No step of the search breaks the invariant.
LEMMA NextInv == IInv /\ [Next]_vars => IInv'
<1> SUFFICES ASSUME IInv, [Next]_vars PROVE IInv'
  OBVIOUS
<1>1. CASE Seed
  BY <1>1, SeedInv
<1>2. CASE Skip
  BY <1>2, SkipInv
<1>3. CASE Resolve
  BY <1>3, ResolveInv
<1>4. CASE Finish
  BY <1>4, FinishInv
<1>5. CASE UNCHANGED vars
  <2>1. TypesOK' /\ NothingSkipped' /\ NamesTracked'
    BY <1>5 DEF IInv, TypesOK, NothingSkipped, NamesTracked, vars, Readable, Instantiated
  <2>2. Registry'
    <3>1. /\ text' = text /\ design' = design /\ definitions' = definitions /\ scanned' = scanned
          /\ adopted' = adopted /\ phase' = phase
      BY <1>5 DEF vars
    <3>2. \A f, n : Defines(f, n)' <=> Defines(f, n)
      BY <3>1 DEF Defines, Readable
    <3>3. \A n : (Indexed(scanned, n)' <=> Indexed(scanned, n)) /\ OriginOf(scanned, n)' = OriginOf(scanned, n)
      BY <3>1, <3>2 DEF Indexed, OriginOf, Defines, Readable
    <3> QED
      BY <3>1, <3>3 DEF IInv, Registry
  <2>3. WorkNeeded'
    BY <1>5 DEF IInv, WorkNeeded, vars, NeededBeside
  <2>4. SearchComplete' /\ SourcesTrue'
    BY <1>5 DEF IInv, SearchComplete, SourcesTrue, vars, Done, Readable, Instantiated
  <2> QED
    BY <2>1, <2>2, <2>3, <2>4 DEF IInv
<1> QED
  BY <1>1, <1>2, <1>3, <1>4, <1>5 DEF Next

-----------------------------------------------------------------------------
(* The theorems *)

\* Every state the search reaches satisfies the inductive invariant, its type
\* correctness included.
THEOREM Invariance == Spec => []IInv
<1>1. Init => IInv
  BY InitInv
<1>2. IInv /\ [Next]_vars => IInv'
  BY NextInv
<1> QED
  BY <1>1, <1>2, PTL DEF Spec

\* For any libraries, any design and any order the directories and the worklist
\* are walked in, the search adopts exactly what the design needs.
THEOREM SearchIsExact == Spec => []SearchExact
<1>1. IInv => SearchExact
  <2> SUFFICES ASSUME IInv PROVE SearchExact
    OBVIOUS
  <2>1. TypesOK /\ Registry /\ WorkNeeded /\ SearchComplete
    BY DEF IInv
  <2>2. adopted \subseteq Names \ DOMAIN design.defs
    BY <2>1 DEF TypesOK, Registry
  <2>3. ASSUME NEW S \in SUBSET adopted, S \cap NeededBeside(S) = {} PROVE S = {}
    BY <2>1, <2>2, <2>3 DEF WorkNeeded
  <2> QED
    BY <2>1, <2>3 DEF SearchExact, OnlyNeeded, Registry
<1> QED
  BY <1>1, Invariance, PTL

\* For any libraries, designs and orders, what is published names the file every
\* adopted definition came from, and no other file.
THEOREM SourcesAreTrue == Spec => []SourcesTrue
<1>1. IInv => SourcesTrue
  BY DEF IInv
<1> QED
  BY <1>1, Invariance, PTL
=============================================================================
