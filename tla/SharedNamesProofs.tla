------------------------- MODULE SharedNamesProofs -------------------------
(***************************************************************************)
(* The invariants of SharedNames, for every hash function and any bounds.  *)
(*                                                                         *)
(* Shared is not inductive alone: that a missed lookup creates no second   *)
(* allocation needs IndexFaithful (a live name of the scope can be found   *)
(* under its hash), which needs TextKept and BucketBehindPrimary, and the  *)
(* outermost scope needs ScopeFrees.                                       *)
(***************************************************************************)
EXTENDS SharedNames, TLAPS

\* With no scope open no allocation counts as made in a scope.
Unscoped == depth = 0 => scoped = {}

IInv ==
  /\ TypeOK
  /\ TextKept
  /\ Shared
  /\ ScopeFrees
  /\ BucketBehindPrimary
  /\ IndexFaithful
  /\ Unscoped

\* The program starts with an empty index and no names.
LEMMA InitInv == Init => IInv
<1> SUFFICES ASSUME Init PROVE IInv
  OBVIOUS
<1>1. PICK t0 \in Text : t0 = CHOOSE t \in Text : TRUE
  BY NamesAssumption
<1>2. TypeOK
  BY <1>1, NamesAssumption DEF Init, TypeOK
<1>3. TextKept /\ Shared /\ ScopeFrees /\ BucketBehindPrimary /\ IndexFaithful /\ Unscoped
  BY NamesAssumption DEF Init, TextKept, Shared, ScopeFrees, BucketBehindPrimary,
     IndexFaithful, Unscoped
<1> QED
  BY <1>2, <1>3 DEF IInv

\* registry_scope keeps the invariant: the outermost scope starts with
\* nothing, a nested one changes only the depth.
LEMMA OpenScopeInv == IInv /\ OpenScope => IInv'
<1> SUFFICES ASSUME IInv, OpenScope PROVE IInv'
  OBVIOUS
<1> USE NamesAssumption
<1>1. CASE depth = 0
  <2>1. /\ primary' = [x \in Hash |-> None]
        /\ collisions' = [x \in Hash |-> {}]
        /\ depth' = 1 /\ scoped' = {} /\ names' = names /\ text' = text /\ asked' = asked
        /\ depth < MaxDepth
    BY <1>1 DEF OpenScope, ResetIfOutermost, ResetRegistry, heap
  <2>2. TypeOK'
    BY <2>1, <1>1 DEF IInv, TypeOK
  <2>3. TextKept' /\ Shared' /\ ScopeFrees' /\ BucketBehindPrimary' /\ IndexFaithful' /\ Unscoped'
    BY <2>1 DEF IInv, TextKept, Shared, ScopeFrees, BucketBehindPrimary, IndexFaithful, Unscoped
  <2> QED
    BY <2>2, <2>3 DEF IInv
<1>2. CASE depth # 0
  <2>1. /\ UNCHANGED <<primary, collisions, names, text, asked, scoped>>
        /\ depth' = depth + 1
        /\ depth < MaxDepth
    BY <1>2 DEF OpenScope, ResetIfOutermost, index, heap
  <2>2. TypeOK'
    BY <2>1, <1>2 DEF IInv, TypeOK
  <2>3. depth' # 0
    BY <2>1 DEF IInv, TypeOK
  <2>4. TextKept' /\ Shared' /\ ScopeFrees' /\ BucketBehindPrimary' /\ IndexFaithful' /\ Unscoped'
    BY <2>1, <2>3 DEF IInv, TextKept, Shared, ScopeFrees, BucketBehindPrimary, IndexFaithful, Live, Unscoped
  <2> QED
    BY <2>2, <2>4 DEF IInv
<1> QED
  BY <1>1, <1>2

\* Dropping a RegistryScope keeps the invariant.
LEMMA CloseScopeInv == IInv /\ CloseScope => IInv'
<1> SUFFICES ASSUME IInv, CloseScope PROVE IInv'
  OBVIOUS
<1> USE NamesAssumption
<1>1. CASE depth = 1
  <2>1. /\ primary' = [x \in Hash |-> None]
        /\ collisions' = [x \in Hash |-> {}]
        /\ depth' = 0 /\ scoped' = {} /\ names' = names /\ text' = text /\ asked' = asked
    BY <1>1 DEF CloseScope, ResetRegistry, heap
  <2>2. TypeOK'
    BY <2>1, <1>1 DEF IInv, TypeOK
  <2>3. TextKept' /\ Shared' /\ ScopeFrees' /\ BucketBehindPrimary' /\ IndexFaithful' /\ Unscoped'
    BY <2>1 DEF IInv, TextKept, Shared, ScopeFrees, BucketBehindPrimary, IndexFaithful, Unscoped
  <2> QED
    BY <2>2, <2>3 DEF IInv
<1>2. CASE depth # 1
  <2>0. depth \in Nat /\ depth \in 0..MaxDepth
    BY DEF IInv, TypeOK
  <2>1. /\ UNCHANGED <<primary, collisions, names, text, asked, scoped>>
        /\ depth' = depth - 1
        /\ depth > 0
    BY <1>2, <2>0 DEF CloseScope, index, heap
  <2>2. TypeOK'
    BY <2>0, <2>1, <1>2 DEF IInv, TypeOK
  <2>3. depth' # 0
    BY <2>0, <2>1, <1>2
  <2>4. TextKept' /\ Shared' /\ ScopeFrees' /\ BucketBehindPrimary' /\ IndexFaithful' /\ Unscoped'
    BY <2>1, <2>3 DEF IInv, TextKept, Shared, ScopeFrees, BucketBehindPrimary, IndexFaithful, Live, Unscoped
  <2> QED
    BY <2>2, <2>4 DEF IInv
<1> QED
  BY <1>1, <1>2

-----------------------------------------------------------------------------
(* Names *)

\* A step that makes handle `h` of text `t` and of a fresh allocation `a`,
\* seen from the heap.
Fresh(h, t, a) ==
  /\ \A k \in Handle : names[k] # a
  /\ names' = [names EXCEPT ![h] = a]
  /\ text' = [text EXCEPT ![a] = t]
  /\ asked' = [asked EXCEPT ![h] = t]

\* Handles keep their text when one is made on fresh memory.
LEMMA FreshKeepsText ==
  ASSUME NEW h \in Handle, NEW t \in Text, NEW a \in Addr, TypeOK, TextKept, Fresh(h, t, a)
  PROVE  TextKept'
<1> SUFFICES ASSUME NEW k \in Handle, names'[k] # None PROVE text'[names'[k]] = asked'[k]
  BY DEF TextKept
<1>1. CASE k = h
  BY <1>1 DEF Fresh, TypeOK
<1>2. CASE k # h
  BY <1>2 DEF Fresh, TypeOK, TextKept
<1> QED
  BY <1>1, <1>2

\* Handles keep their text when one more is made on a live allocation.
LEMMA ShareKeepsText ==
  ASSUME NEW h \in Handle, NEW t \in Text, NEW a \in Addr, TypeOK, TextKept,
         text[a] = t, Share(h, t, a)
  PROVE  TextKept'
BY DEF Share, TypeOK, TextKept

\* SharedName::intern without a scope.
LEMMA InternUnscopedInv ==
  ASSUME NEW h \in Handle, NEW t \in Text, IInv, InternUnscoped(h, t)
  PROVE  IInv'
<1> USE NamesAssumption
<1>1. PICK a \in Addr : New(h, t, a, primary, collisions)
  BY DEF InternUnscoped
<1>2. /\ Fresh(h, t, a)
      /\ UNCHANGED <<primary, collisions, depth, scoped>>
      /\ depth = 0
  BY <1>1 DEF New, Live, Fresh, InternUnscoped, index
<1>3. TypeOK'
  BY <1>2 DEF Fresh, IInv, TypeOK
<1>4. TextKept'
  BY <1>2, FreshKeepsText DEF IInv
<1>5. scoped' = {}
  BY <1>2 DEF IInv, Unscoped
<1>6. \A x \in Hash : primary'[x] = None /\ collisions'[x] = {}
  BY <1>2 DEF IInv, ScopeFrees
<1>7. Shared' /\ ScopeFrees' /\ BucketBehindPrimary' /\ IndexFaithful' /\ Unscoped'
  BY <1>5, <1>6 DEF Shared, ScopeFrees, BucketBehindPrimary, IndexFaithful, Unscoped
<1> QED
  BY <1>3, <1>4, <1>7 DEF IInv

\* Equal names still share after a handle `h` was made on fresh memory, when
\* no live name of the scope has its text.
LEMMA FreshShares ==
  ASSUME NEW h \in Handle, NEW t \in Text, NEW a \in Addr, TypeOK, TextKept, Shared,
         Fresh(h, t, a), scoped' = scoped \cup {a}, names[h] = None,
         \A k \in Handle : names[k] \in scoped => text[names[k]] # t
  PROVE  Shared'
<1> USE NamesAssumption
<1> SUFFICES ASSUME NEW k \in Handle, NEW l \in Handle, names'[k] \in scoped', names'[l] \in scoped',
                    asked'[k] = asked'[l]
             PROVE  names'[k] = names'[l]
  BY DEF Shared
<1>1. \A j \in Handle : j # h => /\ names'[j] = names[j]
                                 /\ asked'[j] = asked[j]
                                 /\ names[j] # a
                                 /\ names'[j] \in scoped' => names[j] \in scoped
  BY DEF Fresh, TypeOK
<1>2. names'[h] = a /\ asked'[h] = t
  BY DEF Fresh, TypeOK
<1>3. \A j \in Handle : j # h /\ names'[j] \in scoped' => asked[j] # t
  BY <1>1 DEF TextKept, TypeOK
<1>4. CASE k # h /\ l # h
  BY <1>1, <1>4 DEF Shared
<1>5. CASE k = h \/ l = h
  BY <1>1, <1>2, <1>3, <1>5
<1> QED
  BY <1>4, <1>5

\* In a faithful index a live name of the scope is found under its hash.
LEMMA Found ==
  ASSUME NEW t \in Text, NEW k \in Handle, IndexFaithful, TypeOK,
         names[k] \in scoped, text[names[k]] = t
  PROVE  primary[HashOf[t]] = names[k] \/ names[k] \in Retained(HashOf[t])
<1>1. Live(names[k])
  BY DEF Live
<1> QED
  BY <1>1, NamesAssumption DEF IndexFaithful, TypeOK, Retained

\* NameRegistry::intern on a new hash.
LEMMA InternVacantInv ==
  ASSUME NEW h \in Handle, NEW t \in Text, IInv, InternVacant(h, t)
  PROVE  IInv'
<1> USE NamesAssumption
<1> DEFINE x0 == HashOf[t]
<1>1. PICK a \in Addr : /\ New(h, t, a, primary, collisions)
                        /\ primary' = [primary EXCEPT ![x0] = a]
                        /\ scoped' = scoped \cup {a}
  BY DEF InternVacant
<1>2. /\ Fresh(h, t, a)
      /\ primary' = [primary EXCEPT ![x0] = a]
      /\ scoped' = scoped \cup {a}
      /\ UNCHANGED <<collisions, depth>>
      /\ depth > 0
      /\ names[h] = None
      /\ primary[x0] = None
      /\ x0 \in Hash
      /\ ~Pinned(primary, collisions, a)
  BY <1>1 DEF New, Live, Fresh, InternVacant
<1>3. TypeOK'
  BY <1>2 DEF Fresh, IInv, TypeOK
<1>4. TextKept'
  BY <1>2, FreshKeepsText DEF IInv
<1>5. collisions[x0] = {}
  BY <1>2 DEF IInv, BucketBehindPrimary
<1>6. \A k \in Handle : names[k] \in scoped => text[names[k]] # t
  <2> SUFFICES ASSUME NEW k \in Handle, names[k] \in scoped, text[names[k]] = t PROVE FALSE
    OBVIOUS
  <2>1. primary[x0] = names[k] \/ names[k] \in Retained(x0)
    BY Found DEF IInv
  <2> QED
    BY <2>1, <1>2, <1>5 DEF Retained, IInv, TypeOK
<1>7. Shared'
  BY <1>2, <1>6, FreshShares DEF IInv
<1>8. ScopeFrees' /\ Unscoped'
  BY <1>2 DEF ScopeFrees, Unscoped
<1>9. BucketBehindPrimary'
  BY <1>2, <1>5 DEF BucketBehindPrimary, IInv, TypeOK
<1>10. IndexFaithful'
  <2>1. ASSUME NEW x \in Hash, NEW b \in Addr, primary'[x] = b \/ b \in collisions'[x]
        PROVE  b \in scoped' /\ HashOf[text'[b]] = x
    <3>1. CASE b = a
      BY <3>1, <2>1, <1>2 DEF Pinned, Fresh, IInv, TypeOK
    <3>2. CASE b # a
      <4>1. primary[x] = b \/ b \in collisions[x]
        BY <3>2, <2>1, <1>2 DEF IInv, TypeOK
      <4> QED
        BY <4>1, <3>2, <1>2 DEF Fresh, IInv, TypeOK, IndexFaithful
    <3> QED
      BY <3>1, <3>2
  <2>2. ASSUME NEW b \in scoped', \E k \in Handle : names'[k] = b
        PROVE  primary'[HashOf[text'[b]]] = b \/ b \in collisions'[HashOf[text'[b]]]
    <3>1. CASE b = a
      BY <3>1, <1>2 DEF Fresh, IInv, TypeOK
    <3>2. CASE b # a
      <4>1. b \in scoped /\ b \in Addr
        BY <3>2, <2>2, <1>2 DEF IInv, TypeOK
      <4>2. Live(b)
        BY <3>2, <2>2, <1>2 DEF Live, Fresh, IInv, TypeOK
      <4>3. primary[HashOf[text[b]]] = b \/ b \in collisions[HashOf[text[b]]]
        BY <4>1, <4>2 DEF IInv, IndexFaithful
      <4>4. text'[b] = text[b] /\ HashOf[text[b]] \in Hash
        BY <3>2, <4>1, <1>2 DEF Fresh, IInv, TypeOK
      <4>5. HashOf[text[b]] # x0
        BY <4>3, <4>1, <1>2, <1>5
      <4> QED
        BY <4>3, <4>4, <4>5, <1>2 DEF IInv, TypeOK
    <3> QED
      BY <3>1, <3>2
  <2> QED
    BY <2>1, <2>2 DEF IndexFaithful, Live
<1> QED
  BY <1>3, <1>4, <1>7, <1>8, <1>9, <1>10 DEF IInv

\* A step that adds a handle `h` for text `t` on the live allocation `a`, as
\* Clone and the successful lookups do, and leaves of the index at least
\* every live entry.
Sharing(h, t, a) ==
  /\ Live(a)
  /\ text[a] = t
  /\ a \in scoped \/ (\E k \in Handle : names[k] = a /\ asked[k] = t)
  /\ names[h] = None
  /\ Share(h, t, a)
  /\ UNCHANGED <<primary, depth, scoped>>
  /\ collisions' \in [Hash -> SUBSET Addr]
  /\ \A x \in Hash : /\ collisions'[x] \subseteq collisions[x]
                     /\ Retained(x) \subseteq collisions'[x]

LEMMA SharingInv ==
  ASSUME NEW h \in Handle, NEW t \in Text, NEW a \in Addr, IInv, Sharing(h, t, a)
  PROVE  IInv'
<1> USE NamesAssumption
<1>1. /\ Share(h, t, a)
      /\ UNCHANGED <<primary, depth, scoped, text>>
      /\ names' = [names EXCEPT ![h] = a]
      /\ asked' = [asked EXCEPT ![h] = t]
      /\ names[h] = None
      /\ text[a] = t
  BY DEF Sharing, Share
<1>2. \A x \in Hash : /\ collisions'[x] \subseteq collisions[x]
                      /\ Retained(x) \subseteq collisions'[x]
  BY DEF Sharing
<1>3. TypeOK'
  BY <1>1 DEF Sharing, IInv, TypeOK
<1>4. TextKept'
  BY <1>1, ShareKeepsText DEF IInv
<1>5. \A b \in Addr : (\E k \in Handle : names'[k] = b) => Live(b)
  <2> SUFFICES ASSUME NEW b \in Addr, NEW k \in Handle, names'[k] = b PROVE Live(b)
    OBVIOUS
  <2>1. CASE k = h
    BY <2>1, <1>1 DEF Sharing, IInv, TypeOK
  <2>2. CASE k # h
    BY <2>2, <1>1 DEF Live, IInv, TypeOK
  <2> QED
    BY <2>1, <2>2
<1>6. Shared'
  <2>1. \A k \in Handle : k # h => names'[k] = names[k] /\ asked'[k] = asked[k]
    BY <1>1 DEF IInv, TypeOK
  <2>2. names'[h] = a /\ asked'[h] = t
    BY <1>1 DEF IInv, TypeOK
  <2>3. PICK k0 \in Handle : names[k0] = a
    BY DEF Sharing, Live
  <2>4. asked[k0] = t
    BY <2>3, <1>1 DEF IInv, TextKept
  <2>5. \A k \in Handle : (names[k] \in scoped /\ a \in scoped /\ asked[k] = t) => names[k] = a
    BY <2>3, <2>4 DEF IInv, Shared
  <2> QED
    BY <2>1, <2>2, <2>5, <1>1 DEF IInv, Shared
<1>7. ScopeFrees' /\ Unscoped' /\ BucketBehindPrimary'
  BY <1>1, <1>2 DEF IInv, ScopeFrees, Unscoped, BucketBehindPrimary
<1>8. IndexFaithful'
  <2>1. ASSUME NEW x \in Hash, NEW b \in Addr, primary'[x] = b \/ b \in collisions'[x]
        PROVE  b \in scoped' /\ HashOf[text'[b]] = x
    BY <2>1, <1>1, <1>2 DEF IInv, IndexFaithful
  <2>2. ASSUME NEW b \in scoped', \E k \in Handle : names'[k] = b
        PROVE  primary'[HashOf[text'[b]]] = b \/ b \in collisions'[HashOf[text'[b]]]
    <3>1. b \in scoped /\ b \in Addr
      BY <2>2, <1>1 DEF IInv, TypeOK
    <3>2. Live(b)
      BY <2>2, <3>1, <1>5
    <3>3. HashOf[text[b]] \in Hash
      BY <3>1 DEF IInv, TypeOK
    <3>4. primary[HashOf[text[b]]] = b \/ b \in Retained(HashOf[text[b]])
      BY <3>1, <3>2, <3>3 DEF IInv, IndexFaithful, Retained
    <3> QED
      BY <3>3, <3>4, <1>1, <1>2
  <2> QED
    BY <2>1, <2>2 DEF IndexFaithful, Live
<1> QED
  BY <1>3, <1>4, <1>6, <1>7, <1>8 DEF IInv

\* NameRegistry::intern finds the name in the primary table.
LEMMA InternPrimaryInv ==
  ASSUME NEW h \in Handle, NEW t \in Text, IInv, InternPrimary(h, t)
  PROVE  IInv'
<1> USE NamesAssumption
<1> DEFINE a == primary[HashOf[t]]
<1>1. /\ a \in Addr /\ Live(a) /\ text[a] = t /\ names[h] = None
      /\ Share(h, t, a)
      /\ UNCHANGED <<primary, collisions, depth, scoped>>
  BY DEF InternPrimary, Hit, IInv, TypeOK, index
<1>2. a \in scoped
  BY <1>1 DEF IInv, IndexFaithful
<1>3. Sharing(h, t, a)
  BY <1>1, <1>2 DEF Sharing, IInv, TypeOK, Retained
<1> QED
  BY <1>1, <1>3, SharingInv

\* NameRegistry::intern finds the name among the colliding ones.
LEMMA InternBucketInv ==
  ASSUME NEW h \in Handle, NEW t \in Text, IInv, InternBucket(h, t)
  PROVE  IInv'
<1> USE NamesAssumption
<1>1. PICK a \in Retained(HashOf[t]) : text[a] = t /\ Share(h, t, a)
  BY DEF InternBucket
<1>2. /\ a \in Addr /\ Live(a) /\ names[h] = None
      /\ a \in collisions[HashOf[t]]
      /\ UNCHANGED <<primary, depth, scoped>>
      /\ collisions' = [collisions EXCEPT ![HashOf[t]] = Retained(HashOf[t])]
  BY <1>1 DEF InternBucket, Retained, IInv, TypeOK
<1>3. a \in scoped
  BY <1>2 DEF IInv, IndexFaithful
<1>4. \A x \in Hash : Retained(x) \subseteq collisions[x]
  BY DEF Retained
<1>5. Sharing(h, t, a)
  BY <1>1, <1>2, <1>3, <1>4 DEF Sharing, IInv, TypeOK
<1> QED
  BY <1>2, <1>5, SharingInv

\* SharedName::clone
LEMMA CloneInv ==
  ASSUME NEW h \in Handle, NEW k \in Handle, IInv, Clone(h, k)
  PROVE  IInv'
<1> USE NamesAssumption
<1>1. /\ names[h] \in Addr /\ asked[h] \in Text /\ names[k] = None
      /\ Share(k, asked[h], names[h])
      /\ UNCHANGED <<primary, collisions, depth, scoped>>
      /\ text[names[h]] = asked[h]
  BY DEF Clone, IInv, TypeOK, TextKept, index
<1>2. Live(names[h])
  BY DEF Live
<1>3. Sharing(k, asked[h], names[h])
  BY <1>1, <1>2 DEF Sharing, IInv, TypeOK, Retained
<1> QED
  BY <1>1, <1>3, SharingInv

\* A name is dropped.
LEMMA ReleaseInv ==
  ASSUME NEW h \in Handle, IInv, Release(h)
  PROVE  IInv'
<1> USE NamesAssumption
<1>1. /\ names' = [names EXCEPT ![h] = None]
      /\ UNCHANGED <<primary, collisions, depth, text, asked, scoped>>
  BY DEF Release, index
<1>2. TypeOK'
  BY <1>1 DEF IInv, TypeOK
<1>3. \A k \in Handle : names'[k] # None => names'[k] = names[k]
  BY <1>1 DEF IInv, TypeOK
<1>4. scoped \subseteq Addr
  BY DEF IInv, TypeOK
<1>5. TextKept' /\ Shared' /\ ScopeFrees' /\ BucketBehindPrimary' /\ Unscoped'
  BY <1>1, <1>3, <1>4 DEF IInv, TextKept, Shared, ScopeFrees, BucketBehindPrimary, Unscoped
<1>6. IndexFaithful'
  BY <1>1, <1>3, <1>4 DEF IInv, IndexFaithful, Live
<1> QED
  BY <1>2, <1>5, <1>6 DEF IInv

\* NameRegistry::intern misses: no live name of the scope has the text, so
\* the fresh allocation is the only one; it takes over a dead primary entry
\* or joins the live entries of the bucket.
LEMMA InternMissInv ==
  ASSUME NEW h \in Handle, NEW t \in Text, IInv, InternMiss(h, t)
  PROVE  IInv'
<1> USE NamesAssumption
<1> DEFINE x0 == HashOf[t]
           kept == [collisions EXCEPT ![x0] = Retained(x0)]
<1>0. /\ names[h] = None
      /\ primary[x0] # None
      /\ ~Hit(primary[x0], t)
      /\ Miss(x0, t)
      /\ depth > 0 /\ depth' = depth
      /\ x0 \in Hash
  BY DEF InternMiss
<1>1. PICK a \in Addr :
          /\ New(h, t, a, primary, kept)
          /\ scoped' = scoped \cup {a}
          /\ \/ /\ ~Live(primary[x0])
                /\ primary' = [primary EXCEPT ![x0] = a]
                /\ collisions' = kept
             \/ /\ Live(primary[x0])
                /\ primary' = primary
                /\ collisions' = [collisions EXCEPT ![x0] = Retained(x0) \cup {a}]
  BY DEF InternMiss
<1>2. Fresh(h, t, a) /\ ~Pinned(primary, kept, a)
  BY <1>1 DEF New, Live, Fresh
<1>r. Retained(x0) \subseteq collisions[x0] /\ Retained(x0) \subseteq Addr
  BY <1>0 DEF Retained, IInv, TypeOK
<1>3. TypeOK'
  <2>1. /\ names' \in [Handle -> Addr \cup {None}] /\ text' \in [Addr -> Text]
        /\ asked' \in [Handle -> Text] /\ scoped' \in SUBSET Addr /\ depth' \in 0..MaxDepth
    BY <1>0, <1>1, <1>2 DEF Fresh, IInv, TypeOK
  <2>2. primary' \in [Hash -> Addr \cup {None}] /\ collisions' \in [Hash -> SUBSET Addr]
    BY <1>0, <1>1, <1>r DEF IInv, TypeOK
  <2> QED
    BY <2>1, <2>2 DEF TypeOK
<1>4. TextKept'
  BY <1>2, FreshKeepsText DEF IInv
<1>5. \A k \in Handle : names[k] \in scoped => text[names[k]] # t
  <2> SUFFICES ASSUME NEW k \in Handle, names[k] \in scoped, text[names[k]] = t PROVE FALSE
    OBVIOUS
  <2>1. primary[x0] = names[k] \/ names[k] \in Retained(x0)
    BY Found DEF IInv
  <2>2. Live(names[k])
    BY DEF Live
  <2> QED
    BY <2>1, <2>2, <1>0 DEF Hit, Miss
<1>6. Shared'
  BY <1>0, <1>1, <1>2, <1>5, FreshShares DEF IInv
<1>7. ScopeFrees' /\ Unscoped'
  BY <1>0 DEF ScopeFrees, Unscoped
<1>8. \A x \in Hash : /\ primary'[x] \in {primary[x], a}
                      /\ collisions'[x] \subseteq collisions[x] \cup {a}
                      /\ primary[x] = None => primary'[x] = None \/ x = x0
                      /\ x # x0 => primary'[x] = primary[x] /\ collisions'[x] = collisions[x]
  BY <1>0, <1>1, <1>r DEF IInv, TypeOK
<1>9. BucketBehindPrimary'
  <2> SUFFICES ASSUME NEW x \in Hash, collisions'[x] # {} PROVE primary'[x] # None
    BY DEF BucketBehindPrimary
  <2>1. CASE x = x0
    BY <2>1, <1>0, <1>8
  <2>2. CASE x # x0
    BY <2>2, <1>8 DEF IInv, BucketBehindPrimary
  <2> QED
    BY <2>1, <2>2
<1>10. IndexFaithful'
  <2>1. ASSUME NEW x \in Hash, NEW b \in Addr, primary'[x] = b \/ b \in collisions'[x]
        PROVE  b \in scoped' /\ HashOf[text'[b]] = x
    <3>1. CASE b = a
      <4>1. ~(primary[x] = a \/ a \in kept[x])
        BY <1>2 DEF Pinned
      <4>2. x = x0
        BY <2>1, <3>1, <4>1, <1>8 DEF IInv, TypeOK
      <4> QED
        BY <3>1, <4>2, <1>1, <1>2 DEF Fresh, IInv, TypeOK
    <3>2. CASE b # a
      <4>1. primary[x] = b \/ b \in collisions[x]
        BY <3>2, <2>1, <1>8
      <4> QED
        BY <4>1, <3>2, <1>1, <1>2 DEF Fresh, IInv, TypeOK, IndexFaithful
    <3> QED
      BY <3>1, <3>2
  <2>2. ASSUME NEW b \in scoped', \E k \in Handle : names'[k] = b
        PROVE  primary'[HashOf[text'[b]]] = b \/ b \in collisions'[HashOf[text'[b]]]
    <3>1. CASE b = a
      <4>1. text'[b] = t
        BY <3>1, <1>2 DEF Fresh, IInv, TypeOK
      <4>2. primary'[x0] = a \/ a \in collisions'[x0]
        BY <1>0, <1>1 DEF IInv, TypeOK
      <4> QED
        BY <3>1, <4>1, <4>2
    <3>2. CASE b # a
      <4>1. b \in scoped /\ b \in Addr
        BY <3>2, <2>2, <1>1 DEF IInv, TypeOK
      <4>2. Live(b)
        BY <3>2, <2>2, <1>2 DEF Live, Fresh, IInv, TypeOK
      <4>3. primary[HashOf[text[b]]] = b \/ b \in Retained(HashOf[text[b]])
        BY <4>1, <4>2 DEF IInv, IndexFaithful, Retained
      <4>4. text'[b] = text[b] /\ HashOf[text[b]] \in Hash
        BY <3>2, <4>1, <1>2 DEF Fresh, IInv, TypeOK
      <4>5. CASE HashOf[text[b]] = x0
        <5>1. Retained(x0) \subseteq collisions'[x0]
          BY <1>0, <1>1 DEF IInv, TypeOK
        <5>2. primary[x0] = b => primary'[x0] = b
          BY <1>0, <1>1, <4>2 DEF IInv, TypeOK
        <5> QED
          BY <4>3, <4>4, <4>5, <5>1, <5>2
      <4>6. CASE HashOf[text[b]] # x0
        <5>1. b \in Retained(HashOf[text[b]]) => b \in collisions[HashOf[text[b]]]
          BY DEF Retained
        <5> QED
          BY <4>3, <4>4, <4>6, <5>1, <1>8
      <4> QED
        BY <4>5, <4>6
    <3> QED
      BY <3>1, <3>2
  <2> QED
    BY <2>1, <2>2 DEF IndexFaithful, Live
<1> QED
  BY <1>3, <1>4, <1>6, <1>7, <1>9, <1>10 DEF IInv

-----------------------------------------------------------------------------
(* Theorems *)

\* Every step keeps the inductive invariant.
LEMMA StepInv == IInv /\ [Next]_vars => IInv'
<1> SUFFICES ASSUME IInv, [Next]_vars PROVE IInv'
  OBVIOUS
<1>1. CASE OpenScope
  BY <1>1, OpenScopeInv
<1>2. CASE CloseScope
  BY <1>2, CloseScopeInv
<1>3. ASSUME NEW h \in Handle, NEW t \in Text, Intern(h, t) PROVE IInv'
  BY <1>3, InternUnscopedInv, InternVacantInv, InternPrimaryInv, InternBucketInv, InternMissInv
  DEF Intern
<1>4. ASSUME NEW h \in Handle, NEW k \in Handle, Clone(h, k) PROVE IInv'
  BY <1>4, CloneInv
<1>5. ASSUME NEW h \in Handle, Release(h) PROVE IInv'
  BY <1>5, ReleaseInv
<1>6. CASE UNCHANGED vars
  <2>1. UNCHANGED <<primary, collisions, depth, names, text, asked, scoped>>
    BY <1>6 DEF vars, index, heap
  <2>2. TypeOK'
    BY <2>1 DEF IInv, TypeOK
  <2>3. TextKept' /\ Shared' /\ ScopeFrees' /\ BucketBehindPrimary' /\ Unscoped'
    BY <2>1 DEF IInv, TextKept, Shared, ScopeFrees, BucketBehindPrimary, Unscoped
  <2>4. IndexFaithful'
    BY <2>1 DEF IInv, IndexFaithful, Live
  <2> QED
    BY <2>2, <2>3, <2>4 DEF IInv
<1> QED
  BY <1>1, <1>2, <1>3, <1>4, <1>5, <1>6 DEF Next

\* The inductive invariant holds in every reachable state.
THEOREM RegistryInvariance == Spec => []IInv
BY InitInv, StepInv, PTL DEF Spec

\* Every handle keeps the text it was made from (SharedName::intern compares
\* the whole text, never the hash alone).
THEOREM NamesKeepText == Spec => []TextKept
<1>1. IInv => TextKept
  BY DEF IInv
<1> QED
  BY <1>1, RegistryInvariance, PTL

\* Equal names made in one scope share one allocation, for every hash
\* function and every order of interning, dropping and nesting.
THEOREM NamesShared == Spec => []Shared
<1>1. IInv => Shared
  BY DEF IInv
<1> QED
  BY <1>1, RegistryInvariance, PTL

\* With no RegistryScope held the index holds nothing.
THEOREM RegistryFreed == Spec => []ScopeFrees
<1>1. IInv => ScopeFrees
  BY DEF IInv
<1> QED
  BY <1>1, RegistryInvariance, PTL

\* The index leads to the live names of the scope and to nothing else, and
\* no bucket is left without a primary entry.
THEOREM IndexCorrect == Spec => [](IndexFaithful /\ BucketBehindPrimary)
<1>1. IInv => IndexFaithful /\ BucketBehindPrimary
  BY DEF IInv
<1> QED
  BY <1>1, RegistryInvariance, PTL
=============================================================================
