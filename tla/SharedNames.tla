---------------------------- MODULE SharedNames ----------------------------
(***************************************************************************)
(* The shared hierarchical names of src/shared_names.rs: a thread-local    *)
(* index of weak pointers to name text, open only while a RegistryScope is *)
(* held (elaboration, artifact loading), and the names (SharedName, an     *)
(* Arc<String>) that own the text and outlive the index.                   *)
(*                                                                         *)
(* A handle stands for one SharedName value somewhere in the program, an   *)
(* address for one Arc allocation.  The allocation's text dies with its    *)
(* last handle; its memory can be used again only when no weak pointer to  *)
(* it is left either.                                                      *)
(***************************************************************************)
EXTENDS Naturals, FiniteSets

CONSTANTS Text,      \* the texts of names
          Hash,      \* the values of the hash function
          HashOf,    \* DeterministicState on each text; it may collide
          Addr,      \* addresses an Arc can be allocated at
          Handle,    \* SharedName values the program can hold
          None,      \* no address
          MaxDepth   \* bound on nested registry scopes

ASSUME NamesAssumption == /\ Text # {}
                          /\ HashOf \in [Text -> Hash]
                          /\ None \notin Addr
                          /\ MaxDepth \in Nat

VARIABLES primary,     \* NameRegistry.primary: hash -> weak pointer
          collisions,  \* NameRegistry.collisions: hash -> weak pointers; no
                       \* entry and an empty one are both {}
          depth,       \* SCOPE_DEPTH
          names,       \* the allocation behind each handle
          text,        \* the text in each allocation
          asked,       \* history: the text each handle was made from
          scoped       \* history: allocations made since the outermost open
                       \* scope began

index == <<primary, collisions>>
heap == <<names, text, asked>>
vars == <<index, depth, heap, scoped>>

TypeOK ==
  /\ primary \in [Hash -> Addr \cup {None}]
  /\ collisions \in [Hash -> SUBSET Addr]
  /\ depth \in 0..MaxDepth
  /\ names \in [Handle -> Addr \cup {None}]
  /\ text \in [Addr -> Text]
  /\ asked \in [Handle -> Text]
  /\ scoped \in SUBSET Addr

Init ==
  /\ primary = [x \in Hash |-> None]
  /\ collisions = [x \in Hash |-> {}]
  /\ depth = 0
  /\ names = [h \in Handle |-> None]
  /\ text = [a \in Addr |-> CHOOSE t \in Text : TRUE]   \* of no allocation
  /\ asked = [h \in Handle |-> CHOOSE t \in Text : TRUE] \* of no name
  /\ scoped = {}

-----------------------------------------------------------------------------
(* Arc and Weak *)

\* Weak::upgrade succeeds: some handle still owns the text.
Live(a) == \E h \in Handle : names[h] = a

\* The index `p`, `c` keeps the memory of `a` from being used again.
Pinned(p, c, a) == \E x \in Hash : p[x] = a \/ a \in c[x]

\* Arc::new: text `t` in fresh memory, owned by handle `h`, while the index
\* is `p`, `c`.
New(h, t, a, p, c) ==
  /\ ~Live(a)
  /\ ~Pinned(p, c, a)
  /\ names' = [names EXCEPT ![h] = a]
  /\ text' = [text EXCEPT ![a] = t]
  /\ asked' = [asked EXCEPT ![h] = t]

\* Another handle `h` on the live allocation `a`, for text `t`.
Share(h, t, a) ==
  /\ names' = [names EXCEPT ![h] = a]
  /\ asked' = [asked EXCEPT ![h] = t]
  /\ UNCHANGED text

-----------------------------------------------------------------------------
(* Scopes *)

\* reset_registry
ResetRegistry ==
  /\ primary' = [x \in Hash |-> None]
  /\ collisions' = [x \in Hash |-> {}]

\* The index starts empty at the outermost scope; nested scopes reuse it.
ResetIfOutermost(d) == IF d = 0 THEN ResetRegistry ELSE UNCHANGED index

OpenScope ==
  /\ depth < MaxDepth
  /\ ResetIfOutermost(depth)
  /\ depth' = depth + 1
  /\ scoped' = IF depth = 0 THEN {} ELSE scoped
  /\ UNCHANGED heap

\* Mutant: the last scope leaves its index behind.
CloseScopeKeeps ==
  /\ depth > 0
  /\ depth' = depth - 1
  /\ scoped' = IF depth = 1 THEN {} ELSE scoped
  /\ UNCHANGED <<index, heap>>

\* <RegistryScope as Drop>::drop, on return, on an early error or on a panic.
CloseScope ==
  /\ depth > 0
  /\ depth' = depth - 1
  /\ IF depth - 1 = 0 THEN ResetRegistry ELSE UNCHANGED index
  /\ scoped' = IF depth = 1 THEN {} ELSE scoped
  /\ UNCHANGED heap

-----------------------------------------------------------------------------
(* Interning a name: From<&str>, From<String>, Deserialize, map inserts *)

\* SharedName::intern with no scope open.
InternUnscoped(h, t) ==
  /\ depth = 0
  /\ names[h] = None
  /\ \E a \in Addr : New(h, t, a, primary, collisions)
  /\ UNCHANGED <<index, depth, scoped>>

\* NameRegistry::intern, the hash is new.
InternVacant(h, t) ==
  /\ depth > 0
  /\ names[h] = None
  /\ primary[HashOf[t]] = None
  /\ \E a \in Addr :
       /\ New(h, t, a, primary, collisions)
       /\ primary' = [primary EXCEPT ![HashOf[t]] = a]
       /\ scoped' = scoped \cup {a}
  /\ UNCHANGED <<collisions, depth>>

\* Mutant: equal hashes are taken for equal names.
HitHashOnly(p, t) == p # None /\ Live(p)

\* The weak pointer `p` leads to live text equal to `t`.
Hit(p, t) == p # None /\ Live(p) /\ text[p] = t

\* NameRegistry::intern, the first name seen with this hash is the one.
InternPrimary(h, t) ==
  /\ depth > 0
  /\ names[h] = None
  /\ Hit(primary[HashOf[t]], t)
  /\ Share(h, t, primary[HashOf[t]])
  /\ UNCHANGED <<index, depth, scoped>>

\* What bucket.retain leaves of the bucket of hash `x`.
Retained(x) == {a \in collisions[x] : Live(a)}

\* NameRegistry::intern, the name is in the bucket of colliding names.
InternBucket(h, t) ==
  /\ depth > 0
  /\ names[h] = None
  /\ primary[HashOf[t]] # None
  /\ ~Hit(primary[HashOf[t]], t)
  /\ \E a \in Retained(HashOf[t]) : text[a] = t /\ Share(h, t, a)
  /\ collisions' = [collisions EXCEPT ![HashOf[t]] = Retained(HashOf[t])]
  /\ UNCHANGED <<primary, depth, scoped>>

\* Mutant: a dead primary entry is reused before the bucket is searched.
MissDeadPrimaryFirst(x, t) ==
  \/ ~Live(primary[x])
  \/ \A a \in Retained(x) : text[a] # t

\* No live candidate of hash `x` has the text `t`.
Miss(x, t) == \A a \in Retained(x) : text[a] # t

\* Mutant: the new name takes the primary entry from a live one.
InternMissReplaces(h, t) ==
  /\ depth > 0
  /\ names[h] = None
  /\ primary[HashOf[t]] # None
  /\ ~Hit(primary[HashOf[t]], t)
  /\ Miss(HashOf[t], t)
  /\ \E a \in Addr : /\ New(h, t, a, primary, collisions)
                     /\ scoped' = scoped \cup {a}
                     /\ primary' = [primary EXCEPT ![HashOf[t]] = a]
  /\ UNCHANGED <<collisions, depth>>

\* NameRegistry::intern, every candidate misses: the new name takes over a
\* dead primary entry, or joins the bucket.
InternMiss(h, t) ==
  LET x == HashOf[t]
      kept == [collisions EXCEPT ![x] = Retained(x)]
  IN /\ depth > 0
     /\ names[h] = None
     /\ primary[x] # None
     /\ ~Hit(primary[x], t)
     /\ Miss(x, t)
     /\ \E a \in Addr :
          /\ New(h, t, a, primary, kept)
          /\ scoped' = scoped \cup {a}
          /\ \/ /\ ~Live(primary[x])
                /\ primary' = [primary EXCEPT ![x] = a]
                /\ collisions' = kept
             \/ /\ Live(primary[x])
                /\ primary' = primary
                /\ collisions' = [collisions EXCEPT ![x] = Retained(x) \cup {a}]
     /\ UNCHANGED depth

\* SharedName::clone
Clone(h, k) ==
  /\ names[h] # None
  /\ names[k] = None
  /\ Share(k, asked[h], names[h])
  /\ UNCHANGED <<index, depth, scoped>>

\* A SharedName is dropped or turned into a String.
Release(h) ==
  /\ names[h] # None
  /\ names' = [names EXCEPT ![h] = None]
  /\ UNCHANGED <<index, depth, text, asked, scoped>>

Intern(h, t) ==
  \/ InternUnscoped(h, t)
  \/ InternVacant(h, t)
  \/ InternPrimary(h, t)
  \/ InternBucket(h, t)
  \/ InternMiss(h, t)

Next ==
  \/ OpenScope
  \/ CloseScope
  \/ \E h \in Handle, t \in Text : Intern(h, t)
  \/ \E h, k \in Handle : Clone(h, k)
  \/ \E h \in Handle : Release(h)

Spec == Init /\ [][Next]_vars

-----------------------------------------------------------------------------
(* Properties *)

\* A handle keeps the text it was made from: colliding hashes, dead entries,
\* memory used again and closed scopes never give it another name
\* ("Equality always checks the complete string, regardless of hash").
TextKept == \A h \in Handle : names[h] # None => text[names[h]] = asked[h]

\* While a scope is open, equal names made in it share one allocation,
\* whatever died, collided or was interned in nested scopes in between.
Shared ==
  \A h, k \in Handle :
     (/\ names[h] \in scoped
      /\ names[k] \in scoped
      /\ asked[h] = asked[k]) => names[h] = names[k]

\* With no scope open the index is empty: names made at run time never
\* accumulate in it, and a finished elaboration leaves nothing behind.
ScopeFrees == depth = 0 => \A x \in Hash : primary[x] = None /\ collisions[x] = {}

\* A hash has colliding names only behind a primary entry; interning with a
\* vacant primary entry relies on it when it does not look into the bucket.
BucketBehindPrimary == \A x \in Hash : collisions[x] # {} => primary[x] # None

\* The index never leads a lookup astray: what it holds for a hash was made
\* in this scope and has that hash, and every live name made in this scope
\* can be found.
IndexFaithful ==
  /\ \A x \in Hash, a \in Addr :
       (primary[x] = a \/ a \in collisions[x]) =>
          a \in scoped /\ HashOf[text[a]] = x
  /\ \A a \in scoped : Live(a) =>
       \/ primary[HashOf[text[a]]] = a
       \/ a \in collisions[HashOf[text[a]]]
=============================================================================
