----------------------------- MODULE DumpStream -----------------------------
(***************************************************************************)
(* What a dump sink promises its caller: the file receives what was handed *)
(* over, in order, each item at most once, with no gap other than items a  *)
(* failed write dropped; and once the stream is closed nothing is owed.    *)
(* Items are numbered in the order in which they are handed over.          *)
(***************************************************************************)
EXTENDS Naturals, Sequences, SequencesExt

VARIABLES
  accepted,  \* number of items handed over
  dropped,   \* items that a failed write lost
  out,       \* the file
  closed     \* the stream is finished

streamVars == <<accepted, dropped, out, closed>>

Newest(s) == IF s = <<>> THEN 0 ELSE s[Len(s)]

\* s holds, in order, exactly the items up to n that were not dropped
Faithful(s, missing, n) ==
  /\ \A i, j \in DOMAIN s : i < j => s[i] < s[j]
  /\ ToSet(s) = 1..n \ missing

Init ==
  /\ accepted = 0
  /\ dropped = {}
  /\ out = <<>>
  /\ closed = FALSE

\* Items are handed over, and some that are owed reach the file or are dropped.
Transfer ==
  /\ ~closed
  /\ accepted' \in Nat /\ accepted' >= accepted
  /\ dropped \subseteq dropped'
  /\ dropped' \ dropped \subseteq Newest(out) + 1 .. accepted'
  /\ IsPrefix(out, out')
  /\ Newest(out') <= accepted'
  /\ Faithful(out', dropped', Newest(out'))
  /\ UNCHANGED closed

\* The last of what is owed reaches the file, or is dropped.
Close ==
  /\ ~closed
  /\ closed' = TRUE
  /\ dropped \subseteq dropped'
  /\ IsPrefix(out, out')
  /\ Faithful(out', dropped', accepted)
  /\ UNCHANGED accepted

Next == Transfer \/ Close

Spec == Init /\ [][Next]_streamVars
=============================================================================
