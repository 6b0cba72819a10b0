--------------------------- MODULE MCSharedNames ---------------------------
(***************************************************************************)
(* Four texts under two hashes, three of them colliding.                   *)
(***************************************************************************)
EXTENDS SharedNames, TLC

CONSTANTS ta, tb, tc, td, x1, x2

MCText == {ta, tb, tc, td}
MCHash == {x1, x2}
MCHashOf == ta :> x1 @@ tb :> x1 @@ tc :> x1 @@ td :> x2
Symmetric == Permutations(Handle) \cup Permutations(Addr)
=============================================================================
