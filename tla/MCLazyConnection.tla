-------------------------- MODULE MCLazyConnection --------------------------
(* LazyConnection for TLC.                                                 *)
EXTENDS LazyConnection, TLC

CONSTANTS c1, c2, c3

\* Calls whose metadata is signed alike are interchangeable.
Symmetry == Permutations(Signed) \cup Permutations(Calls \ Signed)
=============================================================================
