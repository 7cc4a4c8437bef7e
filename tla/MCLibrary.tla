----------------------------- MODULE MCLibrary -----------------------------
(* Instances of Library for TLC: two requests, two papers, two group names. *)
EXTENDS Library, TLC

CONSTANTS t1, t2, p1, p2, n1, n2

LibrarySymmetry ==
  Permutations({t1, t2}) \union Permutations({p1, p2}) \union Permutations({n1, n2})
=============================================================================
