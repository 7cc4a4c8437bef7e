---------------------------- MODULE MCHighlights ----------------------------
(* Instances of Highlights for TLC: two tabs, two versions of the PDF.     *)
EXTENDS Highlights, TLC

CONSTANTS t1, t2, d1, d2

HighlightsSymmetry == Permutations({t1, t2}) \union Permutations({d1, d2})
=============================================================================
