----------------------------- MODULE MCPdfCache -----------------------------
(* Instances of PdfCache for TLC.                                          *)
EXTENDS PdfCache, TLC

ThreadSymmetry == Permutations(Openers) \union Permutations(Updaters)
=============================================================================
