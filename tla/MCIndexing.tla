----------------------------- MODULE MCIndexing -----------------------------
(* Instances of Indexing for TLC.                                          *)
EXTENDS Indexing, TLC
=============================================================================
