--------------------------- MODULE MCNoteEditing ---------------------------
(* Instances of NoteEditing for TLC: two pages, in one browser or in two.  *)
EXTENDS NoteEditing, TLC

CONSTANTS t1, t2, b1, b2
OneBrowser  == (t1 :> b1) @@ (t2 :> b1)
TwoBrowsers == (t1 :> b1) @@ (t2 :> b2)


PageSymmetry == Permutations({t1, t2})
=============================================================================
