---------------------------- MODULE MCFeedSync ----------------------------
(* Instances of FeedSync for TLC: one paper both keywords find, one that   *)
(* only the first finds.                                                   *)
EXTENDS FeedSync, TLC

CONSTANTS p1, p2, kA, kB
MCMatches == (p1 :> {kA, kB}) @@ (p2 :> {kA})
=============================================================================
