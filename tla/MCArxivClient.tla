--------------------------- MODULE MCArxivClient ---------------------------
(* Instances of ArxivClient for TLC.                                       *)
EXTENDS ArxivClient, TLC

\* The second paper to enter the results has an incomplete entry.
SecondPartial == {2}
=============================================================================
