---------------------------- MODULE ResultStream ----------------------------
(***************************************************************************)
(* What ArxivClientSource.results promises the crawl of a feed, without    *)
(* requests, retries, pages and offsets: a stream of the papers that arXiv *)
(* listed when it started, newest first, while that list changes.  A paper *)
(* that stays where it was is not yielded before those above it, so that a *)
(* crawl that stops at its cutoff has read what is newer.  The stream ends *)
(* when it has left out no more papers than entered the list meanwhile, or *)
(* raises.  ArxivClient implements it, see ArxivClient!StreamSpec.         *)
(***************************************************************************)
EXTENDS Integers, Sequences, SequencesExt, FiniteSets

CONSTANTS
  Papers,
  Partial    \* papers whose entries lack a field: they are skipped

VARIABLES
  first,     \* the list the stream started from
  entered,   \* how many papers entered the list since
  moved,     \* papers that moved to its top since
  full,      \* arXiv sent no page shorter than the list
  yielded,
  state

list == <<first, entered, moved, full>>
vars == <<list, yielded, state>>

Init ==
  /\ first = <<>> /\ entered = 0 /\ moved = {} /\ full = TRUE
  /\ yielded = {} /\ state = "open"

\* The first page is answered; when it is empty, possibly again.
Start ==
  /\ state = "open" /\ yielded = {}
  /\ first' \in Seq(Papers) /\ IsInjective(first')
  /\ entered' = 0 /\ moved' = {} /\ full' \in {full, FALSE}
  /\ UNCHANGED <<yielded, state>>

\* The list changes; a page is cut short.
Enter ==
  /\ state = "open" /\ entered' = entered + 1
  /\ UNCHANGED <<first, moved, full, yielded, state>>

Move ==
  /\ state = "open" /\ \E p \in Papers : moved' = moved \union {p}
  /\ UNCHANGED <<first, entered, full, yielded, state>>

Shorten ==
  /\ state = "open" /\ full' = FALSE
  /\ UNCHANGED <<first, entered, moved, yielded, state>>

LeftOut == {i \in DOMAIN first : first[i] \notin yielded \union moved \union Partial}

\* What is left out is a tail: below it nothing has been yielded.
InOrder ==
  \A i \in LeftOut : \A j \in DOMAIN first : j > i => j \in LeftOut \/ first[j] \in moved \union Partial

Complete == full => Cardinality(LeftOut) <= entered

\* A page of papers; with the last one the stream ends.
Yield ==
  /\ state = "open"
  /\ \E page \in SUBSET (Papers \ Partial) : yielded' = yielded \union page
  /\ UNCHANGED list
  /\ InOrder'
  /\ \/ UNCHANGED state
     \/ state' = "exhausted" /\ Complete'

Raise ==
  /\ state = "open" /\ state' = "raised"
  /\ UNCHANGED <<list, yielded>>

Next == Start \/ Enter \/ Move \/ Shorten \/ Yield \/ Raise

Spec == Init /\ [][Next]_vars
=============================================================================
