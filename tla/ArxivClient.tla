----------------------------- MODULE ArxivClient -----------------------------
(***************************************************************************)
(* ArxivClientSource (services/arxiv_sync.py): one client for the sync     *)
(* thread, which pages through the results of a feed with retries, and for *)
(* the request threads of interactive searches, which fetch one page each. *)
(* The requests of this client go through one lock and keep a distance in  *)
(* time; the results change while the crawl pages through them by offset.  *)
(*                                                                         *)
(* Not every request to arXiv is one of this client: import_arxiv_ids      *)
(* (services/imports.py:171) asks export.arxiv.org from the threads of     *)
(* pages and from commands, on a connection of its own, without the lock   *)
(* and the distance, and every process has a client of its own.  Nothing   *)
(* here is about those requests.                                           *)
(*                                                                         *)
(* Papers are numbered in the order they enter the results.  Results are   *)
(* listed newest first.  Time counts in units of which delay_seconds is    *)
(* Delay, and only up to there.                                            *)
(***************************************************************************)
EXTENDS Integers, Sequences, SequencesExt, FiniteSetsExt

CONSTANTS
  Crawler, Searchers,  \* the sync thread, and threads with a search: the users of the client
  NoOne,
  PageSize, Retries, Delay,
  Partial,             \* papers whose entries lack a field: they are skipped
  MaxListed,           \* bound: papers listed when the crawl starts
  MaxChanges,          \* bound: papers that enter the results, or move
  MaxSearches          \* bound: searches

ASSUME ClientAssumption ==
  /\ Crawler \notin Searchers /\ NoOne \notin {Crawler} \union Searchers
  /\ PageSize \in Nat \ {0} /\ Retries \in Nat /\ Delay \in Nat
  /\ MaxListed \in Nat /\ MaxChanges \in Nat /\ MaxSearches \in Nat

Threads == {Crawler} \union Searchers
NoTotal == -1

VARIABLES
  listing,    \* arXiv: the results of the crawl's query
  changes,
  lock,       \* _request_lock
  elapsed,    \* time since _last_request_completed; Delay also for None
  quiet,      \* history: time since a request really ended
  pc,
  attempt, empties, offset, total, \* of the crawl
  answer,     \* what session.get returned to the crawl
  yielded,    \* the papers the crawl has yielded (seen)
  searches,
  base,       \* history: the listing when the first page was answered
  added,      \* history: how many papers entered the results since
  moved,      \* history: papers that moved since
  truthful,   \* history: arXiv sent no page shorter than its results
  stamped     \* history: the last request that ended set _last_request_completed

arxiv   == <<listing, changes, base, added, moved>>
clock   == <<elapsed, quiet>>
crawl   == <<offset, total, yielded>>
vars    == <<arxiv, clock, crawl, lock, pc, attempt, empties, answer, searches, truthful, stamped>>

Papers    == 1..(MaxListed + MaxChanges)
NoAnswer  == [kind |-> "none"]
Listed(s) == ToSet(s)

TypeOK ==
  /\ listing \in Seq(Papers) /\ changes \in 0..MaxChanges
  /\ lock \in Threads \union {NoOne}
  /\ elapsed \in 0..Delay /\ quiet \in 0..Delay
  /\ pc \in [Threads -> {"idle", "ready", "locked", "sent", "answered", "waiting",
                         "done", "raised"}]
  /\ attempt \in 0..Retries /\ empties \in 0..2
  /\ answer.kind \in {"none", "page", "failed", "fatal"}
  /\ offset \in 0..Len(listing) /\ total \in NoTotal..Len(listing)
  /\ yielded \subseteq Listed(listing)
  /\ searches \in 0..MaxSearches
  /\ base \in Seq(Papers) /\ added \in 0..MaxChanges /\ moved \subseteq Papers
  /\ truthful \in BOOLEAN /\ stamped \in BOOLEAN

Init ==
  /\ \E n \in 0..MaxListed : listing = [i \in 1..n |-> n + 1 - i]
  /\ changes = 0
  /\ lock = NoOne
  /\ elapsed = Delay /\ quiet = Delay
  /\ pc = [t \in Threads |-> "idle"]
  /\ attempt = 0 /\ empties = 0 /\ answer = NoAnswer
  /\ offset = 0 /\ total = NoTotal /\ yielded = {}
  /\ searches = 0
  /\ base = <<>> /\ added = 0 /\ moved = {}
  /\ truthful = TRUE /\ stamped = TRUE

Transition(t, from, to) == pc[t] = from /\ pc' = [pc EXCEPT ![t] = to]

-----------------------------------------------------------------------------
(* arXiv's results change; time passes.                                    *)

\* What changes after the crawl concerns the next one.
Change ==
  /\ pc[Crawler] \notin {"done", "raised"}
  /\ changes < MaxChanges /\ changes' = changes + 1

\* A paper enters the results: on top, or below when it is indexed late.
Enter ==
  /\ Change
  /\ \E i \in 1..(Len(listing) + 1) : listing' = InsertAt(listing, i, Len(listing) + 1)
  /\ added' = added + 1
  /\ UNCHANGED <<base, moved, clock, crawl, lock, pc, attempt, empties, answer, searches,
                 truthful, stamped>>

\* A revised paper moves to the top of the results sorted by update.
Move ==
  /\ Change
  /\ \E i \in 2..Len(listing) :
       /\ listing' = <<listing[i]>> \o RemoveAt(listing, i)
       /\ moved' = moved \union {listing[i]}
  /\ UNCHANGED <<base, added, clock, crawl, lock, pc, attempt, empties, answer, searches,
                 truthful, stamped>>

Tick ==
  /\ elapsed < Delay \/ quiet < Delay
  /\ elapsed' = Min({elapsed + 1, Delay}) /\ quiet' = Min({quiet + 1, Delay})
  /\ UNCHANGED <<arxiv, crawl, lock, pc, attempt, empties, answer, searches, truthful, stamped>>

-----------------------------------------------------------------------------
(* One request: the part of _fetch_page under the lock.                    *)

Start(t) ==
  /\ Transition(t, "idle", "ready")
  /\ \/ t = Crawler /\ UNCHANGED searches
     \/ t # Crawler /\ searches < MaxSearches /\ searches' = searches + 1
  /\ UNCHANGED <<arxiv, clock, crawl, lock, attempt, empties, answer, truthful, stamped>>

\* Mutant: a lock per thread.
LockPerThread == TRUE
LockIsFree == lock = NoOne

Acquire(t) ==
  /\ LockIsFree /\ lock' = t
  /\ Transition(t, "ready", "locked")
  /\ UNCHANGED <<arxiv, clock, crawl, attempt, empties, answer, searches, truthful, stamped>>

\* _respect_rate_limit, then the request goes out.
Send(t) ==
  /\ elapsed >= Delay
  /\ Transition(t, "locked", "sent")
  /\ UNCHANGED <<arxiv, clock, crawl, lock, attempt, empties, answer, searches, truthful, stamped>>

\* session.get ends: _last_request_completed is set and the lock released.
Ended ==
  /\ lock' = NoOne /\ elapsed' = 0 /\ quiet' = 0 /\ stamped' = TRUE
  /\ UNCHANGED <<listing, changes, crawl, attempt, empties, searches>>

CrawlHears(response) ==
  /\ Transition(Crawler, "sent", "answered")
  /\ answer' = response
  /\ Ended

\* A page of the crawl; arXiv may send less than it lists, or no total, which
\* only matters while the crawl has none.
Counts == {Len(listing)} \union IF total = NoTotal THEN {NoTotal} ELSE {}

AnswerPage ==
  \E n \in 0..PageSize : \E count \in Counts :
    LET page == SubSeq(listing, offset + 1, Min({offset + n, Len(listing)}))
    IN /\ CrawlHears([kind |-> "page", entries |-> page, count |-> count])
       /\ truthful' = (truthful /\ offset + Len(page) = Min({offset + PageSize, Len(listing)}))
       /\ IF offset = 0 THEN base' = listing /\ added' = 0 /\ moved' = {}
                        ELSE UNCHANGED <<base, added, moved>>

\* No response, an HTTP status worth a retry, or no Atom; or another status.
AnswerError ==
  /\ \E kind \in {"failed", "fatal"} : CrawlHears([kind |-> kind])
  /\ UNCHANGED <<base, added, moved, truthful>>

\* A search asks for no retries and takes whatever comes.
SearchEnds(t) ==
  /\ Transition(t, "sent", "idle")
  /\ Ended
  /\ UNCHANGED <<base, added, moved, truthful, answer>>

\* Another exception leaves the lock without setting _last_request_completed.
Unlisted(t) ==
  /\ Transition(t, "sent", IF t = Crawler THEN "raised" ELSE "idle")
  /\ lock' = NoOne /\ quiet' = 0 /\ stamped' = FALSE
  /\ UNCHANGED <<arxiv, elapsed, crawl, attempt, empties, answer, searches, truthful>>

-----------------------------------------------------------------------------
(* The rest of _fetch_page, and results.                                   *)

\* Mutant: one attempt too many.
OneMore == attempt <= Retries
MayRetry == attempt < Retries

\* Mutant: a retry does not use up an attempt.
UncountedRetry == Transition(Crawler, "answered", "waiting") /\ UNCHANGED attempt
RetryOrRaise ==
  \/ /\ MayRetry /\ attempt' = attempt + 1
     /\ Transition(Crawler, "answered", "waiting")
  \/ /\ ~MayRetry /\ UNCHANGED attempt
     /\ Transition(Crawler, "answered", "raised")

Heard == answer' = NoAnswer

Failed ==
  /\ answer.kind = "failed" /\ RetryOrRaise /\ Heard
  /\ UNCHANGED <<arxiv, clock, crawl, lock, empties, searches, truthful, stamped>>

Fatal ==
  /\ answer.kind = "fatal" /\ Heard
  /\ Transition(Crawler, "answered", "raised")
  /\ UNCHANGED <<arxiv, clock, crawl, lock, attempt, empties, searches, truthful, stamped>>

EmptyPage == answer.kind = "page" /\ answer.entries = <<>>
FullPage  == answer.kind = "page" /\ answer.entries # <<>>

\* The third empty first page is believed, an empty later page never.
Empty ==
  /\ EmptyPage /\ Heard
  /\ IF offset = 0 /\ empties = 2
       THEN Transition(Crawler, "answered", "done") /\ UNCHANGED <<attempt, empties>>
       ELSE /\ empties' = IF offset = 0 THEN empties + 1 ELSE empties
            /\ RetryOrRaise
  /\ UNCHANGED <<arxiv, clock, crawl, lock, searches, truthful, stamped>>

Wake ==
  /\ Transition(Crawler, "waiting", "ready")
  /\ UNCHANGED <<arxiv, clock, crawl, lock, attempt, empties, answer, searches, truthful, stamped>>

\* A page that _fetch_page returns.
Accepted == FullPage \/ (EmptyPage /\ offset = 0 /\ empties = 2)

\* on_retry writes to the database and may raise: with the notice before a wait,
\* or with None when a page is accepted after retries, which then goes unread.
NoticeRaises ==
  /\ \/ Transition(Crawler, "waiting", "raised")
     \/ attempt > 0 /\ Accepted /\ Transition(Crawler, "answered", "raised")
  /\ UNCHANGED <<arxiv, clock, crawl, lock, attempt, empties, answer, searches, truthful, stamped>>

NextOffset(entries) == offset + Len(entries)

\* Mutant: the last page is missed by one.
OneTooEarly(entries, count) ==
  \/ count # NoTotal /\ NextOffset(entries) + 1 >= count
  \/ Len(entries) < PageSize
LastPage(entries, count) ==
  \/ count # NoTotal /\ NextOffset(entries) >= count
  \/ Len(entries) < PageSize

\* The total that counts is the first one arXiv sent.
Page ==
  LET entries == answer.entries
      count   == IF total = NoTotal THEN answer.count ELSE total
  IN /\ FullPage /\ Heard
     /\ yielded' = yielded \union (Listed(entries) \ Partial)
     /\ total' = count
     /\ offset' = NextOffset(entries)
     /\ Transition(Crawler, "answered", IF LastPage(entries, count) THEN "done" ELSE "ready")
     /\ attempt' = 0 /\ empties' = 0
     /\ UNCHANGED <<arxiv, clock, lock, searches, truthful, stamped>>

-----------------------------------------------------------------------------
Request(t) == Acquire(t) \/ Send(t) \/ Unlisted(t)

CrawlStep ==
  \/ Request(Crawler) \/ AnswerPage \/ AnswerError
  \/ Failed \/ Fatal \/ Empty \/ Page \/ Wake \/ NoticeRaises

SearchStep(t) == Request(t) \/ SearchEnds(t)

Next ==
  \/ Enter \/ Move \/ Tick
  \/ \E t \in Threads : Start(t)
  \/ CrawlStep
  \/ \E t \in Searchers : SearchStep(t)

Spec == Init /\ [][Next]_vars

\* Time passes, requests end (they have timeouts) and threads run.
FairSpec ==
  /\ Spec
  /\ WF_vars(Tick) /\ WF_vars(CrawlStep)
  /\ \A t \in Searchers : WF_vars(SearchStep(t))

-----------------------------------------------------------------------------
(* Properties.                                                             *)

\* One client "leaves at least 3.1 seconds between requests" (README.md:58): of the
\* requests that the crawl and the searches make through it, whatever arXiv answers,
\* none starts beside another one, or sooner than Delay after one that ended in a
\* way the client noted.  The requests of imports are not made through it.
RequestsAreSpaced ==
  [][\A t \in Threads : pc[t] = "locked" /\ pc'[t] = "sent" =>
       /\ \A u \in Threads : pc[u] # "sent"
       /\ stamped => quiet = Delay]_vars

Missed == {i \in DOMAIN base : base[i] \notin yielded \union moved \union Partial}

\* What paging by offset can miss while the results change: a crawl that ends
\* without an error misses at most as many papers as entered the results since
\* its first page, and they are the oldest ones.
OnlyTheTailIsMissed ==
  pc[Crawler] = "done" /\ truthful =>
    /\ Cardinality(Missed) <= added
    /\ \A i \in Missed : \A j \in DOMAIN base :
         j > i => j \in Missed \/ base[j] \in moved \union Partial

\* Retries are bounded and every page makes progress: a crawl ends or raises.
CrawlEnds == pc[Crawler] = "ready" ~> pc[Crawler] \in {"done", "raised"}
-----------------------------------------------------------------------------
(* What the crawl amounts to for its reader: a stream of results.          *)

StreamState ==
  CASE pc[Crawler] = "done" -> "exhausted"
    [] pc[Crawler] = "raised" -> "raised"
    [] OTHER -> "open"

Stream == INSTANCE ResultStream WITH
            first <- base, entered <- added, full <- truthful, state <- StreamState

\* Requests, retries, the lock and the pages by offset together behave like
\* ResultStream: papers are yielded from the newest on, none before those above
\* it, nothing is yielded after the end, and the end leaves out at most as many
\* papers as entered (results, services/arxiv_sync.py:143-176).
StreamSpec == Stream!Spec
=============================================================================
