------------------------------ MODULE FeedSync ------------------------------
(***************************************************************************)
(* One followed source (a research tag, or an arXiv field) and the crawl   *)
(* that keeps its papers: ArxivSyncService._sync_feed and _flush           *)
(* (services/arxiv_sync.py), with the edits the settings pages make to the *)
(* source's row in the meantime (services/search_tags.py, settings.py).    *)
(* arXiv itself is external: papers appear in its index up to Lag after    *)
(* the timestamp they carry, and are revised.  The stream of results is    *)
(* the client's (ArxivClient, ResultStream), which may end normally with   *)
(* papers left out; the crawl cannot tell.                                 *)
(*                                                                         *)
(* Time is counted in units long enough for one crawl to fit within one.   *)
(***************************************************************************)
EXTENDS Integers, FiniteSets

CONSTANTS
  Papers,           \* papers arXiv may publish
  Keywords,         \* keyword phrases a tag may search for
  Matches,          \* Matches[p]: the keywords that find paper p
  Horizons,         \* backfill lengths a user chooses
  Overlap,          \* the 48 hours an incremental crawl reads again
  Lag,              \* longest delay before arXiv's index shows a change
  BatchSize,        \* records per _flush
  MaxTime,          \* bound: the clock
  MaxEvents,        \* bound: edits of the source, and crawls that raise or are killed
  MaxLeftOut,       \* bound: papers left out at a time
  MidCrawlEdits,    \* bound: edits committed during one crawl
  QuickEdits        \* no crawl step falls between the read and the write of update()

ASSUME FeedAssumption ==
  /\ Matches \in [Papers -> SUBSET Keywords]
  /\ Horizons \subseteq Nat
  /\ Overlap \in Nat /\ Lag \in Nat /\ Lag < Overlap
  /\ BatchSize \in Nat \ {0}
  /\ MaxTime \in Nat /\ MaxEvents \in Nat /\ MaxLeftOut \in Nat /\ MidCrawlEdits \in Nat
  /\ QuickEdits \in BOOLEAN

VARIABLES
  now,                  \* the clock
  submitted, updated,   \* per paper, its dates on arXiv; Never while invisible
  kind,                 \* "tag" or "category"
  row,                  \* the source's row, with its enabled flag and keywords
  stored,               \* papers: the updated date of the stored record
  provenance,           \* paper_search_tags of the tag
  pc, snap,             \* the crawl: its point, its copy of the row
  stream,               \* papers the crawl still has to read, by record date
  newest,               \* newest_updated over the crawl's stream
  reading,              \* the row that an update() in progress has read
  events, midEdits,
  omitted,              \* history: papers the stream of this crawl left out
  missed                \* history: those left out of a crawl that completed the
                        \* source, as long as no crawl has fetched them since

arxiv == <<now, submitted, updated>>
crawl == <<pc, snap, stream, newest>>
web   == <<reading, events, midEdits>>
history == <<omitted, missed>>
vars  == <<arxiv, kind, row, stored, provenance, crawl, web, history>>

Never == -1
Times == 0..MaxTime
NoRow == [exists |-> FALSE]
Froms == {t - h : t \in Times, h \in Horizons}
Rows  == [exists : {TRUE}, enabled : BOOLEAN, keywords : Keywords,
          from : Froms, complete : BOOLEAN, watermark : Times \union {Never}]

Visible    == {p \in Papers : updated[p] # Never}
Found(k)   == {p \in Visible : k \in Matches[p]}

TypeOK ==
  /\ now \in Times
  /\ submitted \in [Papers -> Times \union {Never}]
  /\ updated \in [Papers -> Times \union {Never}]
  /\ kind \in {"tag", "category"}
  /\ row \in Rows \union {NoRow} /\ (row.exists => row.from <= now)
  /\ stored \in [Papers -> Times \union {Never}]
  /\ provenance \subseteq Papers
  /\ pc \in {"idle", "open", "stream"}
  /\ snap \in Rows \union {NoRow}
  /\ stream \subseteq Papers
  /\ newest \in Times \union {Never}
  /\ reading \in Rows \union {NoRow}
  /\ events \in 0..MaxEvents /\ midEdits \in 0..MidCrawlEdits
  /\ omitted \subseteq Papers /\ missed \subseteq Papers

\* Mutant: the backfill bound on the wrong side of now.
BackfillFromFuture(h) == now + h
BackfillFrom(h) == now - h

Init ==
  /\ now = 0
  /\ submitted = [p \in Papers |-> Never] /\ updated = submitted
  /\ kind \in {"tag", "category"}
  /\ \E k \in Keywords, h \in Horizons :
       row = [exists |-> TRUE, enabled |-> TRUE, keywords |-> k,
              from |-> BackfillFrom(h), complete |-> FALSE, watermark |-> Never]
  /\ stored = [p \in Papers |-> Never]
  /\ provenance = {}
  /\ pc = "idle" /\ snap = NoRow /\ stream = {} /\ newest = Never
  /\ reading = NoRow
  /\ events = 0 /\ midEdits = 0
  /\ omitted = {} /\ missed = {}

Event == events < MaxEvents /\ events' = events + 1

-----------------------------------------------------------------------------
(* arXiv.                                                                  *)

Tick ==
  /\ pc = "idle" /\ now < MaxTime
  /\ now' = now + 1
  /\ UNCHANGED <<submitted, updated, kind, row, stored, provenance, crawl, web, history>>

\* Mutant: no overlap with the previous crawl.
CutoffAtWatermark(s) == IF s.complete THEN s.watermark ELSE s.from
Cutoff(s) == IF s.complete THEN s.watermark - Overlap ELSE s.from

\* The date a stream is sorted by, and bounded with.
Boundary(s, p) == IF s.complete THEN updated[p] ELSE submitted[p]

\* A paper, or a revision of one, shows up in the index with a recent date.
\* A revision moves the paper to the front of the listing by update date, where
\* a crawl that has passed its first pages does not see it any more; a paper
\* that is new to the index may still be ahead of a crawl that reads it.
Publish(p) ==
  /\ \E t \in Times :
       /\ now - Lag <= t /\ t <= now /\ updated[p] < t
       /\ updated' = [updated EXCEPT ![p] = t]
       /\ submitted' = [submitted EXCEPT ![p] = IF @ = Never THEN t ELSE @]
  /\ \/ UNCHANGED stream
     \/ snap.exists /\ snap.complete /\ stream' = stream \ {p}
     \/ /\ pc = "stream" /\ submitted[p] = Never /\ snap.keywords \in Matches[p]
        /\ updated'[p] > Cutoff(snap)
        /\ stream' = stream \union {p}
  /\ omitted' = omitted \ {p} /\ missed' = missed \ {p}
  /\ UNCHANGED <<now, kind, row, stored, provenance, pc, snap, newest, web>>

-----------------------------------------------------------------------------
(* The settings pages.                                                     *)

\* Bookkeeping of every committed edit, and its bound during a crawl.
Edit ==
  /\ Event
  /\ IF pc = "idle"
       THEN UNCHANGED midEdits
       ELSE midEdits < MidCrawlEdits /\ midEdits' = midEdits + 1

\* What was left out of a feed that starts over is of no account.
Forget ==
  /\ missed' = IF row'.exists /\ row'.complete THEN missed ELSE {}
  /\ UNCHANGED omitted

\* The reset of a feed that starts over, as update and set_followed write it.
Reset(r, h) ==
  [r EXCEPT !.from = BackfillFrom(h), !.complete = FALSE, !.watermark = Never]

\* set_followed: one transaction; only a source that was off starts over.
SetFollowed(on, h) ==
  /\ kind = "tag" /\ row.exists
  /\ Edit
  /\ row' = IF on THEN [(IF row.enabled THEN row ELSE Reset(row, h)) EXCEPT !.enabled = TRUE]
            ELSE [row EXCEPT !.enabled = FALSE]
  /\ Forget
  /\ UNCHANGED <<arxiv, kind, stored, provenance, crawl, reading>>

\* update_subscriptions: a category followed again keeps its watermark.
SetCategory(on) ==
  /\ kind = "category"
  /\ Edit
  /\ row' = [row EXCEPT !.enabled = on]
  /\ Forget
  /\ UNCHANGED <<arxiv, kind, stored, provenance, crawl, reading>>

\* update() reads the row outside its transaction ...
UpdateRead ==
  /\ kind = "tag" /\ row.exists /\ reading = NoRow
  /\ Edit
  /\ reading' = row
  /\ UNCHANGED <<arxiv, kind, row, stored, provenance, crawl, history>>

\* ... and decides from that copy what its transaction resets.
UpdateWrite(existing, k, on, h) ==
  /\ row.exists
  /\ LET changed == k # existing.keywords
         reset   == changed \/ (on /\ ~existing.enabled)
     IN /\ row' = [(IF reset THEN Reset(row, h) ELSE row)
                     EXCEPT !.keywords = k, !.enabled = on]
        /\ provenance' = IF changed THEN {} ELSE provenance
  /\ Forget
  /\ UNCHANGED <<arxiv, kind, stored, crawl>>

\* An update whose read and write nothing separates, and one that other edits
\* overtake; the latter raises LookupError when the tag is gone.
Update(k, on, h) ==
  kind = "tag" /\ Edit /\ UpdateWrite(row, k, on, h) /\ UNCHANGED reading
LateUpdate(k, on, h) ==
  /\ reading # NoRow /\ reading' = NoRow
  /\ \/ UpdateWrite(reading, k, on, h)
     \/ ~row.exists /\ UNCHANGED <<arxiv, kind, row, stored, provenance, crawl, history>>
  /\ UNCHANGED <<events, midEdits>>

\* The foreign key cascades to paper_search_tags.
Delete ==
  /\ kind = "tag" /\ row.exists
  /\ Edit
  /\ row' = NoRow /\ provenance' = {} /\ UNCHANGED reading
  /\ Forget
  /\ UNCHANGED <<arxiv, kind, stored, crawl>>

\* search_tags.id is a plain rowid: the next tag gets the id of the last one.
Create(k, on, h) ==
  /\ kind = "tag" /\ ~row.exists
  /\ Edit
  /\ row' = [exists |-> TRUE, enabled |-> on, keywords |-> k,
             from |-> BackfillFrom(h), complete |-> FALSE, watermark |-> Never]
  /\ Forget
  /\ UNCHANGED <<arxiv, kind, stored, provenance, crawl, reading>>

-----------------------------------------------------------------------------
(* The crawl.                                                              *)

CrawlMayStep == QuickEdits => reading = NoRow

\* sync_all copies the enabled rows before it visits any of them.
ReadRow ==
  /\ pc = "idle" /\ row.exists /\ row.enabled /\ CrawlMayStep
  /\ snap' = row /\ pc' = "open"
  /\ UNCHANGED <<arxiv, kind, row, stored, provenance, stream, newest, web, history>>

MaxOf(S) == CHOOSE t \in S : \A u \in S : u <= t

\* The results newer than the cutoff, as the client delivers them.  It goes past
\* papers without an error: their entries lack a field or are malformed, or the
\* stream ends above them, with a short page, at the total of the first page or
\* with empty pages.
OpenStream ==
  /\ pc = "open" /\ CrawlMayStep
  /\ LET results == {p \in Found(snap.keywords) : Boundary(snap, p) > Cutoff(snap)}
     IN \E leftOut \in SUBSET results :
          /\ leftOut = {} \/ Cardinality(leftOut \union missed) <= MaxLeftOut
          /\ stream' = results \ leftOut /\ omitted' = leftOut
  /\ newest' = snap.watermark
  /\ pc' = "stream"
  /\ UNCHANGED <<arxiv, kind, row, stored, provenance, snap, web, missed>>

\* Mutant: provenance recorded for a tag deleted or changed meanwhile.
TagExists == kind = "tag" /\ row.exists
\* The check of _flush and of the final UPDATE of a tag.
TagIsCurrent ==
  /\ kind = "tag" /\ row.exists
  /\ row.enabled /\ row.keywords = snap.keywords

\* _flush: one transaction for a batch of records, newest first.
Flush ==
  /\ pc = "stream" /\ CrawlMayStep
  /\ \E batch \in SUBSET stream :
       /\ batch # {} /\ Cardinality(batch) <= BatchSize
       /\ \A p \in batch, q \in stream \ batch : Boundary(snap, q) <= Boundary(snap, p)
       /\ stored' = [p \in Papers |-> IF p \in batch THEN updated[p] ELSE stored[p]]
       /\ provenance' = IF TagIsCurrent THEN provenance \union batch ELSE provenance
       /\ newest' = MaxOf({newest} \union {updated[p] : p \in batch})
       /\ stream' = stream \ batch
  /\ UNCHANGED <<arxiv, kind, row, pc, snap, web, history>>

\* Mutant: the watermark is written before the last batches.
StreamMayBeUnread == TRUE
StreamIsRead == stream = {}

\* The followed query has fetched paper p in its present version.
Kept(p) == stored[p] = updated[p] /\ (kind = "tag" => p \in provenance)

\* The final transaction: a field's UPDATE is unconditional, a tag's is void
\* when the row changed, and then drops what a changed query had fetched.
Finalize ==
  /\ pc = "stream" /\ StreamIsRead /\ CrawlMayStep
  /\ LET done == [row EXCEPT !.complete = TRUE,
                             !.watermark = IF newest = Never THEN now ELSE newest]
     IN \/ /\ kind = "category" \/ TagIsCurrent
           /\ row' = done /\ UNCHANGED provenance
           /\ missed' = {p \in omitted \union missed : ~Kept(p)}
        \/ /\ kind = "tag" /\ ~TagIsCurrent
           /\ provenance' = IF row.exists /\ row.keywords # snap.keywords
                              THEN {} ELSE provenance
           /\ UNCHANGED <<row, missed>>
  /\ pc' = "idle" /\ snap' = NoRow /\ newest' = Never /\ stream' = {} /\ midEdits' = 0
  /\ omitted' = {}
  /\ UNCHANGED <<arxiv, kind, stored, reading, events>>

\* The source raises, the run is killed: what is flushed stays, nothing else.
Fail ==
  /\ pc # "idle" /\ Event
  /\ pc' = "idle" /\ snap' = NoRow /\ stream' = {} /\ newest' = Never /\ midEdits' = 0
  /\ omitted' = {}
  /\ UNCHANGED <<arxiv, kind, row, stored, provenance, reading, missed>>

-----------------------------------------------------------------------------
CrawlStep == ReadRow \/ OpenStream \/ Flush \/ Finalize

FinishUpdate ==
  \E k \in Keywords, on \in BOOLEAN, h \in Horizons : LateUpdate(k, on, h)

EditStep ==
  \/ \E on \in BOOLEAN : SetCategory(on)
  \/ \E on \in BOOLEAN, h \in Horizons : SetFollowed(on, h)
  \/ UpdateRead
  \/ \E k \in Keywords, on \in BOOLEAN, h \in Horizons :
       Update(k, on, h)
  \/ FinishUpdate
  \/ Delete
  \/ \E k \in Keywords, on \in BOOLEAN, h \in Horizons : Create(k, on, h)

Next ==
  \/ Tick
  \/ \E p \in Papers : Publish(p)
  \/ EditStep
  \/ CrawlStep
  \/ Fail

Spec == Init /\ [][Next]_vars

\* The scheduler starts a crawl every day and the executor carries it out; a
\* request in progress ends.  Nobody has to edit or to publish.
FairSpec == Spec /\ WF_vars(CrawlStep) /\ WF_vars(FinishUpdate)

-----------------------------------------------------------------------------
(* Properties.                                                             *)

\* The papers the source promises: found by its keywords, submitted within its
\* backfill window.
Promised == {p \in Found(row.keywords) : submitted[p] > row.from}

\* Once a source counts as backfilled, a promised paper is either kept, with
\* the record of the query that fetched it, or still ahead of the next crawl's
\* cutoff, or the client left it out of the stream of a crawl that completed:
\* failures, edits, batches and watermarks let no paper and no revision fall
\* between two crawls ("so revisions are not missed", README.md:59).
LostOnlyIfLeftOut ==
  row.exists /\ row.complete =>
    \A p \in Promised : Kept(p) \/ p \in missed \/ updated[p] > row.watermark - Overlap

\* paper_search_tags never relates a tag to a paper its present keywords did
\* not find ("cannot restore stale provenance", tests/test_ingestion.py:198).
NoStaleProvenance ==
  provenance # {} => row.exists /\ \A p \in provenance : row.keywords \in Matches[p]

\* When arXiv and the user are quiet, the crawls end up with everything promised
\* that the client does not leave out.
FeedConverges ==
  <>[](row.exists /\ row.enabled => \A p \in Promised : Kept(p) \/ p \in missed)
=============================================================================
