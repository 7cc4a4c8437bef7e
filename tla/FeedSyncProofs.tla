--------------------------- MODULE FeedSyncProofs ---------------------------
(***************************************************************************)
(* Proofs about FeedSync, for every set of papers, keywords and horizons:  *)
(* the types, that provenance is never stale, and that between two crawls  *)
(* nothing is lost but what the client left out.                           *)
(***************************************************************************)
EXTENDS FeedSync, WellFoundedInduction, TLAPS

USE FeedAssumption

-----------------------------------------------------------------------------
(* Types.                                                                  *)

\* A field is never deleted; a crawl under way has a copy of a row.
TypeInv ==
  /\ TypeOK
  /\ kind = "category" => row.exists
  /\ pc # "idle" => snap.exists

LEMMA MaxOfTimes ==
  ASSUME NEW S \in SUBSET (Times \union {Never}), S # {}
  PROVE  MaxOf(S) \in S /\ \A t \in S : t <= MaxOf(S)
<1> DEFINE T == {MaxTime - t : t \in S}
<1>0. \A t \in S : t \in Int /\ t <= MaxTime BY DEF Times, Never
<1>1. T \subseteq Nat /\ T # {}
  <2>1. \A t \in S : MaxTime - t \in Nat BY <1>0
  <2> QED BY <2>1
<1>2. PICK x \in T : \A y \in T : ~(<<y, x>> \in OpToRel(<, Nat))
  BY <1>1, NatLessThanWellFounded, WFMin
<1>3. \A y \in T : ~(y < x) BY <1>1, <1>2 DEF OpToRel
<1>4. PICK m \in S : x = MaxTime - m OBVIOUS
<1>5. ASSUME NEW t \in S PROVE t <= m
  <2>1. ~(MaxTime - t < MaxTime - m) BY <1>3, <1>4
  <2> QED BY <1>0, <2>1 DEF Times, Never
<1> QED BY <1>5 DEF MaxOf

LEMMA RowTypes ==
  ASSUME NEW r \in Rows
  PROVE  /\ r # NoRow /\ r.exists /\ r.enabled \in BOOLEAN /\ r.keywords \in Keywords
         /\ r.from \in Froms /\ r.complete \in BOOLEAN /\ r.watermark \in Times \union {Never}
<1>1. r.exists BY DEF Rows
<1>2. NoRow.exists = FALSE BY DEF NoRow
<1> QED BY <1>1, <1>2 DEF Rows

LEMMA NoRowTypes == NoRow.exists = FALSE
BY DEF NoRow

LEMMA ResetTypes ==
  ASSUME NEW r \in Rows, now \in Times, NEW h \in Horizons
  PROVE  /\ Reset(r, h) \in Rows /\ Reset(r, h).from = now - h /\ Reset(r, h).complete = FALSE
         /\ Reset(r, h).watermark = Never /\ Reset(r, h).keywords = r.keywords
         /\ Reset(r, h).enabled = r.enabled
<1>1. now - h \in Froms BY DEF Froms
<1> QED BY <1>1 DEF Reset, BackfillFrom, Rows

\* What the transaction of an update leaves of the row.
LEMMA UpdateTypes ==
  ASSUME TypeOK, row.exists, NEW existing \in Rows, NEW k \in Keywords, NEW on \in BOOLEAN,
         NEW h \in Horizons, UpdateWrite(existing, k, on, h)
  PROVE  /\ row \in Rows /\ row' \in Rows /\ row'.from <= now
         /\ row'.keywords = k /\ row'.enabled = on
         /\ \/ ~row'.complete /\ row'.watermark = Never
            \/ /\ k = existing.keywords
               /\ row'.from = row.from /\ row'.complete = row.complete
               /\ row'.watermark = row.watermark
         /\ provenance' = IF k # existing.keywords THEN {} ELSE provenance
         /\ on /\ existing.enabled /\ k = existing.keywords =>
              row' = [row EXCEPT !.keywords = k, !.enabled = on]
<1>1. row \in Rows BY NoRowTypes DEF TypeOK
<1>2. now \in Times /\ row.from <= now /\ row.from \in Int
  BY <1>1, RowTypes DEF TypeOK, Froms, Times
<1> DEFINE base == IF k # existing.keywords \/ (on /\ ~existing.enabled)
                     THEN Reset(row, h) ELSE row
<1>3. base \in Rows /\ base.from <= now
  <2>1. now - h <= now BY <1>2 DEF Times
  <2>2. Reset(row, h) \in Rows /\ Reset(row, h).from = now - h BY <1>1, <1>2, ResetTypes
  <2> QED BY ONLY <1>1, <1>2, <2>1, <2>2
<1>4. row' = [base EXCEPT !.keywords = k, !.enabled = on]
  BY DEF UpdateWrite
<1>5. /\ row' \in Rows /\ row'.keywords = k /\ row'.enabled = on /\ row'.from = base.from
      /\ row'.complete = base.complete /\ row'.watermark = base.watermark
  <2> HIDE DEF base
  <2> QED BY <1>3, <1>4 DEF Rows
<1>6. provenance' = IF k # existing.keywords THEN {} ELSE provenance
  BY DEF UpdateWrite
<1>7. CASE ~(k # existing.keywords \/ (on /\ ~existing.enabled))
  <2>1. base = row BY <1>7
  <2> HIDE DEF base
  <2> QED BY <1>1, <1>3, <1>4, <1>5, <1>6, <1>7, <2>1
<1>8. CASE k # existing.keywords \/ (on /\ ~existing.enabled)
  <2>1. base.complete = FALSE /\ base.watermark = Never BY <1>1, <1>2, <1>8, ResetTypes
  <2> HIDE DEF base
  <2> QED BY <1>1, <1>3, <1>5, <1>6, <1>8, <2>1
<1> QED BY <1>7, <1>8

LEMMA TypeInit == Init => TypeInv
<1> SUFFICES ASSUME Init PROVE TypeInv OBVIOUS
<1>1. PICK k \in Keywords, h \in Horizons :
        row = [exists |-> TRUE, enabled |-> TRUE, keywords |-> k,
               from |-> BackfillFrom(h), complete |-> FALSE, watermark |-> Never]
  BY DEF Init
<1>2. 0 \in Times /\ 0 - h \in Froms BY DEF Times, Froms
<1>3. row \in Rows /\ row.exists /\ row.from <= now
  BY <1>1, <1>2 DEF Init, Rows, BackfillFrom
<1> QED BY <1>2, <1>3 DEF Init, TypeInv, TypeOK, Never

\* An edit leaves arXiv and the crawl alone.
LEMMA TypeEdit ==
  ASSUME TypeInv, EditStep
  PROVE  TypeInv'
<1> USE DEF TypeInv
<1>0. TypeOK OBVIOUS
<1>a. omitted' \subseteq Papers /\ missed' \subseteq Papers
  BY DEF TypeOK, EditStep, SetCategory, SetFollowed, UpdateRead, Update, UpdateWrite,
         FinishUpdate, LateUpdate, Delete, Create, Forget, history
<1>1. ASSUME UNCHANGED <<arxiv, kind, crawl, stored>>, events' \in 0..MaxEvents,
             midEdits' \in 0..MidCrawlEdits, row' \in Rows \union {NoRow},
             row'.exists => row'.from <= now, kind = "category" => row'.exists,
             provenance' \subseteq Papers, reading' \in Rows \union {NoRow}
      PROVE  TypeInv'
  BY <1>1, <1>a DEF TypeOK, arxiv, crawl
<1>2. Edit => events' \in 0..MaxEvents /\ midEdits' \in 0..MidCrawlEdits
  BY DEF Edit, Event, TypeOK
<1>3. row \in Rows \union {NoRow} /\ (row.exists => row \in Rows)
  BY NoRowTypes DEF TypeOK
<1>4. ASSUME NEW on \in BOOLEAN, SetCategory(on) PROVE TypeInv'
  <2>1. row \in Rows /\ row' = [row EXCEPT !.enabled = on] BY <1>3, <1>4 DEF SetCategory
  <2>2. row' \in Rows /\ row'.from = row.from /\ row'.exists BY <2>1 DEF Rows
  <2> QED BY <1>1, <1>2, <1>4, <2>2, <1>3 DEF SetCategory, TypeOK
<1>5. ASSUME NEW on \in BOOLEAN, NEW h \in Horizons, SetFollowed(on, h) PROVE TypeInv'
  <2>1. row \in Rows BY <1>3, <1>5 DEF SetFollowed
  <2> DEFINE base == IF on /\ ~row.enabled THEN Reset(row, h) ELSE row
  <2>2. base \in Rows /\ base.from <= now
    <3>1. now \in Times /\ row.from <= now BY <2>1, RowTypes DEF TypeOK
    <3>2. now - h <= now BY <3>1 DEF Times
    <3> QED BY <2>1, <3>1, <3>2, ResetTypes
  <2>3. row' = [base EXCEPT !.enabled = on] BY <1>5 DEF SetFollowed
  <2>4. row' \in Rows /\ row'.from = base.from
    <3> HIDE DEF base
    <3> QED BY <2>2, <2>3 DEF Rows
  <2> QED BY <1>1, <1>2, <1>5, <2>2, <2>4, RowTypes DEF SetFollowed, TypeOK
<1>6. ASSUME UpdateRead PROVE TypeInv'
  BY <1>1, <1>2, <1>3, <1>6 DEF UpdateRead, TypeOK
<1>7. ASSUME NEW k \in Keywords, NEW on \in BOOLEAN, NEW h \in Horizons, Update(k, on, h)
      PROVE  TypeInv'
  <2>1. UpdateWrite(row, k, on, h) /\ row.exists /\ Edit /\ UNCHANGED reading
    BY <1>7 DEF Update, UpdateWrite
  <2>2. row' \in Rows /\ row'.from <= now /\ provenance' \subseteq provenance
    BY <1>3, <2>1, UpdateTypes
  <2> QED BY <1>1, <1>2, <2>1, <2>2, RowTypes DEF UpdateWrite, TypeOK
<1>8. ASSUME NEW k \in Keywords, NEW on \in BOOLEAN, NEW h \in Horizons, LateUpdate(k, on, h)
      PROVE  TypeInv'
  <2>1. CASE UpdateWrite(reading, k, on, h)
    <3>1. row.exists /\ reading \in Rows BY <1>8, <2>1 DEF LateUpdate, UpdateWrite, TypeOK
    <3>2. row' \in Rows /\ row'.from <= now /\ provenance' \subseteq provenance
      BY <2>1, <3>1, UpdateTypes
    <3> QED BY <1>1, <1>8, <2>1, <3>2, RowTypes DEF LateUpdate, UpdateWrite, TypeOK
  <2>2. CASE UNCHANGED <<arxiv, kind, row, stored, provenance, crawl>>
    BY <1>1, <1>8, <2>2 DEF LateUpdate, TypeOK
  <2> QED BY <1>8, <2>1, <2>2 DEF LateUpdate
<1>9. ASSUME Delete PROVE TypeInv'
  BY <1>1, <1>2, <1>9, NoRowTypes DEF Delete, TypeOK
<1>10. ASSUME NEW k \in Keywords, NEW on \in BOOLEAN, NEW h \in Horizons, Create(k, on, h)
       PROVE  TypeInv'
  <2>1. now - h \in Froms /\ now - h <= now BY DEF TypeOK, Froms, Times
  <2>2. row' \in Rows /\ row'.from = now - h BY <1>10, <2>1 DEF Create, BackfillFrom, Rows
  <2> QED BY <1>1, <1>2, <1>10, <2>1, <2>2, RowTypes DEF Create, TypeOK
<1> QED BY <1>4, <1>5, <1>6, <1>7, <1>8, <1>9, <1>10 DEF EditStep, FinishUpdate

\* The latest date of a batch.
LEMMA NewestTypes ==
  ASSUME TypeOK, NEW batch \in SUBSET stream
  PROVE  LET m == MaxOf({newest} \union {updated[p] : p \in batch})
         IN  /\ m \in {newest} \union {updated[p] : p \in batch}
             /\ m \in Times \union {Never}
<1> DEFINE S == {newest} \union {updated[p] : p \in batch}
<1>1. S \in SUBSET (Times \union {Never}) /\ S # {} BY DEF TypeOK
<1> HIDE DEF S
<1>2. MaxOf(S) \in S BY <1>1, MaxOfTimes
<1> QED BY <1>1, <1>2 DEF S

LEMMA TypeCrawl ==
  ASSUME TypeInv, CrawlStep
  PROVE  TypeInv'
<1> USE DEF TypeInv
<1>1. CASE ReadRow
  <2>1. row \in Rows BY <1>1, NoRowTypes DEF ReadRow, TypeOK
  <2> QED BY <1>1, <2>1, RowTypes DEF ReadRow, TypeOK, arxiv, web, history
<1>2. CASE OpenStream
  <2>1. snap \in Rows BY <1>2, NoRowTypes DEF OpenStream, TypeOK
  <2>2. /\ stream' \subseteq Papers /\ newest' \in Times \union {Never} /\ pc' = "stream"
        /\ omitted' \subseteq Papers /\ missed' = missed
    BY <1>2, <2>1, RowTypes DEF OpenStream, Found, Visible
  <2> QED BY <1>2, <2>1, <2>2, RowTypes DEF OpenStream, TypeOK, arxiv, web
<1>3. CASE Flush
  <2>1. PICK batch \in SUBSET stream :
          /\ stored' = [p \in Papers |-> IF p \in batch THEN updated[p] ELSE stored[p]]
          /\ provenance' = IF TagIsCurrent THEN provenance \union batch ELSE provenance
          /\ newest' = MaxOf({newest} \union {updated[p] : p \in batch})
          /\ stream' = stream \ batch
    BY <1>3 DEF Flush
  <2>2. newest' \in Times \union {Never} BY <2>1, NewestTypes
  <2>3. stored' \in [Papers -> Times \union {Never}] BY <2>1 DEF TypeOK
  <2>4. provenance' \subseteq Papers /\ stream' \subseteq Papers BY <2>1 DEF TypeOK
  <2> QED BY <1>3, <2>2, <2>3, <2>4 DEF Flush, TypeOK, arxiv, web, history
<1>4. CASE Finalize
  <2>1. provenance' \subseteq Papers /\ pc' = "idle" /\ snap' = NoRow /\ newest' = Never
        /\ stream' = {} /\ midEdits' = 0 /\ UNCHANGED <<arxiv, kind, stored, reading, events>>
        /\ omitted' \subseteq Papers /\ missed' \subseteq Papers
    BY <1>4 DEF Finalize, TypeOK
  <2>2. row' \in Rows \union {NoRow} /\ (row'.exists => row'.from <= now)
        /\ (kind = "category" => row'.exists)
    <3>1. CASE UNCHANGED row BY <3>1 DEF TypeOK
    <3>2. CASE /\ row' = [row EXCEPT !.complete = TRUE,
                                     !.watermark = IF newest = Never THEN now ELSE newest]
               /\ kind = "category" \/ TagIsCurrent
      <4>1. row \in Rows BY <3>2, NoRowTypes DEF TagIsCurrent, TypeOK
      <4>2. (IF newest = Never THEN now ELSE newest) \in Times BY DEF TypeOK
      <4>3. row' \in Rows /\ row'.from = row.from /\ row'.exists BY <3>2, <4>1, <4>2 DEF Rows
      <4> QED BY <4>1, <4>3, RowTypes DEF TypeOK
    <3> QED BY <1>4, <3>1, <3>2 DEF Finalize
  <2> QED BY <2>1, <2>2 DEF TypeOK, arxiv
<1> QED BY <1>1, <1>2, <1>3, <1>4 DEF CrawlStep

LEMMA TypeNext == TypeInv /\ [Next]_vars => TypeInv'
<1> SUFFICES ASSUME TypeInv, [Next]_vars PROVE TypeInv' OBVIOUS
<1> USE DEF TypeInv
<1>1. CASE UNCHANGED vars BY <1>1 DEF vars, arxiv, crawl, web, history, TypeOK
<1>2. CASE Tick
  <2>1. row.exists => row.from \in Int BY RowTypes, NoRowTypes DEF TypeOK, Froms, Times
  <2> QED BY <1>2, <2>1 DEF Tick, TypeOK, Times, crawl, web, history
<1>3. ASSUME NEW p \in Papers, Publish(p) PROVE TypeInv'
  <2>1. PICK t \in Times :
          /\ updated' = [updated EXCEPT ![p] = t]
          /\ submitted' = [submitted EXCEPT ![p] = IF @ = Never THEN t ELSE @]
    BY <1>3 DEF Publish
  <2>2. updated' \in [Papers -> Times \union {Never}]
        /\ submitted' \in [Papers -> Times \union {Never}]
    BY <2>1 DEF TypeOK
  <2>3. stream' \subseteq Papers /\ omitted' \subseteq Papers /\ missed' \subseteq Papers
    BY <1>3 DEF Publish, TypeOK
  <2> QED BY <1>3, <2>2, <2>3 DEF Publish, TypeOK, web
<1>4. CASE Fail BY <1>4 DEF Fail, Event, TypeOK, arxiv
<1> QED BY <1>1, <1>2, <1>3, <1>4, TypeEdit, TypeCrawl DEF Next

\* Row, copies and records of a source have their types, through edits, crawls,
\* failures and revisions.
THEOREM TypeCorrect == Spec => []TypeOK
<1>1. TypeInv => TypeOK BY DEF TypeInv
<1> QED BY TypeInit, TypeNext, <1>1, PTL DEF Spec

-----------------------------------------------------------------------------
(* Provenance.                                                             *)

\* What the crawl is about to record was found by the keywords it copied, and
\* what is recorded while an update is halfway belongs to the keywords it read.
StaleInv ==
  /\ NoStaleProvenance
  /\ pc = "stream" => \A p \in stream : snap.keywords \in Matches[p]
  /\ reading # NoRow => provenance = {} \/ (row.exists /\ row.keywords = reading.keywords)

LEMMA StaleInit == Init => StaleInv
BY DEF Init, StaleInv, NoStaleProvenance

LEMMA StaleEdit ==
  ASSUME TypeInv, StaleInv, EditStep
  PROVE  StaleInv'
<1> USE DEF StaleInv, NoStaleProvenance
<1>0. TypeOK /\ (row.exists => row \in Rows) BY NoRowTypes DEF TypeInv, TypeOK
<1>1. UNCHANGED <<pc, snap, stream>>
  BY DEF EditStep, SetCategory, SetFollowed, UpdateRead, Update, UpdateWrite, FinishUpdate,
         LateUpdate, Delete, Create, crawl
<1>2. ASSUME NEW on \in BOOLEAN, SetCategory(on) PROVE StaleInv'
  <2>1. row \in Rows /\ row' = [row EXCEPT !.enabled = on]
    BY <1>0, <1>2 DEF SetCategory, TypeInv
  <2>2. row'.exists /\ row'.keywords = row.keywords BY <2>1 DEF Rows
  <2> QED BY <1>1, <1>2, <2>2 DEF SetCategory
<1>3. ASSUME NEW on \in BOOLEAN, NEW h \in Horizons, SetFollowed(on, h) PROVE StaleInv'
  <2>1. row \in Rows /\ now \in Times BY <1>0, <1>3 DEF SetFollowed, TypeOK
  <2> DEFINE base == IF on /\ ~row.enabled THEN Reset(row, h) ELSE row
  <2>2. base \in Rows /\ base.keywords = row.keywords BY <2>1, ResetTypes
  <2>3. row' = [base EXCEPT !.enabled = on] BY <1>3 DEF SetFollowed
  <2>4. row'.exists /\ row'.keywords = row.keywords
    <3> HIDE DEF base
    <3> QED BY <2>2, <2>3 DEF Rows
  <2> QED BY <1>1, <1>3, <2>4 DEF SetFollowed
<1>4. ASSUME UpdateRead PROVE StaleInv'
  BY <1>1, <1>4 DEF UpdateRead
<1>5. ASSUME NEW k \in Keywords, NEW on \in BOOLEAN, NEW h \in Horizons, Update(k, on, h)
      PROVE  StaleInv'
  <2>1. UpdateWrite(row, k, on, h) /\ row.exists /\ UNCHANGED reading
    BY <1>5 DEF Update, UpdateWrite
  <2>2. row'.exists /\ row'.keywords = k
        /\ provenance' = IF k # row.keywords THEN {} ELSE provenance
    BY <1>0, <2>1, UpdateTypes, RowTypes
  <2> QED BY <1>1, <2>1, <2>2
<1>6. ASSUME NEW k \in Keywords, NEW on \in BOOLEAN, NEW h \in Horizons, LateUpdate(k, on, h)
      PROVE  StaleInv'
  <2>1. CASE UpdateWrite(reading, k, on, h)
    <3>1. row.exists /\ reading \in Rows
      BY <1>0, <1>6, <2>1 DEF LateUpdate, UpdateWrite, TypeOK
    <3>2. row'.exists /\ row'.keywords = k
          /\ provenance' = IF k # reading.keywords THEN {} ELSE provenance
      BY <1>0, <2>1, <3>1, UpdateTypes, RowTypes
    <3> QED BY <1>1, <1>6, <3>2 DEF LateUpdate
  <2>2. CASE UNCHANGED <<row, provenance>>
    BY <1>1, <1>6, <2>2 DEF LateUpdate
  <2> QED BY <1>6, <2>1, <2>2 DEF LateUpdate
<1>7. ASSUME Delete PROVE StaleInv' BY <1>1, <1>7 DEF Delete
<1>8. ASSUME NEW k \in Keywords, NEW on \in BOOLEAN, NEW h \in Horizons, Create(k, on, h)
      PROVE  StaleInv'
  BY <1>1, <1>8 DEF Create
<1> QED BY <1>2, <1>3, <1>4, <1>5, <1>6, <1>7, <1>8 DEF EditStep, FinishUpdate

LEMMA StaleCrawl ==
  ASSUME QuickEdits, TypeInv, StaleInv, CrawlStep
  PROVE  StaleInv'
<1> USE DEF StaleInv, NoStaleProvenance
<1>1. reading = NoRow /\ reading' = NoRow
  BY DEF CrawlStep, ReadRow, OpenStream, Flush, Finalize, CrawlMayStep, web
<1>2. CASE ReadRow BY <1>1, <1>2 DEF ReadRow
<1>3. CASE OpenStream BY <1>1, <1>3 DEF OpenStream, Found
<1>4. CASE Flush
  <2>1. PICK batch \in SUBSET stream :
          /\ provenance' = IF TagIsCurrent THEN provenance \union batch ELSE provenance
          /\ stream' = stream \ batch
    BY <1>4 DEF Flush
  <2>2. UNCHANGED <<row, pc, snap>> /\ pc = "stream" BY <1>4 DEF Flush
  <2> QED BY <1>1, <2>1, <2>2 DEF TagIsCurrent
<1>5. CASE Finalize
  <2>1. CASE UNCHANGED row /\ provenance' \subseteq provenance
    BY <1>1, <1>5, <2>1 DEF Finalize
  <2>2. CASE /\ row' = [row EXCEPT !.complete = TRUE,
                                   !.watermark = IF newest = Never THEN now ELSE newest]
             /\ provenance' = provenance /\ (kind = "category" \/ TagIsCurrent)
    <3>1. row \in Rows BY <2>2, NoRowTypes DEF TagIsCurrent, TypeInv, TypeOK
    <3>2. row'.exists /\ row'.keywords = row.keywords BY <2>2, <3>1 DEF Rows
    <3> QED BY <1>1, <1>5, <2>2, <3>2 DEF Finalize
  <2> QED BY <1>5, <2>1, <2>2 DEF Finalize
<1> QED BY <1>2, <1>3, <1>4, <1>5 DEF CrawlStep

\* If no crawl steps between the read and the write of an update, the papers
\* recorded for a tag are always found by its present keywords.
THEOREM ProvenanceIsNeverStale ==
  ASSUME QuickEdits
  PROVE  Spec => []NoStaleProvenance
<1>1. TypeInv /\ StaleInv /\ [Next]_vars => StaleInv'
  <2> SUFFICES ASSUME TypeInv, StaleInv, [Next]_vars PROVE StaleInv' OBVIOUS
  <2> USE DEF StaleInv, NoStaleProvenance
  <2>1. CASE UNCHANGED vars BY <2>1 DEF vars, crawl, web
  <2>2. CASE Tick BY <2>2 DEF Tick, crawl, web
  <2>3. ASSUME NEW p \in Papers, Publish(p) PROVE StaleInv'
    <3>1. /\ \A q \in stream' : q \in stream \/ (pc = "stream" /\ snap.keywords \in Matches[q])
          /\ UNCHANGED <<row, provenance, pc, snap, reading>>
      BY <2>3 DEF Publish, web
    <3> QED BY <3>1
  <2>4. CASE Fail BY <2>4 DEF Fail
  <2> QED BY <2>1, <2>2, <2>3, <2>4, StaleEdit, StaleCrawl DEF Next
<1>2. StaleInv => NoStaleProvenance BY DEF StaleInv
<1> QED BY TypeInit, TypeNext, StaleInit, <1>1, <1>2, PTL DEF Spec

-----------------------------------------------------------------------------
(* Nothing is lost between two crawls.                                     *)

\* r follows the same query over the same window, and stands where s stands.
SameFeed(r, s) ==
  /\ r.exists /\ r.keywords = s.keywords /\ r.from = s.from
  /\ r.complete = s.complete /\ r.watermark = s.watermark

\* The crawl's copy still describes the row.  A tag is followed as before, even
\* if an update has read it meanwhile; that read is the one edit of the crawl.
Same ==
  /\ SameFeed(row, snap)
  /\ kind = "tag" =>
       /\ row.enabled
       /\ reading # NoRow => reading.enabled /\ reading.keywords = snap.keywords /\ midEdits >= 1

\* The one edit of the crawl has turned the tag off, changed it or deleted it:
\* the crawl will not finish its row, and a changed query has started over.
Turned ==
  /\ kind = "tag" /\ reading = NoRow /\ midEdits >= 1 /\ ~TagIsCurrent
  /\ row.exists /\ row.keywords # snap.keywords => ~row.complete

\* What the crawl owes is kept, still ahead of it, left out by the client, or
\* recent enough for the next crawl.
Fetching ==
  \A p \in Found(snap.keywords) :
    submitted[p] > snap.from =>
      Kept(p) \/ p \in stream \union omitted \union missed \/ updated[p] >= now - Lag

\* No date is ahead of the clock.
Bounds ==
  /\ \A p \in Papers : updated[p] <= now
  /\ row.exists => row.watermark <= now
  /\ snap.exists => snap.watermark <= now
  /\ newest <= now

LostInv ==
  /\ LostOnlyIfLeftOut
  /\ Bounds
  /\ missed # {} => row.exists /\ row.complete
  /\ kind = "category" => reading = NoRow
  /\ reading # NoRow /\ row.exists => ~row.complete \/ row.keywords = reading.keywords
  /\ pc # "idle" => Same \/ Turned
  /\ pc = "stream" /\ Same => Fetching

\* Every edit removes the row, leaves it to be backfilled, or leaves its feed
\* and its provenance as they were.
LEMMA EditEffects ==
  ASSUME TypeInv, LostInv, EditStep
  PROVE  /\ UNCHANGED <<arxiv, kind, stored, crawl>>
         /\ \/ ~row'.exists
            \/ row'.exists /\ ~row'.complete /\ row'.watermark <= now
            \/ row.exists /\ SameFeed(row', row) /\ provenance' = provenance
         /\ kind = "category" => reading' = NoRow
         /\ reading' = NoRow \/ reading' = reading \/ (reading' = row /\ row' = row)
<1>0. TypeOK /\ now \in Times /\ Never <= now /\ (row.exists => row \in Rows /\ row.watermark <= now)
  BY NoRowTypes DEF TypeInv, TypeOK, LostInv, Bounds, Times, Never
<1>1. ASSUME NEW on \in BOOLEAN, SetCategory(on)
      PROVE  /\ UNCHANGED <<arxiv, kind, stored, crawl, reading, provenance>>
             /\ row.exists /\ SameFeed(row', row)
  <2>1. row \in Rows /\ row' = [row EXCEPT !.enabled = on]
    BY <1>0, <1>1 DEF SetCategory, TypeInv
  <2>2. SameFeed(row', row) BY <2>1 DEF Rows, SameFeed
  <2> QED BY <1>1, <2>1, <2>2, RowTypes DEF SetCategory
<1>2. ASSUME NEW on \in BOOLEAN, NEW h \in Horizons, SetFollowed(on, h)
      PROVE  /\ UNCHANGED <<arxiv, kind, stored, crawl, reading, provenance>>
             /\ kind = "tag" /\ row.exists /\ row'.exists
             /\ SameFeed(row', row) \/ (~row'.complete /\ row'.watermark = Never)
  <2>1. row \in Rows BY <1>0, <1>2 DEF SetFollowed
  <2> DEFINE base == IF on /\ ~row.enabled THEN Reset(row, h) ELSE row
  <2>2. /\ base \in Rows
        /\ base = row \/ (base.complete = FALSE /\ base.watermark = Never)
    BY <1>0, <2>1, ResetTypes
  <2>3. row' = [base EXCEPT !.enabled = on] BY <1>2 DEF SetFollowed
  <2> HIDE DEF base
  <2>4. row' \in Rows /\ SameFeed(row', base) BY <2>2, <2>3 DEF Rows, SameFeed
  <2> QED BY <1>2, <2>2, <2>4 DEF SetFollowed, SameFeed
<1>3. ASSUME UpdateRead
      PROVE  /\ UNCHANGED <<arxiv, kind, stored, crawl, row, provenance>>
             /\ kind = "tag" /\ row.exists /\ reading' = row
  BY <1>3 DEF UpdateRead
<1>4. ASSUME NEW k \in Keywords, NEW on \in BOOLEAN, NEW h \in Horizons,
             NEW existing \in Rows, UpdateWrite(existing, k, on, h), row.exists,
             existing = row \/ ~row.complete \/ row.keywords = existing.keywords
      PROVE  /\ row'.exists /\ UNCHANGED <<arxiv, kind, stored, crawl>>
             /\ \/ ~row'.complete /\ row'.watermark <= now
                \/ SameFeed(row', row) /\ provenance' = provenance
  <2>1. /\ row' \in Rows /\ row'.keywords = k
        /\ \/ ~row'.complete /\ row'.watermark = Never
           \/ /\ k = existing.keywords
              /\ row'.from = row.from /\ row'.complete = row.complete
              /\ row'.watermark = row.watermark
        /\ provenance' = IF k # existing.keywords THEN {} ELSE provenance
    BY <1>0, <1>4, UpdateTypes
  <2>2. UNCHANGED <<arxiv, kind, stored, crawl>> BY <1>4 DEF UpdateWrite
  <2> QED BY <1>0, <1>4, <2>1, <2>2, RowTypes DEF SameFeed
<1>5. ASSUME NEW k \in Keywords, NEW on \in BOOLEAN, NEW h \in Horizons, Update(k, on, h)
      PROVE  /\ kind = "tag" /\ row.exists /\ reading' = reading
             /\ row'.exists /\ UNCHANGED <<arxiv, kind, stored, crawl>>
             /\ \/ ~row'.complete /\ row'.watermark <= now
                \/ SameFeed(row', row) /\ provenance' = provenance
  <2>1. UpdateWrite(row, k, on, h) /\ row.exists /\ kind = "tag" /\ reading' = reading
    BY <1>5 DEF Update, UpdateWrite
  <2> QED BY <1>0, <1>4, <2>1
<1>6. ASSUME NEW k \in Keywords, NEW on \in BOOLEAN, NEW h \in Horizons, LateUpdate(k, on, h)
      PROVE  /\ reading' = NoRow /\ UNCHANGED <<arxiv, kind, stored, crawl>>
             /\ \/ ~row'.exists
                \/ row'.exists /\ ~row'.complete /\ row'.watermark <= now
                \/ row.exists /\ SameFeed(row', row) /\ provenance' = provenance
  <2>1. CASE UpdateWrite(reading, k, on, h)
    <3>1. row.exists /\ reading \in Rows /\ reading # NoRow /\ reading' = NoRow
      BY <1>0, <1>6, <2>1 DEF LateUpdate, UpdateWrite, TypeOK
    <3>2. ~row.complete \/ row.keywords = reading.keywords BY <3>1 DEF LostInv
    <3> QED BY <1>4, <2>1, <3>1, <3>2
  <2>2. CASE ~row.exists /\ UNCHANGED <<arxiv, kind, row, stored, provenance, crawl>>
    BY <1>6, <2>2 DEF LateUpdate
  <2> QED BY <1>6, <2>1, <2>2 DEF LateUpdate
<1>7. ASSUME Delete
      PROVE  ~row'.exists /\ UNCHANGED <<arxiv, kind, stored, crawl, reading>> /\ kind = "tag"
  BY <1>7, NoRowTypes DEF Delete
<1>8. ASSUME NEW k \in Keywords, NEW on \in BOOLEAN, NEW h \in Horizons, Create(k, on, h)
      PROVE  /\ row'.exists /\ ~row'.complete /\ row'.watermark <= now /\ kind = "tag"
             /\ UNCHANGED <<arxiv, kind, stored, crawl, reading>>
  BY <1>0, <1>8 DEF Create
<1>9. kind = "category" => reading = NoRow BY DEF LostInv
<1>10. kind = "category" /\ kind = "tag" => FALSE OBVIOUS
<1>11. CASE \E on \in BOOLEAN : SetCategory(on) BY <1>1, <1>9, <1>11
<1>12. CASE \E on \in BOOLEAN, h \in Horizons : SetFollowed(on, h)
  BY <1>0, <1>2, <1>10, <1>12
<1>13. CASE UpdateRead
  <2>1. SameFeed(row', row) BY <1>3, <1>13 DEF SameFeed
  <2> QED BY <1>3, <1>10, <1>13, <2>1
<1>14. CASE \E k \in Keywords, on \in BOOLEAN, h \in Horizons : Update(k, on, h)
  BY <1>5, <1>10, <1>14
<1>15. CASE FinishUpdate BY <1>6, <1>15 DEF FinishUpdate
<1>16. CASE Delete BY <1>7, <1>10, <1>16
<1>17. CASE \E k \in Keywords, on \in BOOLEAN, h \in Horizons : Create(k, on, h)
  BY <1>8, <1>10, <1>17
<1> QED BY <1>11, <1>12, <1>13, <1>14, <1>15, <1>16, <1>17 DEF EditStep

LEMMA EditForgets ==
  ASSUME missed # {} => row.exists /\ row.complete, EditStep
  PROVE  Forget
<1>1. UNCHANGED <<row, history>> => Forget BY DEF Forget, history
<1> QED
  BY <1>1 DEF EditStep, SetCategory, SetFollowed, UpdateRead, Update, UpdateWrite,
              FinishUpdate, LateUpdate, Delete, Create

\* The one edit of a crawl leaves its copy good or makes its end void.
LEMMA EditDuring ==
  ASSUME TypeInv, LostInv, EditStep, pc # "idle", MidCrawlEdits <= 1
  PROVE  /\ Same' \/ Turned'
         /\ Same' => Same /\ provenance' = provenance
<1>0. TypeOK /\ midEdits \in Nat /\ (row.exists => row \in Rows)
  BY NoRowTypes DEF TypeInv, TypeOK
<1>1. Edit => midEdits = 0 /\ midEdits' = 1
  BY <1>0 DEF Edit, FeedAssumption
<1>2. /\ Edit \/ (FinishUpdate /\ reading # NoRow)
      /\ snap' = snap /\ kind' = kind
  BY DEF EditStep, SetCategory, SetFollowed, UpdateRead, Update, UpdateWrite, FinishUpdate,
         LateUpdate, Delete, Create, crawl
<1>3. Same BY <1>1, <1>2 DEF LostInv, Turned
<1>4. row \in Rows /\ row.exists /\ SameFeed(row, snap) BY <1>0, <1>3 DEF Same, SameFeed
<1>5. Edit => reading = NoRow BY <1>1, <1>3, <1>0 DEF Same, LostInv, TypeOK
<1>6. kind = "tag" => row.enabled BY <1>3 DEF Same
<1>7. ASSUME NEW on \in BOOLEAN, SetCategory(on) PROVE Same' /\ provenance' = provenance
  <2>1. row' = [row EXCEPT !.enabled = on] /\ kind' = "category" /\ provenance' = provenance
    BY <1>7 DEF SetCategory
  <2>2. SameFeed(row', row) BY <1>4, <2>1 DEF Rows, SameFeed
  <2> QED BY <1>2, <1>4, <2>1, <2>2 DEF Same, SameFeed
\* An edit that writes the row with the keywords k and the switch on.
<1>8. ASSUME kind = "tag", row' \in Rows, NEW k, NEW on \in BOOLEAN, midEdits' >= 1,
             reading' = NoRow, row'.keywords = k, row'.enabled = on,
             k # snap.keywords => ~row'.complete,
             on /\ k = snap.keywords => SameFeed(row', row) /\ provenance' = provenance
      PROVE  (Same' \/ Turned') /\ (Same' => provenance' = provenance)
  <2>1. CASE on /\ k = snap.keywords
    BY <1>2, <1>4, <1>8, <2>1 DEF Same, SameFeed
  <2>2. CASE ~(on /\ k = snap.keywords)
    <3>1. ~Same' BY <1>2, <1>8, <2>2 DEF Same, SameFeed
    <3>2. Turned' BY <1>2, <1>8, <2>2 DEF Turned, TagIsCurrent
    <3> QED BY <3>1, <3>2
  <2> QED BY <2>1, <2>2
<1>9. ASSUME NEW on \in BOOLEAN, NEW h \in Horizons, SetFollowed(on, h)
      PROVE  (Same' \/ Turned') /\ (Same' => provenance' = provenance)
  <2>1. kind = "tag" /\ Edit /\ row' = [row EXCEPT !.enabled = on] /\ provenance' = provenance
        /\ reading' = reading
    BY <1>6, <1>9 DEF SetFollowed
  <2>2. row' \in Rows /\ SameFeed(row', row) /\ row'.enabled = on
    BY <1>4, <2>1 DEF Rows, SameFeed
  <2>3. row'.keywords = snap.keywords BY <1>4, <2>2 DEF SameFeed
  <2> QED BY <1>1, <1>5, <1>8, <2>1, <2>2, <2>3
<1>10. CASE UpdateRead
  <2>1. kind = "tag" /\ Edit /\ reading' = row /\ UNCHANGED <<row, kind, provenance>>
    BY <1>10 DEF UpdateRead
  <2> QED BY <1>1, <1>2, <1>3, <1>4, <1>6, <2>1 DEF Same, SameFeed
<1>11. ASSUME NEW k \in Keywords, NEW on \in BOOLEAN, NEW h \in Horizons,
              NEW existing \in Rows, UpdateWrite(existing, k, on, h), kind = "tag",
              existing.enabled, existing.keywords = snap.keywords, midEdits' >= 1,
              reading' = NoRow
       PROVE  (Same' \/ Turned') /\ (Same' => provenance' = provenance)
  <2>1. /\ row' \in Rows /\ row'.keywords = k /\ row'.enabled = on
        /\ \/ ~row'.complete /\ row'.watermark = Never
           \/ k = existing.keywords
        /\ provenance' = IF k # existing.keywords THEN {} ELSE provenance
        /\ on /\ existing.enabled /\ k = existing.keywords =>
             row' = [row EXCEPT !.keywords = k, !.enabled = on]
    BY <1>0, <1>4, <1>11, UpdateTypes
  <2>2. ASSUME on, k = snap.keywords PROVE SameFeed(row', row) /\ provenance' = provenance
    <3>1. row' = [row EXCEPT !.keywords = k, !.enabled = on] /\ provenance' = provenance
      BY <1>11, <2>1, <2>2
    <3>2. row.keywords = k BY <1>4, <2>2 DEF SameFeed
    <3> QED BY <1>4, <3>1, <3>2 DEF Rows, SameFeed
  <2> QED BY <1>8, <1>11, <2>1, <2>2
<1>12. ASSUME NEW k \in Keywords, NEW on \in BOOLEAN, NEW h \in Horizons, Update(k, on, h)
       PROVE  (Same' \/ Turned') /\ (Same' => provenance' = provenance)
  <2>1. kind = "tag" /\ Edit /\ UpdateWrite(row, k, on, h) /\ reading' = reading
    BY <1>12 DEF Update
  <2>2. row.enabled /\ row.keywords = snap.keywords BY <1>4, <1>6, <2>1 DEF SameFeed
  <2>3. midEdits' >= 1 /\ reading' = NoRow BY <1>1, <1>5, <2>1
  <2> QED BY <1>4, <1>11, <2>1, <2>2, <2>3
<1>13. ASSUME NEW k \in Keywords, NEW on \in BOOLEAN, NEW h \in Horizons, LateUpdate(k, on, h)
       PROVE  (Same' \/ Turned') /\ (Same' => provenance' = provenance)
  <2>1. reading # NoRow /\ reading' = NoRow /\ UpdateWrite(reading, k, on, h)
        /\ midEdits' = midEdits
    BY <1>4, <1>13 DEF LateUpdate
  <2>2. kind = "tag" /\ reading \in Rows BY <1>0, <2>1 DEF TypeOK, LostInv
  <2>3. reading.enabled /\ reading.keywords = snap.keywords /\ midEdits >= 1
    BY <1>3, <2>1, <2>2 DEF Same
  <2> QED BY <1>11, <2>1, <2>2, <2>3
<1>14. CASE Delete
  <2>1. kind = "tag" /\ Edit /\ ~row'.exists /\ reading' = reading
    BY <1>14, NoRowTypes DEF Delete
  <2>2. ~Same' BY <2>1 DEF Same, SameFeed
  <2>3. Turned' BY <1>1, <1>2, <1>5, <2>1 DEF Turned, TagIsCurrent
  <2> QED BY <2>2, <2>3
<1>15. ASSUME NEW k \in Keywords, NEW on \in BOOLEAN, NEW h \in Horizons, Create(k, on, h)
       PROVE  FALSE
  BY <1>4, <1>15 DEF Create
<1> QED BY <1>3, <1>7, <1>9, <1>10, <1>12, <1>13, <1>14, <1>15 DEF EditStep, FinishUpdate

LEMMA LostEdit ==
  ASSUME MidCrawlEdits <= 1, TypeInv, LostInv, EditStep
  PROVE  LostInv'
<1>1. UNCHANGED <<now, submitted, updated, kind, stored, pc, snap, stream, newest>>
  BY EditEffects DEF arxiv, crawl
<1>2. /\ \/ ~row'.exists
         \/ row'.exists /\ ~row'.complete /\ row'.watermark <= now
         \/ row.exists /\ SameFeed(row', row) /\ provenance' = provenance
      /\ kind = "category" => reading' = NoRow
      /\ reading' = NoRow \/ reading' = reading \/ (reading' = row /\ row' = row)
  BY EditEffects
<1>a. Forget BY EditForgets DEF LostInv
<1>b. (missed # {} => row.exists /\ row.complete)' BY <1>a DEF Forget
<1>3. LostOnlyIfLeftOut'
  <2>1. CASE ~row'.exists \/ ~row'.complete BY <2>1 DEF LostOnlyIfLeftOut
  <2>2. CASE row.exists /\ SameFeed(row', row) /\ provenance' = provenance
    BY <1>1, <1>a, <2>2 DEF LostOnlyIfLeftOut, LostInv, Forget, SameFeed, Promised, Found, Visible, Kept
  <2> QED BY <1>2, <2>1, <2>2
<1>4. Bounds' BY <1>1, <1>2 DEF Bounds, LostInv, SameFeed
<1>5. (reading # NoRow /\ row.exists => ~row.complete \/ row.keywords = reading.keywords)'
  BY <1>2 DEF LostInv, SameFeed
<1>6. (pc # "idle" => Same \/ Turned)' BY <1>1, EditDuring
<1>7. (pc = "stream" /\ Same => Fetching)'
  <2> SUFFICES ASSUME pc' = "stream", Same' PROVE Fetching' OBVIOUS
  <2>1. Same /\ provenance' = provenance /\ pc = "stream" BY <1>1, EditDuring
  <2>2. row'.exists /\ row'.complete = row.complete BY <1>1, <2>1 DEF Same, SameFeed
  <2>3. missed' = missed /\ omitted' = omitted BY <1>a, <2>2 DEF Forget, LostInv
  <2> QED BY <1>1, <2>1, <2>3 DEF LostInv, Fetching, Kept, Found, Visible
<1> QED BY <1>1, <1>2, <1>b, <1>3, <1>4, <1>5, <1>6, <1>7 DEF LostInv

\* What is stored and recorded by one batch.
LEMMA FlushKeeps ==
  ASSUME TypeInv, Flush
  PROVE  /\ \A p \in Papers : Kept(p) => Kept(p)'
         /\ Same => \A p \in stream : p \in stream' \/ Kept(p)'
         /\ stream' \subseteq stream
         /\ newest' = newest \/ \E p \in Papers : newest' = updated[p]
         /\ UNCHANGED <<arxiv, kind, row, pc, snap, web, omitted, missed>>
<1>0. TypeOK BY DEF TypeInv
<1>1. PICK batch \in SUBSET stream :
        /\ stored' = [p \in Papers |-> IF p \in batch THEN updated[p] ELSE stored[p]]
        /\ provenance' = IF TagIsCurrent THEN provenance \union batch ELSE provenance
        /\ newest' = MaxOf({newest} \union {updated[p] : p \in batch})
        /\ stream' = stream \ batch
  BY DEF Flush
<1>2. UNCHANGED <<arxiv, kind, row, pc, snap, web, omitted, missed>> BY DEF Flush, history
<1>3. updated' = updated /\ kind' = kind BY <1>2 DEF arxiv
<1>4. stream \subseteq Papers BY <1>0 DEF TypeOK
<1>5. newest' \in {newest} \union {updated[p] : p \in batch} BY <1>0, <1>1, NewestTypes
<1>6. \A p \in Papers : Kept(p) => Kept(p)' BY <1>1, <1>3 DEF Kept
<1>7. ASSUME Same, NEW p \in batch PROVE Kept(p)'
  <2>1. kind = "tag" => TagIsCurrent BY <1>7 DEF Same, SameFeed, TagIsCurrent
  <2> QED BY <1>1, <1>3, <1>4, <1>7, <2>1 DEF Kept
<1> QED BY <1>1, <1>2, <1>4, <1>5, <1>6, <1>7

LEMMA LostCrawl ==
  ASSUME QuickEdits, TypeInv, LostInv, CrawlStep
  PROVE  LostInv'
<1>0. TypeOK /\ (row.exists => row \in Rows) /\ (snap.exists => snap \in Rows)
  BY NoRowTypes DEF TypeInv, TypeOK
<1>1. reading = NoRow /\ reading' = NoRow
  BY DEF CrawlStep, ReadRow, OpenStream, Flush, Finalize, CrawlMayStep, web
<1>2. UNCHANGED <<now, submitted, updated, kind>> /\ now \in Times
  BY <1>0 DEF CrawlStep, ReadRow, OpenStream, Flush, Finalize, arxiv, TypeOK
<1>3. CASE ReadRow
  <2>1. snap' = row /\ pc' = "open" /\ row.exists /\ row.enabled
        /\ UNCHANGED <<row, stored, provenance, newest, missed>>
    BY <1>3 DEF ReadRow, history
  <2>2. Same' BY <1>1, <2>1 DEF Same, SameFeed
  <2>3. LostOnlyIfLeftOut' /\ Bounds'
    BY <1>2, <2>1 DEF LostInv, LostOnlyIfLeftOut, Bounds, Promised, Found, Visible, Kept
  <2> QED BY <1>1, <2>1, <2>2, <2>3 DEF LostInv
<1>4. CASE OpenStream
  <2>1. /\ pc # "idle" /\ pc' = "stream" /\ newest' = snap.watermark
        /\ stream' \union omitted' = {p \in Found(snap.keywords) : Boundary(snap, p) > Cutoff(snap)}
        /\ UNCHANGED <<row, stored, provenance, snap, reading, midEdits, missed>>
    BY <1>4 DEF OpenStream, web
  <2>2. LostOnlyIfLeftOut' /\ Bounds'
    <3>1. snap.exists BY <2>1 DEF TypeInv
    <3> QED BY <1>2, <2>1, <3>1 DEF LostInv, LostOnlyIfLeftOut, Bounds, Promised, Found, Visible, Kept
  <2>3. (Same \/ Turned)' /\ (Same' => Same)
    BY <1>2, <2>1 DEF LostInv, Same, Turned, TagIsCurrent
  <2>4. ASSUME Same PROVE Fetching'
    <3> SUFFICES ASSUME NEW p \in Found(snap.keywords), submitted[p] > snap.from
                 PROVE  \/ Kept(p) \/ p \in stream' \union omitted' \union missed
                        \/ updated[p] >= now - Lag
      BY <1>2, <2>1 DEF Fetching, Kept, Found, Visible
    <3>1. row \in Rows /\ snap \in Rows /\ SameFeed(row, snap)
      BY <1>0, <2>1, <2>4 DEF Same, SameFeed, TypeInv
    <3>2. CASE ~snap.complete BY <2>1, <3>2 DEF Boundary, Cutoff
    <3>3. CASE snap.complete
      <4>1. Kept(p) \/ p \in missed \/ updated[p] > snap.watermark - Overlap
        BY <3>1, <3>3, RowTypes DEF LostInv, LostOnlyIfLeftOut, Promised, SameFeed
      <4> QED BY <2>1, <3>3, <4>1 DEF Boundary, Cutoff
    <3> QED BY <3>2, <3>3
  <2> QED BY <1>1, <2>1, <2>2, <2>3, <2>4 DEF LostInv
<1>5. CASE Flush
  <2>1. UNCHANGED <<row, pc, snap, reading, midEdits, omitted, missed>> /\ pc = "stream"
    BY <1>5, FlushKeeps DEF web, Flush
  <2>2. \A p \in Papers : Kept(p) => Kept(p)' BY <1>5, FlushKeeps
  <2>3. newest' = newest \/ \E p \in Papers : newest' = updated[p] BY <1>5, FlushKeeps
  <2>4. Bounds' BY <1>2, <2>1, <2>3 DEF LostInv, Bounds
  <2>5. LostOnlyIfLeftOut'
    BY <1>2, <2>1, <2>2 DEF LostInv, LostOnlyIfLeftOut, Promised, Found, Visible
  <2>6. (Same \/ Turned)' /\ (Same' => Same)
    BY <1>2, <2>1 DEF LostInv, Same, Turned, TagIsCurrent
  <2>7. ASSUME Same PROVE Fetching'
    <3>1. \A p \in stream : p \in stream' \/ Kept(p)' BY <1>5, <2>7, FlushKeeps
    <3> QED BY <1>2, <2>1, <2>2, <2>7, <3>1 DEF LostInv, Fetching, Found, Visible
  <2> QED BY <1>1, <2>1, <2>4, <2>5, <2>6, <2>7 DEF LostInv
<1>6. CASE Finalize
  <2>1. /\ pc = "stream" /\ pc' = "idle" /\ stream = {} /\ snap' = NoRow /\ newest' = Never
        /\ UNCHANGED stored
    BY <1>6 DEF Finalize, StreamIsRead
  <2>2. CASE /\ UNCHANGED row
             /\ kind = "tag" /\ UNCHANGED missed
             /\ provenance' = IF row.exists /\ row.keywords # snap.keywords THEN {} ELSE provenance
             /\ ~TagIsCurrent
    <3>1. Turned
      <4>1. Same \/ Turned BY <2>1 DEF LostInv
      <4>2. Same => TagIsCurrent BY <2>2 DEF Same, SameFeed, TagIsCurrent
      <4> QED BY <2>2, <4>1, <4>2
    <3>2. LostOnlyIfLeftOut'
      <4>1. CASE row.exists /\ row.keywords # snap.keywords
        BY <2>2, <3>1, <4>1 DEF LostOnlyIfLeftOut, Turned
      <4>2. CASE ~(row.exists /\ row.keywords # snap.keywords)
        <5>1. UNCHANGED <<row, provenance, missed>> BY <2>2, <4>2
        <5> QED BY <1>2, <2>1, <5>1 DEF LostInv, LostOnlyIfLeftOut, Promised, Found, Visible, Kept
      <4> QED BY <4>1, <4>2
    <3>3. Bounds'
      BY <1>2, <2>1, <2>2, NoRowTypes DEF LostInv, Bounds, Times, Never
    <3> QED BY <1>1, <1>2, <2>1, <2>2, <3>2, <3>3 DEF LostInv
  <2>3. CASE /\ row' = [row EXCEPT !.complete = TRUE,
                                   !.watermark = IF newest = Never THEN now ELSE newest]
             /\ UNCHANGED provenance
             /\ missed' = {p \in omitted \union missed : ~Kept(p)}
             /\ kind = "category" \/ TagIsCurrent
    <3>1. Same
      <4>1. Same \/ Turned BY <2>1 DEF LostInv
      <4> QED BY <2>3, <4>1 DEF Turned
    <3>2. row \in Rows /\ SameFeed(row, snap) BY <1>0, <3>1 DEF Same, SameFeed
    <3> DEFINE w == IF newest = Never THEN now ELSE newest
    <3>3. w \in Times /\ w <= now BY <1>0, <1>2 DEF LostInv, Bounds, TypeOK, Times
    <3>4. /\ row'.exists /\ row'.keywords = snap.keywords /\ row'.from = snap.from
          /\ row'.watermark = w /\ row'.complete
      <4> HIDE DEF w
      <4>1. row' = [row EXCEPT !.complete = TRUE, !.watermark = w] BY <2>3 DEF w
      <4> QED BY <3>2, <4>1 DEF Rows, SameFeed
    <3> HIDE DEF w
    <3>5. LostOnlyIfLeftOut'
      <4> SUFFICES ASSUME NEW p \in Promised' PROVE Kept(p)' \/ p \in missed' \/ updated'[p] > row'.watermark - Overlap
        BY DEF LostOnlyIfLeftOut
      <4>1. p \in Found(snap.keywords) /\ submitted[p] > snap.from
        BY <1>2, <3>4 DEF Promised, Found, Visible
      <4>2. Kept(p) \/ p \in missed' \/ updated[p] >= now - Lag
        BY <2>1, <2>3, <3>1, <4>1 DEF LostInv, Fetching
      <4>3. p \in Papers /\ updated[p] \in Int BY <1>0, <4>1 DEF Found, Visible, TypeOK, Times, Never
      <4>4. now - Lag > w - Overlap BY <1>2, <3>3 DEF Times
      <4>5. updated[p] >= now - Lag => updated[p] > w - Overlap
        BY <1>2, <3>3, <4>3, <4>4 DEF Times
      <4>6. Kept(p) => Kept(p)' BY <1>2, <2>1, <2>3 DEF Kept
      <4> QED BY <1>2, <3>4, <4>2, <4>5, <4>6
    <3>6. Bounds'
      BY <1>2, <2>1, <3>3, <3>4, NoRowTypes DEF LostInv, Bounds, Times, Never
    <3> QED BY <1>1, <2>1, <3>4, <3>5, <3>6 DEF LostInv
  <2>4. \/ /\ kind = "category" \/ TagIsCurrent
           /\ row' = [row EXCEPT !.complete = TRUE,
                                 !.watermark = IF newest = Never THEN now ELSE newest]
           /\ UNCHANGED provenance
           /\ missed' = {p \in omitted \union missed : ~Kept(p)}
        \/ /\ kind = "tag" /\ ~TagIsCurrent
           /\ provenance' = IF row.exists /\ row.keywords # snap.keywords
                              THEN {} ELSE provenance
           /\ UNCHANGED <<row, missed>>
    BY <1>6 DEF Finalize
  <2> QED BY <2>2, <2>3, <2>4
<1> QED BY <1>3, <1>4, <1>5, <1>6 DEF CrawlStep

\* A paper or a revision that appears is ahead of every cutoff to come.
LEMMA LostPublish ==
  ASSUME TypeInv, LostInv, NEW p \in Papers, Publish(p)
  PROVE  LostInv'
<1>0. TypeOK /\ now \in Times /\ (row.exists => row \in Rows) BY NoRowTypes DEF TypeInv, TypeOK
<1>1. PICK t \in Times :
        /\ now - Lag <= t /\ t <= now
        /\ updated' = [updated EXCEPT ![p] = t]
        /\ submitted' = [submitted EXCEPT ![p] = IF @ = Never THEN t ELSE @]
  BY DEF Publish
<1>2. /\ stream \subseteq Papers /\ stream' \subseteq Papers /\ stream \subseteq stream' \union {p}
      /\ omitted' = omitted \ {p} /\ missed' = missed \ {p}
      /\ UNCHANGED <<now, kind, row, stored, provenance, pc, snap, newest, reading, midEdits>>
  BY <1>0 DEF Publish, web, TypeOK
<1>3. /\ updated'[p] = t
      /\ \A q \in Papers \ {p} : updated'[q] = updated[q] /\ submitted'[q] = submitted[q]
  BY <1>0, <1>1 DEF TypeOK
<1>4. \A q \in Papers \ {p} : Kept(q)' <=> Kept(q) BY <1>2, <1>3 DEF Kept
<1>5. \A k \in Keywords, q \in Papers \ {p} : q \in Found(k)' => q \in Found(k)
  BY <1>3 DEF Found, Visible
<1>6. LostOnlyIfLeftOut'
  <2> SUFFICES ASSUME row.exists, row.complete, NEW q \in Promised'
               PROVE  Kept(q)' \/ q \in missed' \/ updated'[q] > row.watermark - Overlap
    BY <1>2 DEF LostOnlyIfLeftOut
  <2>1. q \in Papers BY DEF Promised, Found, Visible
  <2>2. CASE q = p
    <3>1. row.watermark \in Int /\ row.watermark <= now
      BY <1>0, RowTypes DEF LostInv, Bounds, Times, Never
    <3> QED BY <1>0, <1>1, <1>3, <2>2, <3>1 DEF Times
  <2>3. CASE q # p
    <3>1. q \in Promised BY <1>2, <1>3, <2>1, <2>3 DEF Promised, Found, Visible
    <3> QED BY <1>2, <1>3, <1>4, <2>1, <2>3, <3>1 DEF LostInv, LostOnlyIfLeftOut
  <2> QED BY <2>2, <2>3
<1>7. Bounds' BY <1>1, <1>2, <1>3 DEF LostInv, Bounds
<1>8. (Same \/ Turned)' <=> (Same \/ Turned) BY <1>2 DEF Same, Turned, TagIsCurrent
<1>9. Same' <=> Same BY <1>2 DEF Same
<1>10. ASSUME Fetching PROVE Fetching'
  <2> SUFFICES ASSUME NEW q \in Found(snap.keywords)', submitted'[q] > snap.from
               PROVE  \/ Kept(q)' \/ q \in stream' \union omitted' \union missed'
                      \/ updated'[q] >= now - Lag
    BY <1>2 DEF Fetching
  <2>1. q \in Papers BY DEF Found, Visible
  <2>2. CASE q = p BY <1>0, <1>1, <1>3, <2>2 DEF Times
  <2>3. CASE q # p
    <3>1. q \in Found(snap.keywords) BY <1>2, <1>3, <2>1, <2>3 DEF Found, Visible
    <3> QED BY <1>2, <1>3, <1>4, <1>10, <2>1, <2>3, <3>1 DEF Fetching
  <2> QED BY <2>2, <2>3
<1> QED BY <1>2, <1>6, <1>7, <1>8, <1>9, <1>10 DEF LostInv

LEMMA LostInit == Init => LostInv
<1> SUFFICES ASSUME Init PROVE LostInv OBVIOUS
<1>1. /\ now = 0 /\ updated = [p \in Papers |-> Never] /\ pc = "idle" /\ snap = NoRow
      /\ newest = Never /\ reading = NoRow /\ row.watermark = Never /\ ~row.complete
      /\ missed = {}
  BY DEF Init
<1> QED BY <1>1, NoRowTypes DEF LostInv, LostOnlyIfLeftOut, Bounds, Never

\* If no crawl steps between the read and the write of an update, and at most
\* one edit is committed during a crawl, a source that counts as backfilled
\* has every promised paper, or reads it again with its next crawl, except for
\* those that the client left out of the stream of a crawl that completed it:
\* whatever the client leaves out, the crawls lose nothing else.
THEOREM OnlyWhatIsLeftOutIsLost ==
  ASSUME QuickEdits, MidCrawlEdits <= 1
  PROVE  Spec => []LostOnlyIfLeftOut
<1>1. TypeInv /\ LostInv /\ [Next]_vars => LostInv'
  <2> SUFFICES ASSUME TypeInv, LostInv, [Next]_vars PROVE LostInv' OBVIOUS
  <2>1. CASE UNCHANGED vars
    BY <2>1 DEF vars, arxiv, crawl, web, history, LostInv, LostOnlyIfLeftOut, Bounds, Same, Turned, Fetching,
                TagIsCurrent, Promised, Found, Visible, Kept
  <2>2. CASE Tick
    <3>1. /\ pc' = "idle" /\ now' = now + 1 /\ now \in Nat
          /\ UNCHANGED <<submitted, updated, kind, row, stored, provenance, snap, newest, reading, missed>>
      BY <2>2 DEF Tick, crawl, web, history, TypeInv, TypeOK, Times
    <3>2. LostOnlyIfLeftOut'
      BY <3>1 DEF LostInv, LostOnlyIfLeftOut, Promised, Found, Visible, Kept
    <3>3. /\ \A p \in Papers : updated[p] \in Int
          /\ row.exists => row.watermark \in Int
          /\ snap.exists => snap.watermark \in Int
          /\ newest \in Int
      BY RowTypes, NoRowTypes DEF TypeInv, TypeOK, Times, Never
    <3>4. Bounds' BY <3>1, <3>3 DEF LostInv, Bounds
    <3> QED BY <3>1, <3>2, <3>4 DEF LostInv
  <2>3. CASE Fail
    <3>1. /\ pc' = "idle" /\ snap' = NoRow /\ newest' = Never /\ now \in Nat
          /\ UNCHANGED <<now, submitted, updated, kind, row, stored, provenance, reading, missed>>
      BY <2>3 DEF Fail, arxiv, TypeInv, TypeOK, Times
    <3> QED BY <3>1, NoRowTypes DEF LostInv, LostOnlyIfLeftOut, Bounds, Promised, Found, Visible, Kept, Never
  <2> QED BY <2>1, <2>2, <2>3, LostEdit, LostCrawl, LostPublish DEF Next
<1>2. LostInv => LostOnlyIfLeftOut BY DEF LostInv
<1> QED BY TypeInit, TypeNext, LostInit, <1>1, <1>2, PTL DEF Spec
=============================================================================
