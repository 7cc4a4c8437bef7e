--------------------------- MODULE PdfCacheProofs ---------------------------
(***************************************************************************)
(* Proofs about PdfCache, for any number of threads and versions: types,   *)
(* one current version, ready rows with whole files and true labels, what  *)
(* a recorded version may leave unmarked and what a failure may cost.      *)
(***************************************************************************)
EXTENDS PdfCache, TLAPS

\* The rows and the files have their types; so have the threads.
LEMMA TypeInit == Init => TypeOK
BY PdfAssumption DEF PdfAssumption, Init, TypeOK, Keys, Versions, NoSum, NoRow

LEMMA TypeNext == TypeOK /\ [Next]_vars => TypeOK'
<1> SUFFICES ASSUME TypeOK, [Next]_vars PROVE TypeOK'
  OBVIOUS
<1> USE DEF TypeOK, Keys, Versions, NoSum, history
<1>1. CASE Publish
  BY <1>1, PdfAssumption DEF PdfAssumption, Publish, ensures
<1>2. ASSUME NEW u \in Updaters, FetchRecord(u) PROVE TypeOK'
  BY <1>2, PdfAssumption DEF PdfAssumption, FetchRecord, RecordVersion, ensures
<1>3. ASSUME NEW u \in Updaters, Upsert(u) PROVE TypeOK'
  <2>1. record[u] \in 1..published /\ latest' = record[u]
    BY <1>3 DEF Upsert
  <2>2. latest' \in 1..published' /\ published' \in Versions /\ kind' = kind
    BY <1>3, <2>1 DEF Upsert
  <2>3. record' \in [Updaters -> NoSum..published']
    BY <1>3, PdfAssumption DEF PdfAssumption, Upsert
  <2>4. docs' \in [Keys -> [status : {"none", "ready", "failed"}, stale : BOOLEAN,
                          checksum : Keys]]
    <3> DEFINE Rows == [status : {"none", "ready", "failed"}, stale : BOOLEAN, checksum : Keys]
    <3>1. docs \in [Keys -> Rows] /\ \A row \in Rows : [row EXCEPT !.stale = TRUE] \in Rows
      OBVIOUS
    <3> HIDE DEF Rows, TypeOK, Keys, Versions
    <3>2. docs' \in [Keys -> Rows]
      BY <1>3, <3>1 DEF Upsert
    <3> QED
      BY <3>2 DEF Rows
  <2>5. alone' \in [Openers -> BOOLEAN] /\ overtaken' \subseteq Keys
    BY <1>3 DEF Upsert, Opening
  <2> QED
    BY <1>3, <2>2, <2>3, <2>4, <2>5 DEF Upsert, ensures
<1>4. ASSUME NEW e \in Openers, Ensure(e) PROVE TypeOK'
  <2>1. CASE ReadPaper(e)
    <3>1. latest \in Keys /\ NoSum \in Keys
      BY PdfAssumption DEF PdfAssumption
    <3>2. target' \in [Openers -> Keys] /\ content' \in [Openers -> Keys]
      BY <2>1, <3>1 DEF ReadPaper
    <3>3. alone' \in [Openers -> BOOLEAN] /\ overtaken' = overtaken
      BY <2>1 DEF ReadPaper
    <3> QED
      BY <2>1, <3>2, <3>3 DEF ReadPaper, Goto, paper
  <2>2. CASE CheckCached(e)
    BY <2>2 DEF CheckCached, Goto, paper
  <2>3. CASE Download(e)
    BY <2>3 DEF Download, Goto, paper
  <2>4. CASE DownloadFails(e)
    BY <2>4 DEF DownloadFails, Goto, paper
  <2>5. CASE Compare(e)
    BY <2>5 DEF Compare, Goto, paper
  <2>6. CASE Touch(e)
    BY <2>6 DEF Touch, Goto, paper
  <2>7. CASE Store(e)
    BY <2>7 DEF Store, WrittenAside, Goto, paper
  <2>8. CASE StoreDone(e)
    BY <2>8 DEF StoreDone, Goto, paper
  <2>9. CASE StoreFails(e)
    BY <2>9 DEF StoreFails, Goto, paper
  <2>10. CASE RecordFailure(e)
    BY <2>10 DEF RecordFailure, Goto, paper
  <2>11. CASE Commit(e)
    BY <2>11 DEF Commit, Superseded, Goto, paper
  <2> QED
    BY <1>4, <2>1, <2>2, <2>3, <2>4, <2>5, <2>6, <2>7, <2>8, <2>9, <2>10, <2>11
       DEF Ensure
<1>5. CASE Crash
  BY <1>5 DEF Crash
<1>6. CASE RemoveFile
  BY <1>6 DEF RemoveFile, paper, ensures
<1>7. CASE UNCHANGED vars
  BY <1>7 DEF vars, paper, ensures
<1> QED
  BY <1>1, <1>2, <1>3, <1>4, <1>5, <1>6, <1>7 DEF Next

\* The types of PdfCache.
THEOREM TypeCorrect == Spec => []TypeOK
BY TypeInit, TypeNext, PTL DEF Spec

-----------------------------------------------------------------------------
\* A row counts as current.
Fresh(k) == docs[k].status = "ready" /\ ~docs[k].stale

\* A step after which no row counts as current that did not before.
LEMMA FreshShrinks ==
  ASSUME AtMostOneFresh, \A k \in Keys : Fresh(k)' => Fresh(k)
  PROVE  AtMostOneFresh'
BY DEF AtMostOneFresh, Fresh, Keys, Versions

\* A step after which one given row at most counts as current.
LEMMA OneRemainsFresh ==
  ASSUME NEW one, \A k \in Keys : Fresh(k)' => k = one
  PROVE  AtMostOneFresh'
BY DEF AtMostOneFresh, Fresh, Keys, Versions

\* No step makes a second version current.
LEMMA OneFreshNext == TypeOK /\ AtMostOneFresh /\ [Next]_vars => AtMostOneFresh'
<1> SUFFICES ASSUME TypeOK, AtMostOneFresh, [Next]_vars PROVE AtMostOneFresh'
  OBVIOUS
<1>1. CASE UNCHANGED docs
  BY <1>1, FreshShrinks DEF Fresh
<1>2. ASSUME NEW u \in Updaters, Upsert(u) PROVE AtMostOneFresh'
  <2>1. ASSUME NEW k \in Keys PROVE Fresh(k)' => Fresh(k)
    BY <1>2, <2>1 DEF Upsert, Fresh, TypeOK
  <2> QED
    BY <2>1, FreshShrinks
<1>3. ASSUME NEW e \in Openers, Touch(e) PROVE AtMostOneFresh'
  <2>1. ASSUME NEW k \in Keys PROVE Fresh(k)' => k = Key(e)
    BY <1>3, <2>1 DEF Touch, Fresh, TypeOK
  <2> QED
    BY <2>1, OneRemainsFresh
<1>4. ASSUME NEW e \in Openers, RecordFailure(e) PROVE AtMostOneFresh'
  <2>1. ASSUME NEW k \in Keys PROVE Fresh(k)' => Fresh(k)
    BY <1>4, <2>1 DEF RecordFailure, Fresh, TypeOK
  <2> QED
    BY <2>1, FreshShrinks
<1>5. ASSUME NEW e \in Openers, Commit(e) PROVE AtMostOneFresh'
  <2>1. ASSUME NEW k \in Keys PROVE Fresh(k)' => k = Key(e)
    BY <1>5, <2>1 DEF Commit, Superseded, Fresh, TypeOK
  <2> QED
    BY <2>1, OneRemainsFresh
<1>6. CASE ~ UNCHANGED docs
  BY <1>2, <1>3, <1>4, <1>5, <1>6
     DEF Next, Publish, FetchRecord, Ensure, ReadPaper, CheckCached, Download,
         DownloadFails, Compare, Store, StoreDone, StoreFails, Crash, RemoveFile, vars
<1> QED
  BY <1>1, <1>6

\* At most one cached version counts as current, for any number of threads that
\* cache PDFs of the paper and record its versions.
THEOREM OneVersionIsCurrent == Spec => []AtMostOneFresh
<1>1. Init => AtMostOneFresh
  BY DEF Init, AtMostOneFresh, NoRow, Keys
<1> QED
  BY <1>1, TypeCorrect, OneFreshNext, PTL DEF Spec
-----------------------------------------------------------------------------
\* What a thread knows at the points of ensure: a version it read, then a content
\* it downloaded, which is the content of its row's key if URLs are versioned.
ThreadKnows(e) ==
  /\ pc[e] # "idle" => target[e] \in Versions
  /\ pc[e] \in {"compare", "touch", "store", "write", "commit"} =>
       content[e] \in Versions /\ (VersionedUrl => content[e] = Key(e))
Knowing == \A e \in Openers : ThreadKnows(e)

\* Threads only step on their own points.
LEMMA KnowingNext == TypeOK /\ Knowing /\ [Next]_vars => Knowing'
<1> SUFFICES ASSUME TypeOK, Knowing, [Next]_vars, NEW e \in Openers PROVE ThreadKnows(e)'
  BY DEF Knowing
<1>1. CASE UNCHANGED <<pc, target, content, kind>>
  BY <1>1 DEF Knowing, ThreadKnows, Key
<1>2. CASE Crash
  BY <1>2 DEF Crash, ThreadKnows
<1>3. ASSUME NEW f \in Openers, Ensure(f) PROVE ThreadKnows(e)'
  <2>0. ThreadKnows(e) /\ ThreadKnows(f) /\ published \in Versions /\ kind' = kind
        /\ latest \in Versions /\ kind \in {"arxiv", "external"}
    <3>1. ThreadKnows(e) /\ ThreadKnows(f)
      BY DEF Knowing
    <3>2. published \in Versions /\ latest \in Versions
      BY PdfAssumption DEF TypeOK, Versions, PdfAssumption
    <3>3. kind' = kind
      BY <1>3 DEF Ensure, ReadPaper, CheckCached, Download, DownloadFails, Compare, Touch,
                  Store, StoreDone, StoreFails, RecordFailure, Commit, paper
    <3> QED
      BY <3>1, <3>2, <3>3 DEF TypeOK
  <2>1. CASE ReadPaper(f)
    BY <2>0, <2>1 DEF ReadPaper, Goto, ThreadKnows, Key, TypeOK
  <2>2. CASE CheckCached(f)
    BY <2>0, <2>2 DEF CheckCached, Goto, ThreadKnows, Key, TypeOK
  <2>3. CASE Download(f)
    BY <2>0, <2>3 DEF Download, Goto, ThreadKnows, Key, TypeOK
  <2>4. CASE DownloadFails(f)
    BY <2>0, <2>4 DEF DownloadFails, Goto, ThreadKnows, Key, TypeOK
  <2>5. CASE Compare(f)
    BY <2>0, <2>5 DEF Compare, Goto, ThreadKnows, Key, TypeOK
  <2>6. CASE Touch(f) \/ RecordFailure(f) \/ Commit(f)
    BY <2>0, <2>6 DEF Touch, RecordFailure, Commit, Goto, ThreadKnows, Key, TypeOK
  <2>7. CASE Store(f)
    BY <2>0, <2>7 DEF Store, Goto, ThreadKnows, Key, TypeOK
  <2>8. CASE StoreDone(f) \/ StoreFails(f)
    BY <2>0, <2>8 DEF StoreDone, StoreFails, Goto, ThreadKnows, Key, TypeOK
  <2> QED
    BY <1>3, <2>1, <2>2, <2>3, <2>4, <2>5, <2>6, <2>7, <2>8 DEF Ensure
<1> QED
  BY <1>1, <1>2, <1>3
     DEF Next, Publish, FetchRecord, Upsert, RemoveFile, paper, ensures, vars

\* The file a thread is about to commit is whole, and so are those of ready rows.
IsWhole(k, c) == files[<<k, c>>] \in {"whole", "removed"}
Intact ==
  /\ \A k \in Keys : docs[k].status = "ready" =>
       docs[k].checksum \in Versions /\ IsWhole(k, docs[k].checksum)
  /\ \A e \in Openers : pc[e] = "commit" => IsWhole(Key(e), content[e])
  /\ \A f \in Keys \X Versions : files[f] # "partial"

\* No step leaves a row or a thread with a file that is not whole.
LEMMA IntactNext == TypeOK /\ Knowing /\ Intact /\ [Next]_vars => Intact'
<1> SUFFICES ASSUME TypeOK, Knowing, Intact, [Next]_vars PROVE Intact'
  OBVIOUS
<1>0. \A e \in Openers : Key(e) \in Keys
  BY DEF TypeOK, Key
<1>1. CASE UNCHANGED <<kind, docs, files, ensures>>
  BY <1>1 DEF Intact, IsWhole, Key, ensures
<1>2. CASE Crash
  BY <1>2 DEF Crash, Intact, IsWhole
<1>3. CASE RemoveFile
  BY <1>3 DEF RemoveFile, Intact, IsWhole, Key, TypeOK, paper, ensures
<1>4. ASSUME NEW u \in Updaters, Upsert(u) PROVE Intact'
  <2>1. \A k \in Keys : docs'[k].status = docs[k].status /\ docs'[k].checksum = docs[k].checksum
    BY <1>4 DEF Upsert, TypeOK
  <2> QED
    BY <1>4, <2>1 DEF Upsert, Intact, IsWhole, Key, ensures
<1>5. ASSUME NEW e \in Openers, Ensure(e) PROVE Intact'
  <2>0. kind' = kind
    BY <1>5 DEF Ensure, ReadPaper, CheckCached, Download, DownloadFails, Compare, Touch,
                Store, StoreDone, StoreFails, RecordFailure, Commit, paper
  <2>1. CASE ReadPaper(e) \/ CheckCached(e) \/ Download(e) \/ DownloadFails(e) \/ Compare(e)
             \/ StoreFails(e)
    <3>1. UNCHANGED <<docs, files>>
      BY <2>1 DEF ReadPaper, CheckCached, Download, DownloadFails, Compare, StoreFails
    <3>2. ASSUME NEW d \in Openers, pc'[d] = "commit"
          PROVE  pc[d] = "commit" /\ Key(d)' = Key(d) /\ content'[d] = content[d]
      BY <2>0, <2>1, <3>2 DEF ReadPaper, CheckCached, Download, DownloadFails, Compare,
                              StoreFails, Goto, Key, TypeOK
    <3> QED
      BY <3>1, <3>2 DEF Intact, IsWhole
  <2>2. CASE Touch(e) \/ RecordFailure(e)
    <3>1. \A k \in Keys : docs'[k].status = "ready" =>
            docs[k].status = "ready" /\ docs'[k].checksum = docs[k].checksum
      BY <2>2, <1>0 DEF Touch, RecordFailure, TypeOK
    <3>2. \A d \in Openers : pc'[d] = "commit" => pc[d] = "commit"
      BY <2>2 DEF Touch, RecordFailure, Goto, TypeOK
    <3>3. UNCHANGED <<files, target, content>>
      BY <2>2 DEF Touch, RecordFailure
    <3> QED
      BY <2>0, <3>1, <3>2, <3>3 DEF Intact, IsWhole, Key
  <2>3. CASE Store(e)
    <3>1. files' = files
      BY <2>3 DEF Store, WrittenAside, TypeOK
    <3>2. pc'[e] = "commit" => IsWhole(Key(e), content[e])
      BY <2>3, <1>0 DEF Store, Goto, IsWhole, TypeOK, Knowing, ThreadKnows, Intact
    <3>3. \A d \in Openers : d # e => pc'[d] = pc[d]
      BY <2>3 DEF Store, Goto, TypeOK
    <3> QED
      BY <2>0, <2>3, <3>1, <3>2, <3>3 DEF Store, Intact, IsWhole, Key
  <2>4. CASE StoreDone(e)
    <3>1. content[e] \in Versions /\ <<Key(e), content[e]>> \in Keys \X Versions
      BY <2>4, <1>0 DEF StoreDone, Knowing, ThreadKnows
    <3>2. files' = [files EXCEPT ![<<Key(e), content[e]>>] = "whole"]
      BY <2>4 DEF StoreDone
    <3>3. \A f \in Keys \X Versions :
            files'[f] = files[f] \/ (f = <<Key(e), content[e]>> /\ files'[f] = "whole")
      BY <3>2 DEF TypeOK
    <3>4. files'[<<Key(e), content[e]>>] = "whole"
      BY <3>1, <3>2 DEF TypeOK
    <3>5. \A d \in Openers : d # e => pc'[d] = pc[d]
      BY <2>4 DEF StoreDone, Goto, TypeOK
    <3>6. \A d \in Openers : pc[d] = "commit" => content[d] \in Versions
      BY DEF Knowing, ThreadKnows
    <3>7. \A k \in Keys, c \in Versions : IsWhole(k, c) => IsWhole(k, c)'
      BY <3>3 DEF IsWhole
    <3> QED
      BY <1>0, <2>0, <2>4, <3>3, <3>4, <3>5, <3>6, <3>7
         DEF StoreDone, Intact, IsWhole, Key
  <2>5. CASE Commit(e)
    <3>1. content[e] \in Versions /\ IsWhole(Key(e), content[e])
      BY <2>5 DEF Commit, Knowing, ThreadKnows, Intact
    <3>2. \A k \in Keys : docs'[k].status = "ready" =>
            \/ k = Key(e) /\ docs'[k].checksum = content[e]
            \/ docs[k].status = "ready" /\ docs'[k].checksum = docs[k].checksum
      BY <2>5 DEF Commit, Superseded, TypeOK
    <3>3. \A d \in Openers : pc'[d] = "commit" => pc[d] = "commit"
      BY <2>5 DEF Commit, Goto, TypeOK
    <3> QED
      BY <2>0, <2>5, <3>1, <3>2, <3>3 DEF Commit, Intact, IsWhole, Key
  <2> QED
    BY <1>5, <2>1, <2>2, <2>3, <2>4, <2>5 DEF Ensure
<1> QED
  BY <1>1, <1>2, <1>3, <1>4, <1>5 DEF Next, Publish, FetchRecord, ensures, vars, paper

\* A row that says "ready" names a whole file, for any number of threads, and
\* wherever the server is killed.
THEOREM ReadyRowsAreIntact == Spec => []ReadyIsIntact
<1>1. Init => Knowing /\ Intact
  BY DEF Init, Knowing, ThreadKnows, Intact, NoRow, Keys
<1>2. Intact => ReadyIsIntact
  BY DEF Intact, IsWhole, ReadyIsIntact, File
<1> QED
  BY <1>1, <1>2, TypeCorrect, KnowingNext, IntactNext, PTL DEF Spec

-----------------------------------------------------------------------------
\* Only Commit gives a row a content: that of its key.
LEMMA LabelNext ==
  ASSUME VersionedUrl
  PROVE  TypeOK /\ Knowing /\ LabelMatchesContent /\ [Next]_vars => LabelMatchesContent'
<1> SUFFICES ASSUME TypeOK, Knowing, LabelMatchesContent, [Next]_vars
             PROVE  LabelMatchesContent'
  OBVIOUS
<1>1. CASE UNCHANGED docs
  BY <1>1 DEF LabelMatchesContent
<1>2. ASSUME NEW k \in Versions, docs'[k].status = "ready", ~ UNCHANGED docs
      PROVE  docs'[k].checksum = k
  <2>0. k \in Keys
    BY DEF Keys
  <2>1. ASSUME NEW u \in Updaters, Upsert(u) PROVE docs'[k].checksum = k
    BY <1>2, <2>0, <2>1 DEF Upsert, TypeOK, LabelMatchesContent
  <2>2. ASSUME NEW e \in Openers, Touch(e) \/ RecordFailure(e) PROVE docs'[k].checksum = k
    BY <1>2, <2>0, <2>2 DEF Touch, RecordFailure, TypeOK, LabelMatchesContent
  <2>3. ASSUME NEW e \in Openers, Commit(e) PROVE docs'[k].checksum = k
    <3>1. content[e] = Key(e)
      BY <2>3 DEF Commit, Knowing, ThreadKnows
    <3> QED
      BY <1>2, <2>0, <2>3, <3>1 DEF Commit, Superseded, TypeOK, LabelMatchesContent
  <2> QED
    BY <1>2, <2>1, <2>2, <2>3
       DEF Next, Publish, FetchRecord, Ensure, ReadPaper, CheckCached, Download,
           DownloadFails, Compare, Store, StoreDone, StoreFails, Crash, RemoveFile, vars
<1> QED
  BY <1>1, <1>2 DEF LabelMatchesContent

\* If the URL of a paper's PDF names its version, a row labelled with a version
\* holds the content of that version, for any number of threads and versions.
THEOREM LabelsAreTrue ==
  ASSUME VersionedUrl
  PROVE  Spec => []LabelMatchesContent
<1>1. Init => Knowing /\ LabelMatchesContent
  BY DEF Init, Knowing, ThreadKnows, LabelMatchesContent, NoRow, Keys
<1> QED
  BY <1>1, TypeCorrect, KnowingNext, LabelNext, PTL DEF Spec

-----------------------------------------------------------------------------
\* A version that is being opened is the recorded one, or was overtaken.
OvertakenInv ==
  /\ SupersededUnlessOvertaken
  /\ kind = "arxiv" => \A e \in Opening : target[e] = latest \/ target[e] \in overtaken

LEMMA OvertakenNext == TypeOK /\ OvertakenInv /\ [Next]_vars => OvertakenInv'
<1> SUFFICES ASSUME TypeOK, OvertakenInv, [Next]_vars PROVE OvertakenInv'
  OBVIOUS
<1>k. kind' = kind
  <2>1. ASSUME NEW e \in Openers, Ensure(e) PROVE kind' = kind
    BY <2>1 DEF Ensure, ReadPaper, CheckCached, Download, DownloadFails, Compare, Touch, Store,
                StoreDone, StoreFails, RecordFailure, Commit, paper
  <2>2. ASSUME NEW u \in Updaters, FetchRecord(u) \/ Upsert(u) PROVE kind' = kind
    BY <2>2 DEF FetchRecord, Upsert
  <2> QED
    BY <2>1, <2>2 DEF Next, Publish, Crash, RemoveFile, paper, vars
<1> SUFFICES ASSUME kind = "arxiv"
             PROVE  /\ \A k \in Versions : Fresh(k)' /\ k # latest' => k \in overtaken'
                    /\ \A e \in Opening' : target'[e] = latest' \/ target'[e] \in overtaken'
  BY <1>k DEF OvertakenInv, SupersededUnlessOvertaken, Fresh
<1>0. /\ \A k \in Versions : Fresh(k) /\ k # latest => k \in overtaken
      /\ \A e \in Opening : target[e] = latest \/ target[e] \in overtaken
      /\ \A k \in Versions : k \in Keys
  BY DEF OvertakenInv, SupersededUnlessOvertaken, Fresh, Keys
<1>1. ASSUME NEW u \in Updaters, Upsert(u)
      PROVE  /\ \A k \in Versions : Fresh(k)' /\ k # latest' => k \in overtaken'
             /\ \A e \in Opening' : target'[e] = latest' \/ target'[e] \in overtaken'
  <2>1. CASE record[u] = latest
    <3>1. UNCHANGED <<docs, latest, overtaken, target, pc>>
      BY <1>1, <2>1 DEF Upsert, ensures
    <3> QED
      BY <1>0, <3>1 DEF Fresh, Opening
  <2>2. CASE record[u] # latest
    <3>1. \A k \in Versions : Fresh(k)' => k = latest'
      BY <1>0, <1>1, <2>2 DEF Upsert, OtherThan, Fresh, TypeOK
    <3>2. \A e \in Opening' : target'[e] \in overtaken'
      BY <1>1, <2>2 DEF Upsert, Opening, ensures
    <3> QED
      BY <3>1, <3>2
  <2> QED
    BY <2>1, <2>2
<1>2. ASSUME NEW e \in Openers, Ensure(e)
      PROVE  /\ \A k \in Versions : Fresh(k)' /\ k # latest' => k \in overtaken'
             /\ \A f \in Opening' : target'[f] = latest' \/ target'[f] \in overtaken'
  <2>0. UNCHANGED <<latest, overtaken>>
    BY <1>2 DEF Ensure, ReadPaper, CheckCached, Download, DownloadFails, Compare, Touch,
                Store, StoreDone, StoreFails, RecordFailure, Commit, paper, history
  <2>1. \A f \in Opening' : target'[f] = latest \/ target'[f] \in overtaken
    <3>1. CASE ReadPaper(e)
      BY <1>0, <3>1 DEF ReadPaper, Goto, Opening, TypeOK
    <3>2. CASE ~ ReadPaper(e)
      <4>1. target' = target /\ pc[e] # "idle"
        BY <1>2, <3>2 DEF Ensure, CheckCached, Download, DownloadFails, Compare, Touch, Store,
                          StoreDone, StoreFails, RecordFailure, Commit
      <4>2. \A f \in Openers : f # e => pc'[f] = pc[f]
        BY <1>2, <3>2 DEF Ensure, CheckCached, Download, DownloadFails, Compare, Touch, Store,
                          StoreDone, StoreFails, RecordFailure, Commit, Goto, TypeOK
      <4> QED
        BY <1>0, <4>1, <4>2 DEF Opening
    <3> QED
      BY <3>1, <3>2
  <2>2. ASSUME NEW k \in Versions, Fresh(k)', k # latest PROVE k \in overtaken
    <3>1. CASE Commit(e)
      <4>1. Fresh(k)' => k = Key(e)
        BY <1>0, <3>1 DEF Commit, Superseded, Fresh, TypeOK
      <4>2. Key(e) = target[e] /\ e \in Opening
        BY <3>1 DEF Commit, Key, Opening
      <4> QED
        BY <1>0, <2>2, <4>1, <4>2
    <3>2. CASE Touch(e)
      <4>1. Fresh(k)' => k = Key(e)
        BY <1>0, <3>2 DEF Touch, Fresh, TypeOK
      <4>2. Key(e) = target[e] /\ e \in Opening
        BY <3>2 DEF Touch, Key, Opening
      <4> QED
        BY <1>0, <2>2, <4>1, <4>2
    <3>3. CASE RecordFailure(e)
      <4>1. Fresh(k)' => Fresh(k)
        BY <1>0, <3>3 DEF RecordFailure, Fresh, TypeOK
      <4> QED
        BY <1>0, <2>2, <4>1
    <3>4. CASE ~ (Commit(e) \/ Touch(e) \/ RecordFailure(e))
      <4>1. docs' = docs
        BY <1>2, <3>4 DEF Ensure, ReadPaper, CheckCached, Download, DownloadFails, Compare,
                          Store, StoreDone, StoreFails
      <4> QED
        BY <1>0, <2>2, <4>1 DEF Fresh
    <3> QED
      BY <3>1, <3>2, <3>3, <3>4
  <2> QED
    BY <2>0, <2>1, <2>2
<1>3. CASE Crash
  BY <1>0, <1>3 DEF Crash, Fresh, Opening, history
<1>4. CASE UNCHANGED <<docs, latest, overtaken, target, pc>>
  BY <1>0, <1>4 DEF Fresh, Opening
<1> QED
  BY <1>1, <1>2, <1>3, <1>4 DEF Next, Publish, FetchRecord, RemoveFile, ensures, paper, history, vars

\* In whatever order records of versions arrive, and for any number of threads:
\* what counts as current without being so was being opened meanwhile.
THEOREM OnlyTheOvertakenStayFresh == Spec => []SupersededUnlessOvertaken
<1>1. Init => OvertakenInv
  BY DEF Init, OvertakenInv, SupersededUnlessOvertaken, Opening, NoRow, Keys
<1>2. OvertakenInv => SupersededUnlessOvertaken
  BY DEF OvertakenInv
<1> QED
  BY <1>1, <1>2, TypeCorrect, OvertakenNext, PTL DEF Spec

-----------------------------------------------------------------------------
\* While nobody else runs, a thread on its way to a download or a store goes on
\* finding that its version is not cached.
LoneKnows(e) ==
  /\ \A f \in Opening : f = e
  /\ pc[e] \in {"download", "store", "write", "failing"} => ~IsCached(Key(e))

LoneInv ==
  /\ docs[NoSum].status # "ready"
  /\ \A e \in Openers : pc[e] \in {"check", "download"} => content[e] = NoSum
  /\ \A e \in Opening : alone[e] => LoneKnows(e)

LEMMA LoneNext == TypeOK /\ Knowing /\ LoneInv /\ [Next]_vars => LoneInv'
<1> SUFFICES ASSUME TypeOK, Knowing, LoneInv, [Next]_vars PROVE LoneInv'
  OBVIOUS
<1>0. /\ NoSum \in Keys /\ \A k \in Versions : k \in Keys /\ k # NoSum
      /\ \A e \in Openers : Key(e) \in Keys
  BY DEF TypeOK, Key, Keys, Versions, NoSum
\* A step of nobody's ensure.
<1>1. ASSUME UNCHANGED <<kind, ensures, alone>>,
             \A k \in Keys : docs'[k].status = docs[k].status /\ docs'[k].checksum = docs[k].checksum,
             \A f : files'[f] \in {"partial", "whole"} => files[f] \in {"partial", "whole"}
      PROVE  LoneInv'
  <2>1. UNCHANGED <<kind, pc, target, content, alone>>
    BY <1>1 DEF ensures
  <2>2. Opening' = Opening /\ \A e \in Openers : Key(e)' = Key(e)
    BY <2>1 DEF Opening, Key
  <2>3. ASSUME NEW e \in Openers, ~IsCached(Key(e)) PROVE ~IsCached(Key(e))'
    <3>1. ~IsCached(Key(e))' <=> ~(docs'[Key(e)].status = "ready"
                                  /\ files'[<<Key(e), docs'[Key(e)].checksum>>] \in {"partial", "whole"})
      BY <2>2 DEF IsCached, File
    <3> QED
      BY <1>0, <1>1, <2>3, <3>1 DEF IsCached, File
  <2> QED
    BY <1>0, <1>1, <2>1, <2>2, <2>3 DEF LoneInv, LoneKnows, Opening
<1>2. ASSUME NEW u \in Updaters, Upsert(u) PROVE LoneInv'
  <2>1. \A k \in Keys : docs'[k].status = docs[k].status /\ docs'[k].checksum = docs[k].checksum
    BY <1>2 DEF Upsert, TypeOK
  <2> QED
    BY <1>1, <1>2, <2>1 DEF Upsert
<1>3. CASE RemoveFile
  <2>1. \A f : files'[f] \in {"partial", "whole"} => files[f] \in {"partial", "whole"}
    BY <1>3 DEF RemoveFile, TypeOK
  <2> QED
    BY <1>1, <1>3, <2>1 DEF RemoveFile, paper, history
<1>4. CASE Crash
  BY <1>4 DEF Crash, LoneInv, Opening
<1>5. ASSUME NEW e \in Openers, Ensure(e) PROVE LoneInv'
  <2>0. /\ kind' = kind /\ kind \in {"arxiv", "external"}
        /\ \A f \in Openers : f # e => pc'[f] = pc[f] /\ target'[f] = target[f] /\ content'[f] = content[f]
    BY <1>5 DEF Ensure, ReadPaper, CheckCached, Download, DownloadFails, Compare, Touch,
                Store, StoreDone, StoreFails, RecordFailure, Commit, paper, Goto, TypeOK
  <2>1. docs'[NoSum].status # "ready"
    <3>1. CASE Commit(e)
      <4>1. Key(e) # NoSum
        BY <1>0, <3>1 DEF Commit, Knowing, ThreadKnows, Key, NoSum, Versions
      <4> QED
        BY <1>0, <3>1, <4>1 DEF Commit, Superseded, LoneInv, TypeOK
    <3>2. CASE Touch(e) \/ RecordFailure(e)
      BY <1>0, <3>2 DEF Touch, RecordFailure, LoneInv, TypeOK
    <3>3. CASE ~ (Commit(e) \/ Touch(e) \/ RecordFailure(e))
      BY <1>5, <3>3 DEF Ensure, ReadPaper, CheckCached, Download, DownloadFails, Compare,
                        Store, StoreDone, StoreFails, LoneInv
    <3> QED
      BY <3>1, <3>2, <3>3
  <2>2. ASSUME NEW f \in Openers, pc'[f] \in {"check", "download"} PROVE content'[f] = NoSum
    <3>1. CASE f # e
      BY <2>0, <2>2, <3>1 DEF LoneInv
    <3>2. CASE f = e
      BY <1>5, <2>2, <3>2
         DEF Ensure, ReadPaper, CheckCached, Download, DownloadFails, Compare, Touch, Store,
             StoreDone, StoreFails, RecordFailure, Commit, Goto, TypeOK, LoneInv
    <3> QED
      BY <3>1, <3>2
  <2>3. ASSUME NEW f \in Opening', alone'[f] PROVE LoneKnows(f)'
    <3>1. CASE ReadPaper(e)
      <4>1. f = e /\ Opening = {}
        BY <2>3, <3>1 DEF ReadPaper, Opening
      <4>2. \A g \in Opening' : g = e
        BY <2>0, <4>1 DEF Opening
      <4>3. /\ content'[e] = NoSum /\ UNCHANGED <<docs, files>>
            /\ pc'[e] = IF kind = "arxiv" THEN "check" ELSE "download"
        BY <3>1 DEF ReadPaper, Goto, TypeOK
      <4>4. pc'[e] = "download" => Key(e)' = NoSum
        BY <2>0, <4>3 DEF Key
      <4>5. ~IsCached(NoSum)'
        BY <2>1 DEF IsCached
      <4>6. pc'[e] \in {"download", "store", "write", "failing"} => ~IsCached(Key(e))'
        BY <4>3, <4>4, <4>5 DEF IsCached, File
      <4> QED
        BY <4>1, <4>2, <4>6 DEF LoneKnows
    <3>2. CASE ~ ReadPaper(e)
      <4>1. alone' = alone /\ e \in Opening
        BY <1>5, <3>2 DEF Ensure, CheckCached, Download, DownloadFails, Compare, Touch, Store,
                          StoreDone, StoreFails, RecordFailure, Commit, history, Opening
      <4>2. f \in Opening
        BY <2>0, <2>3, <4>1 DEF Opening
      <4>3. LoneKnows(f) /\ f = e
        BY <2>3, <4>1, <4>2 DEF LoneInv, LoneKnows
      <4>4. \A g \in Opening' : g = e
        BY <2>0, <4>1, <4>3 DEF LoneKnows, Opening
      <4>5. ASSUME pc'[e] \in {"download", "store", "write", "failing"} PROVE ~IsCached(Key(e))'
        <5>1. UNCHANGED <<docs, files>>
          BY <1>5, <3>2, <4>5
             DEF Ensure, CheckCached, Download, DownloadFails, Compare, Touch, Store, StoreDone,
                 StoreFails, RecordFailure, Commit, Goto, TypeOK, WrittenAside
        <5>2. ~IsCached(Key(e)) /\ Key(e)' = Key(e)
          BY <1>5, <2>0, <3>2, <4>3, <4>5
             DEF Ensure, CheckCached, Download, DownloadFails, Compare, Touch, Store, StoreDone,
                 StoreFails, RecordFailure, Commit, Goto, TypeOK, LoneKnows, Key
        <5> QED
          BY <5>1, <5>2 DEF IsCached, File
      <4> QED
        BY <4>3, <4>4, <4>5 DEF LoneKnows
    <3> QED
      BY <3>1, <3>2
  <2> QED
    BY <2>1, <2>2, <2>3 DEF LoneInv
<1>6. CASE UNCHANGED <<kind, ensures, alone, docs, files>>
  BY <1>1, <1>6
<1> QED
  BY <1>2, <1>3, <1>4, <1>5, <1>6 DEF Next, Publish, FetchRecord, ensures, paper, history, vars

\* No failed download costs a cached version unless two openings overlap, for any
\* number of threads and versions, and wherever the server is killed.
THEOREM LoneFailuresCostNothing == Spec => LoneFailureKeepsTheCache
<1>1. Init => Knowing /\ LoneInv
  BY DEF Init, Knowing, ThreadKnows, LoneInv, Opening, NoRow, Keys
<1>2. TypeOK /\ Knowing /\ LoneInv /\ [Next]_vars =>
        [\A k \in Keys : docs[k].status = "ready" /\ File(k) = "whole"
                         /\ docs'[k].status = "failed" =>
           \E e \in Openers : pc[e] = "failing" /\ pc'[e] = "idle" /\ ~alone[e]]_vars
  <2> SUFFICES ASSUME TypeOK, LoneInv, [Next]_vars, NEW k \in Keys, docs[k].status = "ready",
                      File(k) = "whole", docs'[k].status = "failed"
               PROVE  \E e \in Openers : pc[e] = "failing" /\ pc'[e] = "idle" /\ ~alone[e]
    OBVIOUS
  <2>1. PICK e \in Openers : RecordFailure(e)
    <3>1. ASSUME NEW u \in Updaters, Upsert(u) PROVE FALSE
      BY <3>1 DEF Upsert, TypeOK
    <3>2. ASSUME NEW e \in Openers, Touch(e) \/ Commit(e) PROVE FALSE
      BY <3>2 DEF Touch, Commit, Superseded, TypeOK
    <3>3. docs' # docs
      OBVIOUS
    <3> QED
      BY <3>1, <3>2, <3>3
         DEF Next, Publish, FetchRecord, Ensure, ReadPaper, CheckCached, Download,
             DownloadFails, Compare, Store, StoreDone, StoreFails, Crash, RemoveFile, vars
  <2>2. k = Key(e) /\ pc[e] = "failing" /\ pc'[e] = "idle"
    BY <2>1 DEF RecordFailure, Goto, TypeOK
  <2>3. IsCached(k)
    BY DEF IsCached
  <2> QED
    BY <2>2, <2>3 DEF LoneInv, LoneKnows, Opening
<1> QED
  BY <1>1, <1>2, TypeCorrect, KnowingNext, LoneNext, PTL DEF Spec, LoneFailureKeepsTheCache
=============================================================================
