------------------------------ MODULE PdfCache ------------------------------
(***************************************************************************)
(* The cached PDFs of one paper: PdfDocumentService.ensure, called by the  *)
(* request threads that open the reader (services/documents.py), beside    *)
(* ArxivSyncService._upsert, called by the sync thread and by searches     *)
(* (services/arxiv_sync.py), which records new versions of the paper and   *)
(* marks its cached PDFs stale.                                            *)
(*                                                                         *)
(* A paper of arXiv has one row per version, its key is the version.  A    *)
(* paper from elsewhere has one row per distinct content, its key is the   *)
(* checksum; a download that fails before there is one has key NoSum.      *)
(* Contents are numbered in the order their publisher puts them out.       *)
(***************************************************************************)
EXTENDS Integers

CONSTANTS
  Openers,       \* request threads that open the reader
  Updaters,      \* threads that call _upsert: the sync, searches, imports
  MaxVersion,    \* bound: versions published
  VersionedUrl   \* papers.pdf_url names the version (arXiv's own feed does)

ASSUME PdfAssumption ==
  /\ MaxVersion \in Nat \ {0}
  /\ VersionedUrl \in BOOLEAN

VARIABLES
  kind,          \* papers.source_kind, "arxiv" or "external"
  published,     \* the version or content the publisher serves
  latest,        \* papers.latest_version
  docs,          \* the rows of documents
  files,         \* the cached files, by key and content
  record,        \* per updater: the version of the record it holds
  pc,            \* per opener: where its ensure is
  target,        \* per opener: the version it read
  content,       \* per opener: what it downloaded
  alone,         \* history, per opener: no other ensure has run since it began
  overtaken      \* history: versions being opened when latest was last changed

paper   == <<kind, published, latest, record>>
ensures == <<pc, target, content>>
history == <<alone, overtaken>>
vars    == <<paper, docs, files, ensures, history>>

Versions == 1..MaxVersion
NoSum    == 0
Keys     == {NoSum} \union Versions
NoRow    == [status |-> "none", stale |-> FALSE, checksum |-> NoSum]

TypeOK ==
  /\ kind \in {"arxiv", "external"}
  /\ published \in Versions /\ latest \in 1..published
  /\ docs \in [Keys -> [status : {"none", "ready", "failed"}, stale : BOOLEAN,
                        checksum : Keys]]
  /\ files \in [Keys \X Versions -> {"none", "partial", "whole", "removed"}]
  /\ record \in [Updaters -> NoSum..published]
  /\ pc \in [Openers -> {"idle", "check", "download", "compare", "touch", "store",
                         "write", "commit", "failing"}]
  /\ target \in [Openers -> Keys] /\ content \in [Openers -> Keys]
  /\ alone \in [Openers -> BOOLEAN] /\ overtaken \subseteq Keys

Init ==
  /\ kind \in {"arxiv", "external"}
  /\ published = 1 /\ latest = 1
  /\ docs = [k \in Keys |-> NoRow]
  /\ files = [f \in Keys \X Versions |-> "none"]
  /\ record = [u \in Updaters |-> NoSum]
  /\ pc = [e \in Openers |-> "idle"]
  /\ target = [e \in Openers |-> NoSum] /\ content = [e \in Openers |-> NoSum]
  /\ alone = [e \in Openers |-> FALSE] /\ overtaken = {}

-----------------------------------------------------------------------------
(* The publisher, and the records of new versions.                         *)

Publish ==
  /\ published < MaxVersion
  /\ published' = published + 1
  /\ UNCHANGED <<kind, latest, record, docs, files, ensures, history>>

\* Mutant: the version of a record counts one too many.
VersionAhead == published + 1
RecordVersion == published

\* A page of results arrives; it is written later.
FetchRecord(u) ==
  /\ kind = "arxiv" /\ record[u] = NoSum
  /\ record' = [record EXCEPT ![u] = RecordVersion]
  /\ UNCHANGED <<kind, published, latest, docs, files, ensures, history>>

\* Mutant: only the versions before it are marked.
OlderThan(k, version) == k < version
OtherThan(k, version) == k # version

Opening == {e \in Openers : pc[e] # "idle"}

\* _upsert: an older record than the stored one is written all the same.
Upsert(u) ==
  /\ record[u] # NoSum
  /\ latest' = record[u]
  /\ docs' = IF record[u] = latest THEN docs
             ELSE [k \in Keys |->
                     IF docs[k].status # "none" /\ OtherThan(k, record[u])
                       THEN [docs[k] EXCEPT !.stale = TRUE] ELSE docs[k]]
  /\ overtaken' = IF record[u] = latest THEN overtaken ELSE {target[e] : e \in Opening}
  /\ record' = [record EXCEPT ![u] = NoSum]
  /\ UNCHANGED <<kind, published, files, ensures, alone>>

-----------------------------------------------------------------------------
(* ensure.                                                                 *)

Goto(e, point) == pc' = [pc EXCEPT ![e] = point]

ReadPaper(e) ==
  /\ pc[e] = "idle"
  /\ target' = [target EXCEPT ![e] = latest]
  /\ content' = [content EXCEPT ![e] = NoSum]
  /\ Goto(e, IF kind = "arxiv" THEN "check" ELSE "download")
  /\ alone' = [f \in Openers |-> f = e /\ Opening = {}]
  /\ UNCHANGED <<paper, docs, files, overtaken>>

\* Mutant: the key of the row is made from the paper as it is at the end.
KeyAtTheEnd(e) == IF kind = "arxiv" THEN latest ELSE content[e]
\* request_key and, with it, revision_label.
Key(e) == IF kind = "arxiv" THEN target[e] ELSE content[e]

File(k) == files[<<k, docs[k].checksum>>]
\* Mutant: a version that was marked stale is cached again.
IsCurrent(k) == docs[k].status = "ready" /\ ~docs[k].stale /\ File(k) \in {"partial", "whole"}
IsCached(k) == docs[k].status = "ready" /\ File(k) \in {"partial", "whole"}

\* The fast path of arXiv papers leaves stale as it is.
CheckCached(e) ==
  /\ pc[e] = "check"
  /\ Goto(e, IF IsCached(Key(e)) THEN "idle" ELSE "download")
  /\ UNCHANGED <<paper, docs, files, target, content, history>>

Download(e) ==
  /\ pc[e] = "download"
  /\ content' = [content EXCEPT ![e] =
                   IF kind = "arxiv" /\ VersionedUrl THEN target[e] ELSE published]
  /\ Goto(e, IF kind = "arxiv" THEN "store" ELSE "compare")
  /\ UNCHANGED <<paper, docs, files, target, history>>

DownloadFails(e) ==
  /\ pc[e] = "download"
  /\ Goto(e, "failing")
  /\ UNCHANGED <<paper, docs, files, target, content, history>>

\* A paper from elsewhere: is this content cached already?
Compare(e) ==
  /\ pc[e] = "compare"
  /\ Goto(e, IF IsCached(Key(e)) THEN "touch" ELSE "store")
  /\ UNCHANGED <<paper, docs, files, target, content, history>>

\* UPDATE documents SET stale = (id != ?): one transaction.
Touch(e) ==
  /\ pc[e] = "touch"
  /\ docs' = [k \in Keys |-> IF docs[k].status = "none" THEN docs[k]
                             ELSE [docs[k] EXCEPT !.stale = (k # Key(e))]]
  /\ Goto(e, "idle")
  /\ UNCHANGED <<paper, files, target, content, history>>

\* Mutant: the destination itself is opened for writing.
WrittenInPlace(f) == "partial"
\* What the destination is while the temporary file is written.
WrittenAside(f) == files[f]

\* _store: an existing destination is left alone.
Store(e) ==
  /\ pc[e] = "store"
  /\ LET f == <<Key(e), content[e]>>
     IN IF files[f] \in {"partial", "whole"}
          THEN Goto(e, "commit") /\ UNCHANGED files
          ELSE Goto(e, "write") /\ files' = [files EXCEPT ![f] = WrittenAside(f)]
  /\ UNCHANGED <<paper, docs, target, content, history>>

\* os.replace
StoreDone(e) ==
  /\ pc[e] = "write"
  /\ files' = [files EXCEPT ![<<Key(e), content[e]>>] = "whole"]
  /\ Goto(e, "commit")
  /\ UNCHANGED <<paper, docs, target, content, history>>

StoreFails(e) ==
  /\ pc[e] \in {"store", "write"}
  /\ Goto(e, "failing")
  /\ UNCHANGED <<paper, docs, files, target, content, history>>

\* _record_failure: a row that is there keeps everything but its status.
RecordFailure(e) ==
  /\ pc[e] = "failing"
  /\ docs' = [docs EXCEPT ![Key(e)].status = "failed"]
  /\ Goto(e, "idle")
  /\ UNCHANGED <<paper, files, target, content, history>>

\* Mutant: the other versions stay as they are.
KeepsOthers(row) == row
Superseded(row) == IF row.status = "none" THEN row ELSE [row EXCEPT !.stale = TRUE]

\* The final transaction.
Commit(e) ==
  /\ pc[e] = "commit"
  /\ docs' = [k \in Keys |->
                IF k = Key(e) THEN [status |-> "ready", stale |-> FALSE,
                                    checksum |-> content[e]]
                ELSE Superseded(docs[k])]
  /\ Goto(e, "idle")
  /\ UNCHANGED <<paper, files, target, content, history>>

-----------------------------------------------------------------------------
(* The rest of the world.                                                  *)

\* The server is killed: the files and the database stay.
Crash ==
  /\ pc' = [e \in Openers |-> "idle"]
  /\ record' = [u \in Updaters |-> NoSum]
  /\ UNCHANGED <<kind, published, latest, docs, files, target, content, history>>

\* The user deletes a file of the cache.
RemoveFile ==
  /\ \E f \in Keys \X Versions :
       files[f] = "whole" /\ files' = [files EXCEPT ![f] = "removed"]
  /\ UNCHANGED <<paper, docs, ensures, history>>

-----------------------------------------------------------------------------
Ensure(e) ==
  \/ ReadPaper(e) \/ CheckCached(e) \/ Download(e) \/ DownloadFails(e) \/ Compare(e)
  \/ Touch(e) \/ Store(e) \/ StoreDone(e) \/ StoreFails(e) \/ RecordFailure(e)
  \/ Commit(e)

Next ==
  \/ Publish
  \/ \E u \in Updaters : FetchRecord(u) \/ Upsert(u)
  \/ \E e \in Openers : Ensure(e)
  \/ Crash
  \/ RemoveFile

Spec == Init /\ [][Next]_vars

-----------------------------------------------------------------------------
(* Properties.                                                             *)

\* A row that says "ready" names a whole file (unless the user removed it),
\* whatever failed or crashed while it was written.
ReadyIsIntact ==
  \A k \in Keys : docs[k].status = "ready" => File(k) \in {"whole", "removed"}

\* At most one cached version counts as current, however many threads cache
\* PDFs of the paper, record its versions and fail in between.
AtMostOneFresh ==
  \A j, k \in Keys :
    /\ docs[j].status = "ready" /\ ~docs[j].stale
    /\ docs[k].status = "ready" /\ ~docs[k].stale
    => j = k

\* A row labelled with a version of the paper holds the content of that version:
\* highlights are tied to the content they were made on (docs/PLAN.md:137).
LabelMatchesContent ==
  \A k \in Versions : docs[k].status = "ready" => docs[k].checksum = k

\* A failed download costs a version that is cached, and with it the highlights
\* on its pages, only when another ensure of the paper overlapped with it.
LoneFailureKeepsTheCache ==
  [][\A k \in Keys : docs[k].status = "ready" /\ File(k) = "whole"
                       /\ docs'[k].status = "failed" =>
       \E e \in Openers : pc[e] = "failing" /\ pc'[e] = "idle" /\ ~alone[e]]_vars

\* Only a version that was being opened when another one was recorded may go on
\* counting as current (see SupersededIsStale), in whatever order records arrive.
SupersededUnlessOvertaken ==
  kind = "arxiv" =>
    \A k \in Versions : docs[k].status = "ready" /\ ~docs[k].stale /\ k # latest =>
      k \in overtaken

\* "mark superseded versions stale" (docs/PLAN.md:137): when no ensure is under
\* way, a cached version older than the recorded one is marked.
SupersededIsStale ==
  kind = "arxiv" /\ (\A e \in Openers : pc[e] = "idle") =>
    \A k \in Versions : docs[k].status = "ready" /\ k < latest => docs[k].stale
=============================================================================
