# Verification of arxiv-cortex

arxiv-cortex is a one-user research reader: a Flask process with a scheduler
thread and a one-thread executor, command-line processes beside it, one SQLite
database, a directory of cached PDFs, and reader pages in one or more browser
tabs. Every connection is in autocommit mode (`db.py:14`), so outside an explicit
`BEGIN` each statement is a transaction of its own, and most of what can go wrong
lives between two statements. The models below are of that control: each
statement, each network call and each callback is one step.

## Contents

| module | models | checked by | proved in |
|---|---|---|---|
| `SyncJobs` | `services/jobs.py`: requests, queue, lease, recovery; implements `SerialSync` | `SyncJobs_shared`, `_cli` | `SyncJobsProofs` |
| `SerialSync` | what the jobs promise: one synchronization at a time | as `SerialSpec` of `SyncJobs_shared` | `SyncJobsProofs` |
| `FeedSync` | `services/arxiv_sync.py` (crawl of one source), edits of `search_tags.py`, `settings.py` | `FeedSync_edits` | `FeedSyncProofs` |
| `ArxivClient` | `services/arxiv_sync.py` (`ArxivClientSource`): paging, retries, rate limit; implements `ResultStream` | `ArxivClient_paging` | `ArxivClientProofs` |
| `ResultStream` | what the client promises the crawl: a stream of papers | as `StreamSpec` of `ArxivClient_paging` | `ArxivClientProofs` |
| `PdfCache` | `services/documents.py`, `_upsert`'s version recording | `PdfCache_threads`, `_stale` | `PdfCacheProofs` |
| `Indexing` | `services/embeddings.py`, `submit_indexing`, `cli.py reindex`, `import-papers` | `Indexing_server` | `IndexingProofs` |
| `NoteEditing` | `services/annotations.py` (note), `static/reader.js` (autosave); implements `NoteRegister` | `NoteEditing_tabs`, `_quiet`, `_draft` | `NoteEditingProofs` |
| `NoteRegister` | what the server promises about the note: a compare-and-set | as `RegisterSpec` of `NoteEditing_quiet` | `NoteEditingProofs` |
| `Highlights` | `services/annotations.py` (highlights), `static/reader.js` (loads, selections, cards) | `Highlights_tabs` | `HighlightsProofs` |
| `Library` | `services/papers.py`, `groups.py`, `recommendations.py`, the imports of `imports.py`, `web.py`, `cli.py` | `Library_requests` | `LibraryProofs` |

`MC*.tla` give TLC values for constants that a `.cfg` cannot write and the
symmetry sets. `PROJECT.json` maps every definition to its lines of source. In the
modules, a definition introduced by "Mutant:" is a plausible slip in the
definition after it; it is used by no specification and serves to confirm that a
property notices the slip.

## Inventory

For each component: its **state**, its **operations**, what it **interacts**
with, what is **hard**, and what makes it **correct**.

### Jobs (`services/jobs.py`, `create_app`, `cli.py sync`): `SyncJobs`

- State: rows of `sync_runs` (status), the one row of `job_leases` (owner, expiry);
  in memory a one-thread executor with its queue.
- Operations: `submit_sync` (coalesces with a queued run, else inserts and
  enqueues), `run_sync_inline`, `_run` (acquire the lease, mark, read sources,
  crawl, renew, index, succeed or fail, release), `recover_interrupted_jobs`,
  `submit_indexing`.
- Interactions: web routes, scheduler and commands request runs; `_run` calls the
  crawl, the citations and the embeddings. `create_app` runs the recovery in
  *every* process, commands included.
- Hard: threads that look for a queued run and insert one in separate statements;
  crashes between any two of them; leases that expire or are deleted under a live
  owner; errors in the error handling itself.
- Correct: the lease excludes overlap; a coalesced request is answered by a run
  that has not read its sources yet; statuses move forward only; nothing stays
  unfinished; every request is served or reported.

### Feed crawl and followed sources (`arxiv_sync.py`, `search_tags.py`, `settings.py`): `FeedSync`

- State: the source's row (`enabled`, `keywords`, `backfill_from`,
  `backfill_complete`, `watermark`), the stored papers, `paper_search_tags`.
- Operations: `sync_all`/`_sync_feed`/`_flush` with the closing transaction; create,
  update, follow, unfollow and delete a tag; enable and disable a field.
- Interactions: the crawl works from a copy of the row while the pages edit it;
  its papers come from the arXiv client.
- Hard: edits during a crawl, failures between batches, late indexing, revisions
  that move a paper in the listing being read, the `update` that decides outside
  its transaction.
- Correct: what is promised and delivered never falls between two crawls; provenance
  is never stale; crawls converge.

### arXiv client (`ArxivClientSource` in `arxiv_sync.py`): `ArxivClient`

- State: the request lock and `_last_request_completed`; per crawl an offset, the
  first page's total, the attempt and the empty answers.
- Operations: `results` (the paging of a crawl), `search_page`, and what both use:
  `_fetch_page` with its retry loop, `_respect_rate_limit`, `_wait_for_retry`.
- Interactions: one client serves the sync thread and interactive searches. Imports do
  not use it: `import_arxiv_ids` (`imports.py:171`) asks export.arxiv.org from request
  threads and commands through a session of its own.
- Hard: a listing that changes while it is paged by offset, empty first pages,
  exceptions that bypass the clock, threads that contend for the lock.
- Correct: the client's requests keep their distance; loops end; what paging can miss
  is bounded.

### PDF cache and version recording (`documents.py`, `_upsert`): `PdfCache`

- State: `papers.latest_version`, rows of `documents` (status, stale, checksum), files.
- Operations: `ensure` (read, look, download, compare, store, commit or record the
  failure), `_upsert` of newer records.
- Interactions: reader requests run `ensure`; sync, searches and imports run `_upsert`.
- Hard: a version recorded during a download; two downloads of one paper; crashes
  and full disks while writing; files removed behind the database's back.
- Correct: a ready row has a whole file of the right version; one current version;
  superseded versions are marked.

### Notes in the reader (`annotations.py`, `static/reader.js`): `NoteEditing`

- State: `paper_notes` (body, revision); per page the text area, known revision,
  status, timer, loads and saves in flight; per browser a draft in `localStorage`.
- Operations: type, autosave, save answers, retry, "Reload & retry", open, select
  another version, close; `upsert_paper_note` with its revision check.
- Interactions: tabs share the row, tabs of a browser share the draft.
- Hard: overlapping saves and loads, answers out of order, lost answers, a revision
  read back after somebody else's write.
- Correct: no overwrite of something neither shown nor knowingly replaced; "Saved" and
  "your draft is safe" are true; edits settle.

### Highlights in the reader (`annotations.py`, `static/reader.js`): `Highlights`

- State: `paper_highlights` (version, quote, note, revision) and the fingerprint
  kept with each version of the PDF; per page the version shown, the PDF opened
  last, the pages on the screen, the selection, the cards, a load, a create and one
  save, reload or delete in flight.
- Operations: load a version, restore the old one when that fails, select, create,
  annotate, "Reload & retry", delete; `create_highlight`, `update_highlight_note`,
  `delete_highlight`, `annotations_for_document`.
- Interactions: tabs share the rows; a version's fingerprint, written with its first
  highlight, decides whether the version can be read at all.
- Hard: a selection, and the fingerprint of the PDF it belongs to, that outlive
  the pages they were made in; answers for cards that a load has replaced; rows
  deleted between a write and its read-back; ids of deleted rows used again.
- Correct: a highlight lies in the version it was selected in; a version has its own
  fingerprint; no note is replaced that its page was not told.

### Paper library (`papers.py`, `groups.py`, `recommendations.py`, imports): `Library`

- State: `papers`, `paper_state` (saved, read, dismissed), `paper_groups`,
  `paper_group_memberships`.
- Operations: save, unsave, mark read, dismiss and their inverses; create, rename
  and delete a group; `assign_paper`; the import form; the import command with its
  group by name; `recommend`.
- Interactions: forms, commands and feeds read in statements of their own what the
  buttons change; imports store papers like the crawl does.
- Hard: checks before the transaction that relies on them (`groups.py:87`); group ids
  used again between the form and its submission; a command of many transactions; a
  feed put together from four reads.
- Correct: saved and dismissed exclude each other; only saved papers are in groups;
  a refused request has changed nothing; what was dealt with is not recommended.

### Embeddings (`embeddings.py`, `jobs.py`, `cli.py`): `Indexing`

- State: `papers.content_hash`, `paper_embeddings` of the active model; the
  executor's queue; in the server's memory `EmbeddingIndex`'s lock, fingerprint
  and matrix.
- Operations: `index_pending` (query a batch, encode, write, invalidate),
  `submit_indexing`, `reset_active_model`, `snapshot`/`_refresh`.
- Interactions: searches and imports store papers and submit a run; a
  synchronization ends with one; commands run it in a process of their own;
  recommendations read snapshots.
- Hard: papers that change while the model runs; overlapping runs;
  `submit_indexing` returns while a run is past its last query; a fingerprint made
  of a number and a time in seconds, read in a statement before the rows.
- Correct: a hash tells what its vector was made from; what the server has
  announced is served; every paper is embedded in the end.

### Not modelled yet, or not to be modelled

- **Migrations** (`db.py`): `executescript` commits on its own, so a crash before
  the version is recorded, or two first starts at once, make every later start run
  `ALTER TABLE` again and fail (`db.py:88`). It happens once per release; planned.
- **Citations** (`citations.py`): batches of counts, each its own transaction,
  best effort; low priority.
- **Scheduler**: one cron trigger; it is one of `SyncJobs`' callers and `Indexing`'s
  `SubmitSync`.
- **Address checks and HTML parsing** of `imports.py`: pure, over strings. What an
  import does to the tables is in `Library`, `PdfCache` and `Indexing`.
- **Read-only API, pages, templates, `app.js`, the ranking of recommendations**:
  reads, rendering and floating-point scores.
- **`reader-geometry.mjs`**: floating-point geometry, which TLA+ integers cannot
  express without inventing a precision.
- **`security.py`, `config.py`, `utils.py`**: pure conversions and constants. What
  matters of `utils.py` is that stored times have a resolution of a second.

The full list of hazards, each at its line and with the properties that watch
it, is in `PROJECT.json`.

## How the models correspond to the code

### SyncJobs

`runs`, `lease`, `leaseExpired` are the tables; `pc` and `job` say where a process's
`_run` is, `cpc`, `crun` and `wanted` where a thread's `submit_sync` is, `queue` is
the executor's. One action per statement: `SubmitSelect`, `SubmitInsert`,
`SubmitEnqueue`; `AcquireLease`, `Refuse`, `MarkRunning`, `ReadSources`, `SyncFeeds`,
`RenewLease`, `Succeed`, `BodyRaises`, `Fail`, `ReleaseLease`. A locked database may
make each write fail: `SubmitRaises` (the request ends with an error), `RunRaises`
(`_acquire_lease` and the `_fail` of a refused run are outside the `try`), the second
halves of `Fail` and of `ReleaseLease` (the lease stays until it expires), `Stop` for a
command's `INSERT`. `Start` is `create_app` with its
recovery, `Stop` a crash or an end. `edits` counts committed changes of the
sources, so that "reads the sources" and "asks for a sync" can be compared
(`snapshot`, `requested`). Time exists only as `LeaseExpires`.

`locked` holds the unfinished runs whose closing write a locked database refused; the
next start recovers them. `RunsFinish` exempts these runs one by one, and
`RequestIsServed` the requests answered with one: such a run stays queued, and answers
all later requests without serving any (`jobs.py:109`). A request that ends without a
run is `Rejected` and not promised anything.

Three switches state assumptions, so that each theorem and run names what it needs:
`QuietStartup` (a process starts only while no live one has a job),
`LeaseOutlivesRun` (no run exceeds the six hours), `DatabaseMayLock` (writes may
raise). The code guarantees neither of the first two; `SyncJobs_cli` drops the first.

`SerialSync` is the promise without the machinery: a status per run, the one run
that is `active`, the version each run was asked for and the one it read. `SyncJobs`
maps `active` to `ActiveRun`, the run of the process inside the body, and the
other variables to `runs`, `edits`, `requested` and `snapshot`; the rest (lease,
queue, processes, threads) is hidden. `SerialSpec`, the instance's specification, holds of every behaviour in
which starts are quiet and leases outlive runs.

### FeedSync

One source, tag or category. `row` is its row, `snap` the crawl's copy, `stream`
the records still to read, `newest` the crawl's `newest_updated`. `ReadRow`,
`OpenStream`, `Flush` (one transaction per batch) and `Finalize` are the crawl;
`Fail` is an exception or a kill at any point. `SetFollowed`, `Update`, `Delete`,
`Create` and `SetCategory` are the edits; `UpdateRead`/`LateUpdate` separate the
read of `update` from its transaction. A unit of time is longer than a crawl;
`Lag` (how late arXiv's index shows a change) is less than `Overlap` (48 h), as
the code's overlap presumes. The client delivers records newer than the cutoff,
newest first, but nothing makes its stream complete: `OpenStream` leaves out any of
them, since `results` may end above the oldest (a short page, the total of the first
page, confirmed empty pages) and skips entries (`arxiv_sync.py:153-176`, `:632`), and a
revision during an incremental crawl may leave it later (it moved in front of the pages
already read). The crawl cannot tell and completes the source. Two histories keep the
account: `omitted`, what the stream of this crawl left out, and `missed`, what a crawl
that completed the source had left out and no crawl has fetched since. A paper that is
revised, and a feed that starts over, are struck from it. A backfilling
crawl is bounded by the submission date, a later one by the update date
(`Boundary`). That `_sync_feed` stops reading at its cutoff is part of `OpenStream`;
`ArxivClient` follows a consumer that reads to the end.
`QuickEdits` says that no step of a crawl falls between the read and the write of
`update`. `MidCrawlEdits` bounds the edits committed during one crawl; failures and
edits share the bound `MaxEvents`.

### ArxivClient

`listing` is the external result list of the crawl's query, newest first; papers
enter it (`Enter`) or move to the front (`Move`) at any time. A thread goes from
`ready` through `locked` and `sent` to `answered`; `elapsed` is the time since
`_last_request_completed`, counted up to `Delay` only, because nothing
distinguishes longer. `quiet` is the true time since a request ended, `stamped`
whether the code noted it: an exception other than a connection error or a timeout
leaves `_fetch_page` before the assignment (`arxiv_sync.py:269`). The crawl handles an answer as the loop
does: confirm an empty page, retry or raise, advance the offset, stop at the
total. `NoticeRaises` is the callback `on_retry`, which writes to the database and may
raise, before a wait or when a page is accepted after retries. `Partial` are entries without a required field, which are skipped.
Searches ask once, without retries. `truthful` records that arXiv has not yet sent
a page shorter than its results, which the client cannot tell from a last page.
The requests of `import_arxiv_ids` are outside the module, because they are outside the
client: they take neither its lock nor its delay, and every process has a client of its
own. `docs/PLAN.md:42` says "All arXiv requests share one sequential client"; that is
not so, and `RequestsAreSpaced` says it only of the requests that do share one.

`ResultStream` is what remains without requests, pages and offsets: the list the
stream started from (`base`), what entered or moved since, what was yielded, and
whether the stream is open, exhausted or raised (`StreamState`, from the crawl's
`pc`). Its `Yield` may take any papers as long as what is left out is a tail of that
list, so that a consumer that stops at its cutoff has what is newer, and may end the
stream only when no more is left out than entered. `Start` stands for each answer at
offset 0: an empty first page is asked for again.

### PdfCache

One paper; contents are numbered in the order they are published. `docs` are the
rows by key (the version for an arXiv paper, the checksum for another), `files`
the cached files by key and content. `ReadPaper`, `CheckCached`, `Download`,
`DownloadFails`, `Compare`, `Touch`, `Store`, `StoreDone`, `StoreFails`,
`RecordFailure`, `Commit` are `ensure`; `FetchRecord` and `Upsert` are the sync or
a search; `Crash` ends the threads; `RemoveFile` is a user who deletes a file.
`VersionedUrl` says that a PDF address names its version, as the addresses in
arXiv's feed do. Two histories let the properties say what a race may cost: `alone`,
whether an `ensure` has run by itself so far, and `overtaken`, the versions that were
being opened when `latest_version` last changed.

### Indexing

A paper's title and abstract are one version, which stands for `content_hash` as
well; a row of `embedded` has the hash it was filed under, the version its vector
was computed from, its time in seconds and who wrote it. `Query`, `Commit` and
`Invalidate` are one turn of `index_pending`'s loop, in the executor or in a
command; the encoding happens between `Query` and `Commit`. `Store` is the crawl or
`import-papers` before it, `Raise` an exception (or the end of a command), also the
refusal of a synchronization whose lease is taken. `PageStores`, then
`SubmitIndexing` or `ImportFails`, are a page. `ReadStats`, `ReadRows` and `Assign`
are `_refresh`, under the lock; a reader that finds its fingerprint unchanged takes
no step. `invalidate` forgets the fingerprint only; the model forgets the matrix with
it, since no reader gets it before the next refresh. Times are chosen freely from
`Seconds`, since they are noted before the transaction.

### NoteEditing

The note's row is the last element of `versions`, its revision their number. Every
text typed is new, so texts identify edits. `Type`, `TimerFires`, `RetrySave`,
`RetryReload`, `RetryLoaded`, `PageLoaded`, `PdfLoaded`, `LoadFails` and the
answer handlers are the page's callbacks; a save goes through the phases of
`upsert_paper_note`: check, write, read back, answer. A load in progress knows
whether it is `open()`'s, a version selection (which remembers the page before
it and may restore it) or "Reload & retry". A page loads one thing at a time.
`blind` records that a write replaced a body whose revision is not in `seen` of its
request. A revision gets there when the page shows its body, not when the page merely
takes over its number while it shows the browser's draft (`reader.js:630-638`); or when
the user goes on knowing that another body is stored: with "Reload & retry" after
"Conflict", or by typing or retrying under "Unsaved draft recovered" (`GoesOn`). One case
is exempted: an edit already under way when a load ends (`Editing`: its timer runs or its
save is in flight) goes out over the loaded revision, shown or not. The code does
overwrite a body unseen then: both tabs open, one saves, the other types and selects
a version of the PDF before its timer fires. Switches: `RepliesInOrder`, `PromptReadBack` (no write falls
between a write and its read-back) and `QuietLoads` (nothing is typed or saved
while a page loads).

`NoteRegister` has only the note's bodies and each page's unanswered saves, and
decides a save in one step: `Accept`, `Refuse` or `Fail`. `NoteEditing` maps its
requests to saves by `Decided`: a request is accepted at its write, with the revision
that the note has then, although the page is told what a later `SELECT` reads. That
is where `PromptReadBack` is needed.

### Highlights

A row's `from` is history: the version in whose pages its quote was selected; `mark`
is the client's request id. A load goes through `AnswerLoad`, `PageLoaded` (list and
version change, the old pages go) and `PdfOpens`; `Abandon` is what `runLoadAction`
does when one fails, with the second load of the old version. `pending`, `pdf` and `pages` are separate because
`reader.js` replaces them at different moments; `carried` marks a selection whose
pages have been replaced, `strayed` a version that got a highlight from one. `Click`,
`Insert`, `AnswerCreate`, `Created` are the creation; `WriteNote`, `ReadBack`,
`Delete`, `Heard`, `SaveAgain` the changes, where an answer updates only a card that is
still `listed`. `IsNext` is SQLite's choice of a rowid, which uses a deleted one
again. `blind` records that a save replaced a note its page had not been told. Not in this module: loads
that overlap, drafts and overlapping saves of one page (as in `NoteEditing`), and a
second create of the same page while one is in flight.

### Library

A click on one of a paper's buttons is one transaction and one action. A form, an
import, the deletion of a group, the command and a feed are requests of several
steps: `req` says where each one is, what it read so far (`picks`, the group ids;
`todo`, what the command has still to save; `shown`, the candidates) and two
facts about it, whether it `wrote` and which papers were `settled`, that is saved,
read or dismissed from before it began until now. Every check that the code makes outside
the writing transaction is an action of its own; foreign keys and unique names are
conditions of the writes, which fail as a whole. `raced` are the papers that left
the library between such a check and the write that follows it. The recommended
papers are any subset of those the queries allow.

### How the parts compose

`SyncJobs` decides that one crawl runs at a time, which `FeedSync` presumes by
having one crawl; what happens when that fails is the `jobs_cli` finding.
`ArxivClient` delivers the stream `FeedSync` reads; `ResultStream` says what it is
made of, and `ImplementsResultStream` that the client keeps to it. `FeedSync`'s `Flush` calls
`_upsert`, whose effect on PDFs is `PdfCache`'s `Upsert` and on embeddings
`Indexing`'s `StorePaper`. `SyncJobs`' body ends with the run that `Indexing` models. A feed's candidates come from the
papers of `Library` with an embedding, of which `Indexing` keeps the index. The modules share no
variables; each presumes of its neighbours what is said here.

## Runs

| run | instance and bounds | result |
|---|---|---|
| `jobs_shared` | server and one command, 2 callers, 3 runs, 2 edits, 2 starts, errors on; quiet starts; with fairness | `MutualExclusion`, `RequestsAreCovered`, `StatusMovesForward`, `SerialSpec`, `RequestIsServed`, `RunsFinish` hold |
| `jobs_cli` | as shared, starts not quiet | violates `MutualExclusion` |
| `feed_edits` | 2 papers, 2 keywords, clock to 2, overlap 2, lag 1, batch 1, 2 edits or failures, 1 edit during a crawl, any papers left out of a stream, with fairness | `LostOnlyIfLeftOut`, `NoStaleProvenance`, `FeedConverges` hold |
| `arxiv_paging` | 3 papers listed, 2 changes, pages of 2, 2 retries, delay 1, 1 search thread with 1 search, 1 partial entry | `OnlyTheTailIsMissed`, `RequestsAreSpaced`, `CrawlEnds`, `StreamSpec` hold |
| `indexing_server` | executor, 1 command, 1 page, 1 reader; 2 papers, 2 changes, batch 1, 2 seconds, 1 start, exception or crash | `VectorsMatchTheirHash`, `OwnVectorsAreServed`, `EverythingIsIndexed` hold |
| `pdf_threads` | 2 opening and 2 updating threads, 2 versions | `ReadyIsIntact`, `AtMostOneFresh`, `LabelMatchesContent`, `SupersededUnlessOvertaken`, `LoneFailureKeepsTheCache` hold |
| `pdf_stale` | 1 and 1 thread, 2 versions | violates `SupersededIsStale` |
| `notes_tabs` | 2 tabs of one browser, 2 texts, 2 saves in flight per page, 1 fault, 2 openings, 1 click, answers in any order, loads at any time | `NoBlindOverwrite`, `AcknowledgedIsStored` hold |
| `notes_quiet` | 2 browsers, 2 texts, 2 clicks, answers in order, quiet loads | `SavedMeansSaved`, `EditsSettle`, `RegisterSpec` hold |
| `notes_draft` | 1 tab, 2 texts, no faults | violates `DraftIsSafe` |
| `highlights_tabs` | 2 tabs, 2 versions, 1 row at a time, 2 creations, 3 notes, 3 loads, 1 fault, 6 of these together | `HighlightsAreBound`, `NoBlindNote` hold |
| `library_requests` | 2 requests at once, 2 papers, 2 names, 2 groups, 4 clicks | `SavedXorDismissed`, `GroupedAreSaved`, `RefusedChangesNothing`, `SettledIsNotShown` hold |

`jobs_shared`, `feed_edits`, `arxiv_paging`, `indexing_server`, `pdf_threads`,
`notes_tabs`, `highlights_tabs` and `library_requests` also check their module's `TypeOK`. The passing runs have up to about two
million distinct states and take up to two minutes each.

**Why the bounds are enough to be interesting.** Two actors are what every race
here needs, and each instance has two in the same operation. Three runs let one
run be active, one be queued and one be inserted; two starts are a server with a
command or a restart. In the feed, two papers allow one kept and one lost, two
keywords give a paper that a changed query still finds and one that it does not,
and three units of time make a watermark minus the overlap differ from the start.
Three listed papers with pages of two give a full and a short page, and two
changes push the tail past an offset. Two papers with batches of one make a run
more than one turn of its loop, and two seconds make times equal or reversed. Two versions suffice for superseding. Two texts
give two overlapping saves. One row at a time makes the next highlight take the
deleted one's id; six events allow a creation, a load between selection and click, a
deletion and two competing saves. Two groups and two names let a group be deleted
and its id be taken by another while a request holds it, and four clicks save two
papers and take them back. Bounds on counters (`MaxRuns`, `MaxEdits`, `MaxStarts`,
`MaxTime`, `MaxEvents`, `MaxListed`, `MaxChanges`, `MaxSearches`, `MaxTyped`,
`MaxFlight`, `MaxFaults`, `MaxOpens`, `MaxClicks`, `MaxVersion`, `MaxIds`, `MaxMarks`,
`MaxNotes`, `MaxLoads`, `MaxGroups`, `MaxRequests`) are guards in
the modules and have no counterpart in the code.

**Deadlock** is not checked: every one of these systems may stop, with nobody
acting and the bounds used up. That nothing hangs halfway is what the liveness
properties state.

**Fairness.** Weak fairness only, and only for what the program or a timeout
drives: the executor and request threads (`SyncJobs`); the crawl, which the
scheduler starts daily, and the second half of an edit in progress (`FeedSync`);
time, the crawl and the requests of searches, which have timeouts
(`ArxivClient`); the executor, the readers and the scheduler's daily request, with the
scheduler enabled (`Indexing`); the server's answers and the page's callbacks (`NoteEditing`).
Users, crashes, publishers and the network owe nothing. The request lock is not
fair; searches are bounded in number, so `CrawlEnds` presumes that they pause.

## What the violations show

- **`jobs_cli`** – a command's `create_app` runs the recovery, which deletes the
  lease and fails the run of the live server (`jobs.py:203`); the command then
  synchronizes beside it. `docs/PLAN.md:34` and the comment at `jobs.py:201` say
  this cannot be.
- **`pdf_stale`** – `ensure` writes `stale = 0` for a version it read before the
  download (`documents.py:115`): a version recorded meanwhile is forgotten, and
  the superseded PDF counts as current. `SupersededUnlessOvertaken`, which holds, says
  that this is the only way.
- **`notes_draft`** – the answer to a save clears the draft of whatever has been
  typed since (`reader.js:602`). When the next save then conflicts, the page says
  "your draft is safe" of a draft that is gone.

What the passing runs presume is worth as much. These weaknesses of the code are
excluded by a bound or named in a history variable:

- Two edits during one crawl that cancel out reset the row unseen
  (`arxiv_sync.py:672` compares `enabled` and `keywords` with the crawl's copy): the
  crawl completes a feed with papers whose provenance it did not record.
  `feed_edits` allows one edit per crawl; with two, `LostOnlyIfLeftOut` fails.
- A stream that ends early or skips an entry completes the source all the same
  (`arxiv_sync.py:175`, `:662`); a paper left out behind the next cutoff is never fetched
  unless it is revised. `missed` names those papers, so `LostOnlyIfLeftOut` and
  `FeedConverges` say that nothing else is lost, not that nothing is. How many a changing
  listing may cost is what `OnlyTheTailIsMissed` bounds.
- A load takes over the revision of a body that the draft hides; an edit under way then
  overwrites it unseen (see `NoteEditing`). `NoBlindOverwrite` exempts such an edit;
  with `QuietLoads` there is none (`NoLoadMeetsAnEdit`).
- A run that a locked database left unfinished stays so until the next start
  (`jobs.py:109`). `locked` names it.
- A selection survives the load of another version, and until the new PDF opens so
  does the old fingerprint (`reader.js:198`, `:391`). A click
  then creates a highlight in a version it was not selected in and may give that
  version another's fingerprint (`annotations.py:120`), after which the page refuses it with "The
  cached PDF identity changed" (`reader.js:233`). `strayed` names those versions.
- `assign_paper` checks that the paper is saved before its transaction
  (`groups.py:87`); a paper unsaved in between keeps a membership. `raced` names them.
- The ids of deleted groups and highlights are used again, so a form or card that
  still shows the old one acts on the new one. Neither `GroupedAreSaved` nor
  `NoBlindNote` speaks of that: the latter compares a note with its page only if
  the row is still the highlight the card was for.

Nor does `RefusedChangesNothing` speak of the import command, which commits paper
by paper and may stop in the middle (`cli.py:112`).

Some properties hold only under an assumption the code does not enforce, which the
switches name: `MutualExclusion`, `StatusMovesForward` and `SerialSpec` need `QuietStartup`;
`MutualExclusion` and `SerialSpec` also `LeaseOutlivesRun`; `LabelMatchesContent` needs
`VersionedUrl`; `NoBlindOverwrite`, `NoBlindNote` and `RegisterSpec` need `PromptReadBack` (the read-back after a
write is a statement of its own, `annotations.py:215`); `SavedMeansSaved` needs
it too, with answers in order and quiet loads; `NoStaleProvenance` and `LostOnlyIfLeftOut` need
`QuickEdits`, the latter also one edit per crawl. `OnlyTheTailIsMissed` and the end in `StreamSpec` need truthful pages, and
what they bound is not nothing: papers that enter the listing during a crawl push
as many of the oldest ones behind the last offset. `EverythingIsIndexed` needs the
daily synchronization: what `submit_indexing` leaves to a run past its last query is
not picked up otherwise. `OwnVectorsAreServed` is about the server's own runs: what a
command replaces in the second of the newest embedding, the server does not see.

## Proofs

All theorems are about arbitrary values of the constants under the modules' named
assumptions, and need no liveness.

- **`SyncJobsProofs`.** `TypeCorrect`: types alone are not inductive, since the
  executor uses the ids it takes from the queue; `Placement` says that ids held in
  a queue, a thread or a process belong to rows that exist and that the process
  inserted. `CoalescingCoversRequests`: `CoverInv` adds that a run that has not
  left `queued` has not read its sources, so a request that finds it queued is
  read later; no switch is assumed. `LeaseGivesMutualExclusion`: assuming
  `QuietStartup` and `LeaseOutlivesRun`, `LeaseInv` (whoever is in the body holds
  an unexpired lease on its own run) is inductive, and different processes never
  have the same run. `StatusesMoveForward`: assuming `QuietStartup`, `ProgressInv`
  (each point of `_run` allows certain statuses of its run; what waits in the queue or
  in a thread is queued, once) makes every step respect the order of statuses.
  `ImplementsSerialSync`: under both assumptions every step of `SyncJobs` is a step
  of `SerialSync` or leaves its variables alone; `ActiveOf` shows that the run in the
  body is unique, and a recovery finds nobody active because `LeaseInv` and
  `ProgressInv` say that nobody works.
- **`PdfCacheProofs`.** `TypeCorrect`; `OneVersionIsCurrent`: a commit marks every
  other row and no other step unmarks one; `ReadyRowsAreIntact`: `Intact` says
  that ready rows name whole files and that a thread about to commit has written
  one, `Knowing` what each thread knows of its target; `LabelsAreTrue`: assuming
  `VersionedUrl`. `OnlyTheOvertakenStayFresh`: recording a version leaves no other one
  unmarked, so what counts as current later was committed by an opening that read the
  older version before (`OvertakenInv`). `LoneFailuresCostNothing`: a thread on its way to
  a failure has found its version not cached, which stays so while it is `alone`
  (`LoneInv`).
- **`ArxivClientProofs`.** `RequestsKeepTheirDistance`, of the shared client: `Limiter` says that whoever
  is between taking the lock and the answer is the lock's owner, and that after a
  noted request the code's clock is the true one. `TypeCorrect`: that offsets and
  totals stay within a listing that changes rests on its papers being distinct and
  numbered as they enter. `CrawlMissesOnlyTheTail`: `Slides` says of `Enter` and `Move`
  that papers which do not move only go down and keep their order; `TailInv` that
  therefore the papers of the first answer are still in order (`Ordered`), that the
  crawl has whatever is above its offset (`HasRead`) and no paper without those above
  it (`NoGaps`), and that it ends past as many places as it found at first (`Sizes`).
  What it missed then lies below, at as many places as papers entered.
  `ImplementsResultStream` follows: a page that is yielded makes `NoGaps` the stream's
  order, and the last one makes `OnlyTheTailIsMissed` its end.
- **`IndexingProofs`.** `HashesTellTheTruth`; `AnnouncedVectorsAreServed`:
  `Announced` says that between two announcements both the loaded matrix and the rows
  a reader has read, under the lock that an announcement waits for, have every row
  of the executor. `OwnVectorsAreServed` alone is not inductive, as it says nothing
  of a reader halfway. `TypeCorrect`: the executor's queue is bounded because it holds
  each kind of run at most once.
- **`LibraryProofs`.** `TypeCorrect`: `TypeInv` adds to the tables' types what a
  request knows at each point (a paper it is about, at most one group).
  `SavedOrDismissed` is inductive by itself. The others rest on `LibraryInv`, whose
  `CountsOn` says what a request may count on: past its check its paper is saved or
  has raced (`GroupsHoldSavedPapers`), it has written only at certain points
  (`RefusalsChangeNothing`), and what a feed has chosen is disjoint from `settled`,
  which only shrinks (`DealtPapersStayOut`).
- **`FeedSyncProofs`.** `TypeCorrect`. `ProvenanceIsNeverStale`, assuming `QuickEdits`:
  `StaleInv` adds that what a crawl streams is found by the keywords of its copy, and
  that an update which has read the row finds provenance empty or the row with the
  keywords it read. `OnlyWhatIsLeftOutIsLost`, whatever the streams leave out, assuming `QuickEdits` and at most one
  edit per crawl: either the crawl's copy still describes the row (`Same`) or the one
  edit keeps the crawl from finishing it and makes a changed query start over
  (`Turned`). `Fetching` says that a paper the crawl owes is recorded, still ahead in
  its stream, left out of it, or recent enough to be read again by the next crawl: no date is ahead of
  the clock and the index lags less than the overlap.
- **`HighlightsProofs`.** `TypeCorrect`. `HighlightsStayBound`: `BoundInv` says that pages
  on screen are those of the version shown and of the PDF opened last, that a load
  under way remembers that version, and that a selection no load has carried over lies in
  the pages on screen. `NoNoteIsReplacedBlindly`, assuming `PromptReadBack`: `Told` says
  of every card and answer that, while its highlight lives, it is not newer than the
  row and, at the row's revision, shows its note; `MarksInv` that two highlights with
  one id in turn differ in their mark; `Written` that a row just written is read back
  as written.
- **`NoteEditingProofs`.** `TypeCorrect`; `AcknowledgementsAreTrue`: `AckInv` says that
  the text of a written request is among the note's bodies. `NoSaveIsBlind`, assuming
  `PromptReadBack`: in `BlindInv` every page has seen the revision it knows, unless that is
  no longer the note's or the page waits under a recovered draft with nothing under way (`KnowsWhatItSaw`, `Waits`), every
  request has seen the revision it is based on (`Told`), and a success carries
  the revision its text got. `NoLoadMeetsAnEdit`, assuming `QuietLoads`: a load starts
  only when no edit is under way, and none starts until it ends (`EditInv`), so that
  nothing is exempted there. `WhatIsCalledSavedIsSaved`, assuming `RepliesInOrder`,
  `QuietLoads` and `PromptReadBack`: `SaveInv` adds that the last live request carries
  the text on screen unless a save is due (`LastLive`), that nothing is typed or saved
  under a load, which can only go back to what is shown (`Quiet`), and that a closed
  page has nothing under way (`Shut`). `ImplementsNoteRegister`, assuming
  `PromptReadBack`: a request between its first `SELECT` and its write has decided
  nothing, but stands by what it found (`Underway`): a note that exists goes on
  existing, and one that does not was asked for at revision 0 or 1. Its write is the
  register's step, its read-back changes nothing the register sees.

Every invariant and every safety property of a step that a passing run checks is
proved. Only model-checked: liveness (`RequestIsServed`, `RunsFinish`,
`FeedConverges`, `CrawlEnds`, `EditsSettle`, `EverythingIsIndexed`), which is beyond
this prover. For `ImplementsSerialSync`, `ImplementsResultStream` and
`ImplementsNoteRegister` the abstract specifications state safety only.

## Plan

In this order:

1. `Migrations` and `Citations`.
2. Abstract specifications for the other components, proved by refinement: a cache
   with one current version (`PdfCache`), a set of sources each read up to some date
   (`FeedSync`).
