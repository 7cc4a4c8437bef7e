------------------------------ MODULE Indexing ------------------------------
(***************************************************************************)
(* The embeddings of the papers: EmbeddingService.index_pending, run by    *)
(* the server's one-thread executor (after a synchronization, or for       *)
(* JobManager.submit_indexing) and by commands beside it, and the matrix   *)
(* that EmbeddingIndex keeps in the server's memory for its readers        *)
(* (services/embeddings.py, services/jobs.py).                             *)
(*                                                                         *)
(* A title and abstract are their version, which stands for content_hash   *)
(* too; the vector computed from them is the version it was computed from. *)
(* Times of generation have the resolution of a second and are noted       *)
(* before the transaction: any two may be equal, or in the other order.    *)
(***************************************************************************)
EXTENDS Integers, Sequences, SequencesExt, FiniteSetsExt

CONSTANTS
  Papers,
  Executor,         \* the server's executor thread
  Commands,         \* processes of reindex, import-papers, sync
  Pages,            \* server threads of a search or an import
  Readers,          \* server threads that rank papers
  NoOne,
  BatchSize,        \* EMBEDDING_BATCH_SIZE
  Seconds,          \* values of generated_at
  MaxChanges,       \* bound: papers added, titles or abstracts changed
  MaxEvents         \* bound: commands started, runs that raise, crashes of the server

ASSUME IndexingAssumption ==
  /\ Executor \notin Commands /\ NoOne \notin Readers
  /\ BatchSize \in Nat \ {0} /\ Seconds \subseteq Nat \ {0}
  /\ MaxChanges \in Nat /\ MaxEvents \in Nat

Indexers == {Executor} \union Commands

VARIABLES
  content,    \* papers: the version of title and abstract, 0 for no paper
  embedded,   \* paper_embeddings: rows of the active model
  queue, job, \* the executor's waiting jobs, and the one it runs
  pc,         \* per indexer: where its run is
  taken,      \* per indexer: the versions its query has read, 0 for not read
  page,       \* per page thread: whether it has stored a paper
  cache,      \* EmbeddingIndex: its fingerprint and its matrix
  lock,       \* EmbeddingIndex._lock
  reading,    \* of the reader that holds the lock: what it has read
  changes, events

papers == <<content, changes>>
jobs   == <<queue, job, pc, taken>>
index  == <<cache, lock, reading>>
vars   == <<papers, embedded, jobs, page, index, events>>

Versions  == 0..MaxChanges
NoRow     == [hash |-> 0]
Rows      == [hash : Versions \ {0}, text : Versions \ {0}, at : Seconds, by : Indexers]
NoJob     == "none"
NoMatrix  == [p \in Papers |-> 0]
NotLoaded == [print |-> <<>>, matrix |-> NoMatrix]
NotRead   == [point |-> "none"]

TypeOK ==
  /\ content \in [Papers -> Versions]
  /\ embedded \in [Papers -> Rows \union {NoRow}]
  /\ Len(queue) <= 2 /\ ToSet(queue) \subseteq {"index", "sync"}
  /\ job \in {NoJob, "index", "sync"}
  /\ pc \in [Indexers -> {"idle", "store", "query", "encode", "invalidate"}]
  /\ taken \in [Indexers -> [Papers -> Versions]]
  /\ page \in [Pages -> {"idle", "stored"}]
  /\ cache.matrix \in [Papers -> Versions]
  /\ lock \in Readers \union {NoOne} /\ reading.point \in {"none", "stats", "rows"}
  /\ changes \in Versions /\ events \in 0..MaxEvents

Init ==
  /\ content = [p \in Papers |-> 0] /\ changes = 0
  /\ embedded = [p \in Papers |-> NoRow]
  /\ queue = <<>> /\ job = NoJob
  /\ pc = [i \in Indexers |-> "idle"] /\ taken = [i \in Indexers |-> NoMatrix]
  /\ page = [w \in Pages |-> "idle"]
  /\ cache = NotLoaded
  /\ lock = NoOne /\ reading = NotRead
  /\ events = 0

Goto(i, point) == pc' = [pc EXCEPT ![i] = point]
Event == events < MaxEvents /\ events' = events + 1

\* A transaction that stores papers: one is new, or has a new title or abstract.
StorePaper ==
  /\ changes < MaxChanges /\ changes' = changes + 1
  /\ \E p \in Papers : content' = [content EXCEPT ![p] = changes + 1]

-----------------------------------------------------------------------------
(* Requests: searches, imports and synchronizations.                       *)

\* A search or an import stores what it found ...
PageStores(w) ==
  /\ page[w] = "idle" /\ page' = [page EXCEPT ![w] = "stored"]
  /\ StorePaper
  /\ UNCHANGED <<embedded, jobs, index, events>>

\* Mutant: every request queues a run.
NeverQueued == FALSE
IndexingIsQueued == job = "index" \/ "index" \in ToSet(queue)

\* ... then calls submit_indexing, which leaves it to a run that is not done,
\* even if that one has made its last query.
SubmitIndexing(w) ==
  /\ page[w] = "stored" /\ page' = [page EXCEPT ![w] = "idle"]
  /\ queue' = IF IndexingIsQueued THEN queue ELSE Append(queue, "index")
  /\ UNCHANGED <<papers, embedded, job, pc, taken, index, events>>

\* An import whose group has been deleted reports that, and submits nothing.
ImportFails(w) ==
  /\ page[w] = "stored" /\ page' = [page EXCEPT ![w] = "idle"]
  /\ UNCHANGED <<papers, embedded, jobs, index, events>>

\* The scheduler or a page: a queued synchronization answers the request.
SubmitSync ==
  /\ "sync" \notin ToSet(queue)
  /\ queue' = Append(queue, "sync")
  /\ UNCHANGED <<papers, embedded, job, pc, taken, page, index, events>>

-----------------------------------------------------------------------------
(* The runs.                                                               *)

TakeJob ==
  /\ job = NoJob /\ queue # <<>>
  /\ job' = Head(queue) /\ queue' = Tail(queue)
  /\ Goto(Executor, IF Head(queue) = "sync" THEN "store" ELSE "query")
  /\ UNCHANGED <<papers, embedded, taken, page, index, events>>

\* import-papers and sync store papers first; reindex may delete the embeddings.
StartCommand(c) ==
  /\ pc[c] = "idle" /\ Event
  /\ \/ Goto(c, "store") /\ UNCHANGED embedded
     \/ Goto(c, "query") /\ UNCHANGED embedded
     \/ Goto(c, "query") /\ embedded' = [p \in Papers |-> NoRow]
  /\ UNCHANGED <<papers, queue, job, taken, page, index>>

Store(i) ==
  /\ pc[i] = "store"
  /\ \/ StorePaper /\ UNCHANGED pc
     \/ Goto(i, "query") /\ UNCHANGED papers
  /\ UNCHANGED <<embedded, queue, job, taken, page, index, events>>

\* Mutant: a changed abstract does not invalidate the embedding.
WithoutRow == {p \in Papers : content[p] # 0 /\ embedded[p] = NoRow}
Pending == {p \in Papers : content[p] # 0 /\ embedded[p].hash # content[p]}

Ends(i) ==
  /\ Goto(i, "idle") /\ taken' = [taken EXCEPT ![i] = NoMatrix]
  /\ job' = IF i = Executor THEN NoJob ELSE job

\* The SELECT of a batch; the run ends when it finds nothing.
Query(i) ==
  /\ pc[i] = "query"
  /\ \/ Pending = {} /\ Ends(i)
     \/ \E batch \in SUBSET Pending :
          /\ batch # {}
          /\ Cardinality(batch) <= BatchSize
          /\ batch = Pending \/ Cardinality(batch) = BatchSize
          /\ taken' = [taken EXCEPT ![i] =
                         [p \in Papers |-> IF p \in batch THEN content[p] ELSE 0]]
          /\ Goto(i, "encode") /\ UNCHANGED job
  /\ UNCHANGED <<papers, embedded, queue, page, index, events>>

\* Mutant: the hash is that of the paper when the vector is written.
HashAtWrite(i, p) == content[p]
HashOf(i, p) == taken[i][p]

\* The vectors are computed and written in one transaction.
Commit(i) ==
  /\ pc[i] = "encode"
  /\ \E at \in Seconds :
       embedded' = [p \in Papers |->
         IF taken[i][p] = 0 THEN embedded[p]
         ELSE [hash |-> HashOf(i, p), text |-> taken[i][p], at |-> at, by |-> i]]
  /\ Goto(i, "invalidate") /\ taken' = [taken EXCEPT ![i] = NoMatrix]
  /\ UNCHANGED <<papers, queue, job, page, index, events>>

\* Mutant: invalidate without the lock.
Unlocked == TRUE
LockIsFree == lock = NoOne

\* The executor's run makes the server's index reload, so that its matrix is not
\* served any more; a command has an index of its own.
Invalidate(i) ==
  /\ pc[i] = "invalidate"
  /\ IF i = Executor THEN LockIsFree /\ cache' = NotLoaded
                     ELSE UNCHANGED cache
  /\ Goto(i, "query")
  /\ UNCHANGED <<papers, embedded, queue, job, taken, page, lock, reading, events>>

\* The crawl, the model or the database raises: the run ends and is logged.
Raise(i) ==
  /\ pc[i] \in {"store", "query", "encode"} /\ Event
  /\ Ends(i)
  /\ UNCHANGED <<papers, embedded, queue, page, index>>

\* The server is killed: its memory is lost.
Crash ==
  /\ Event
  /\ queue' = <<>> /\ job' = NoJob
  /\ Goto(Executor, "idle") /\ taken' = [taken EXCEPT ![Executor] = NoMatrix]
  /\ page' = [w \in Pages |-> "idle"]
  /\ cache' = NotLoaded
  /\ lock' = NoOne /\ reading' = NotRead
  /\ UNCHANGED <<papers, embedded>>

-----------------------------------------------------------------------------
(* The index: snapshot and _refresh, under the lock.                       *)

Fingerprint ==
  LET rows == {p \in Papers : embedded[p] # NoRow}
  IN <<Cardinality(rows), Max({0} \union {embedded[p].at : p \in rows})>>

\* Number and newest time: what was loaded at the same ones is served again.
ReadStats(r) ==
  /\ lock = NoOne /\ Fingerprint # cache.print
  /\ lock' = r /\ reading' = [point |-> "stats", print |-> Fingerprint]
  /\ UNCHANGED <<papers, embedded, jobs, page, cache, events>>

\* A statement of its own: the table may have changed.
ReadRows(r) ==
  /\ lock = r /\ reading.point = "stats"
  /\ reading' = [point |-> "rows", print |-> reading.print,
                 matrix |-> [p \in Papers |->
                   IF embedded[p] = NoRow THEN 0 ELSE embedded[p].text]]
  /\ UNCHANGED <<papers, embedded, jobs, page, cache, lock, events>>

Assign(r) ==
  /\ lock = r /\ reading.point = "rows"
  /\ cache' = [print |-> reading.print, matrix |-> reading.matrix]
  /\ lock' = NoOne /\ reading' = NotRead
  /\ UNCHANGED <<papers, embedded, jobs, page, events>>

-----------------------------------------------------------------------------
IndexStep(i) == Store(i) \/ Query(i) \/ Commit(i) \/ Invalidate(i)
ReadStep(r)  == ReadRows(r) \/ Assign(r)

Next ==
  \/ \E w \in Pages : PageStores(w) \/ SubmitIndexing(w) \/ ImportFails(w)
  \/ SubmitSync \/ TakeJob
  \/ \E c \in Commands : StartCommand(c)
  \/ \E i \in Indexers : IndexStep(i) \/ Raise(i)
  \/ Crash
  \/ \E r \in Readers : ReadStats(r) \/ ReadStep(r)

Spec == Init /\ [][Next]_vars

\* The scheduler submits a synchronization every day, the executor runs, and
\* readers carry on; commands and users owe nothing.
FairSpec ==
  /\ Spec
  /\ WF_vars(SubmitSync) /\ WF_vars(TakeJob) /\ WF_vars(IndexStep(Executor))
  /\ \A r \in Readers : WF_vars(ReadStep(r))

-----------------------------------------------------------------------------
(* Properties.                                                             *)

\* A vector is never filed under a content_hash it was not computed from, so
\* that a changed abstract is found to be pending (docs/PLAN.md:47), whoever
\* changed it while the model ran.
VectorsMatchTheirHash ==
  \A p \in Papers : embedded[p] # NoRow => embedded[p].text = embedded[p].hash

\* What the index serves contains every vector that the server's own runs have
\* written and announced, whatever seconds they were written in and whatever
\* commands delete or write beside them.
OwnVectorsAreServed ==
  cache.print = Fingerprint /\ lock = NoOne /\ pc[Executor] # "invalidate" =>
    \A p \in Papers :
      embedded[p] # NoRow /\ embedded[p].by = Executor => cache.matrix[p] = embedded[p].text

\* Papers that a request left to a run past its last query, and those of failed
\* runs, are embedded in the end: by the daily synchronization.
EverythingIsIndexed ==
  <>[](\A p \in Papers : content[p] # 0 => embedded[p].hash = content[p])
=============================================================================
