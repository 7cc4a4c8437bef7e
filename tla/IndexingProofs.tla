--------------------------- MODULE IndexingProofs ---------------------------
(***************************************************************************)
(* Proofs about Indexing, for any number of papers, commands, pages and    *)
(* readers, any batches and any seconds.                                   *)
(***************************************************************************)
EXTENDS Indexing, TLAPS

-----------------------------------------------------------------------------
(* Types.                                                                  *)

\* Versions of papers, the rows computed from them, and batches on their way.
StoredOK ==
  /\ content \in [Papers -> Versions] /\ changes \in Versions
  /\ embedded \in [Papers -> Rows \union {NoRow}]
  /\ taken \in [Indexers -> [Papers -> Versions]]
  /\ events \in 0..MaxEvents

\* The queue has each kind of job once.
QueueOK ==
  /\ queue \in Seq({"index", "sync"}) /\ Len(queue) \in 0..2
  /\ \A i, j \in 1..Len(queue) : queue[i] = queue[j] => i = j

RunsOK ==
  /\ QueueOK
  /\ job \in {NoJob, "index", "sync"}
  /\ pc \in [Indexers -> {"idle", "store", "query", "encode", "invalidate"}]
  /\ page \in [Pages -> {"idle", "stored"}]

\* What the index serves, and what will replace it.
ServedOK ==
  /\ cache.matrix \in [Papers -> Versions]
  /\ lock \in Readers \union {NoOne} /\ reading.point \in {"none", "stats", "rows"}
  /\ reading.point = "rows" => reading.matrix \in [Papers -> Versions]

TypeInv == StoredOK /\ RunsOK /\ ServedOK

LEMMA TypeParts == TypeInv => TypeOK
<1> SUFFICES ASSUME TypeInv PROVE TypeOK OBVIOUS
<1>1. queue \in Seq({"index", "sync"}) /\ Len(queue) <= 2 BY DEF TypeInv, RunsOK, QueueOK
<1>2. ToSet(queue) \subseteq {"index", "sync"} BY <1>1 DEF ToSet
<1> QED BY <1>1, <1>2 DEF TypeInv, StoredOK, RunsOK, ServedOK, TypeOK

LEMMA TypeInit == Init => TypeInv
<1> SUFFICES ASSUME Init PROVE TypeInv OBVIOUS
<1> USE IndexingAssumption DEF Init
<1>1. 0 \in Versions /\ NoMatrix \in [Papers -> Versions] BY DEF Versions, NoMatrix
<1>2. StoredOK BY <1>1 DEF StoredOK
<1>3. QueueOK BY DEF QueueOK
<1>4. RunsOK BY <1>3 DEF RunsOK
<1>5. ServedOK BY <1>1 DEF ServedOK, NotLoaded, NotRead
<1> QED BY <1>2, <1>4, <1>5 DEF TypeInv

\* A row is of a paper that its run has read.
LEMMA TypeStored == TypeInv /\ [Next]_vars => StoredOK'
<1> SUFFICES ASSUME TypeInv, [Next]_vars PROVE StoredOK' OBVIOUS
<1>0. StoredOK BY DEF TypeInv
<1>1. NoMatrix \in [Papers -> Versions]
  BY IndexingAssumption DEF Versions, NoMatrix
<1>2. StorePaper => content' \in [Papers -> Versions] /\ changes' \in Versions
  BY <1>0, IndexingAssumption DEF StorePaper, StoredOK, Versions
<1>3. Event => events' \in 0..MaxEvents
  BY <1>0, IndexingAssumption DEF Event, StoredOK
<1>4. \A i \in Indexers : [taken EXCEPT ![i] = NoMatrix] \in [Indexers -> [Papers -> Versions]]
  BY <1>0, <1>1 DEF StoredOK
<1>5. ASSUME NEW w \in Pages, PageStores(w) \/ SubmitIndexing(w) \/ ImportFails(w)
      PROVE StoredOK'
  BY <1>0, <1>2, <1>5 DEF StoredOK, PageStores, SubmitIndexing, ImportFails, papers, jobs
<1>6. CASE SubmitSync \/ TakeJob
  BY <1>0, <1>6 DEF StoredOK, SubmitSync, TakeJob, papers
<1>7. ASSUME NEW c \in Commands, StartCommand(c) PROVE StoredOK'
  <2>1. embedded' \in [Papers -> Rows \union {NoRow}] BY <1>0, <1>7 DEF StoredOK, StartCommand
  <2> QED BY <1>0, <1>3, <1>7, <2>1 DEF StoredOK, StartCommand, papers
<1>8. ASSUME NEW i \in Indexers, Store(i) \/ Invalidate(i) PROVE StoredOK'
  BY <1>0, <1>2, <1>8 DEF StoredOK, Store, Invalidate, papers
<1>9. ASSUME NEW i \in Indexers, Query(i) PROVE StoredOK'
  <2>1. taken' \in [Indexers -> [Papers -> Versions]]
    <3>1. CASE Ends(i) BY <1>4, <3>1 DEF Ends
    <3>2. ASSUME NEW batch,
                 taken' = [taken EXCEPT ![i] =
                             [p \in Papers |-> IF p \in batch THEN content[p] ELSE 0]]
          PROVE  taken' \in [Indexers -> [Papers -> Versions]]
      <4>1. [p \in Papers |-> IF p \in batch THEN content[p] ELSE 0] \in [Papers -> Versions]
        BY <1>0, IndexingAssumption DEF StoredOK, Versions
      <4> QED BY <1>0, <3>2, <4>1 DEF StoredOK
    <3> QED BY <1>9, <3>1, <3>2 DEF Query
  <2> QED BY <1>0, <1>9, <2>1 DEF StoredOK, Query, papers
<1>10. ASSUME NEW i \in Indexers, Commit(i) PROVE StoredOK'
  <2>1. PICK at \in Seconds :
          embedded' = [p \in Papers |->
            IF taken[i][p] = 0 THEN embedded[p]
            ELSE [hash |-> taken[i][p], text |-> taken[i][p], at |-> at, by |-> i]]
    BY <1>10 DEF Commit, HashOf
  <2>2. \A p \in Papers : taken[i][p] \in Versions BY <1>0, <1>10 DEF StoredOK
  <2>3. \A p \in Papers : taken[i][p] # 0 =>
          [hash |-> taken[i][p], text |-> taken[i][p], at |-> at, by |-> i] \in Rows
    BY <1>10, <2>2 DEF Rows
  <2>4. embedded' \in [Papers -> Rows \union {NoRow}] BY <1>0, <2>1, <2>3 DEF StoredOK
  <2> QED BY <1>0, <1>4, <1>10, <2>4 DEF StoredOK, Commit, papers
<1>11. ASSUME NEW i \in Indexers, Raise(i) PROVE StoredOK'
  BY <1>0, <1>3, <1>4, <1>11 DEF StoredOK, Raise, Ends, papers
<1>12. CASE Crash
  BY <1>0, <1>3, <1>4, <1>12 DEF StoredOK, Crash, papers, Indexers
<1>13. ASSUME NEW r \in Readers, ReadStats(r) \/ ReadRows(r) \/ Assign(r) PROVE StoredOK'
  BY <1>0, <1>13 DEF StoredOK, ReadStats, ReadRows, Assign, papers, jobs
<1>14. CASE UNCHANGED vars BY <1>0, <1>14 DEF StoredOK, vars, papers, jobs
<1> QED
  BY <1>5, <1>6, <1>7, <1>8, <1>9, <1>10, <1>11, <1>12, <1>13, <1>14
  DEF Next, IndexStep, ReadStep

\* A job joins the queue when none of its kind is in it.
LEMMA Submitted ==
  ASSUME QueueOK, NEW kind \in {"index", "sync"}, kind \notin ToSet(queue)
  PROVE  /\ Append(queue, kind) \in Seq({"index", "sync"})
         /\ Len(Append(queue, kind)) \in 0..2
         /\ \A i, j \in 1..Len(Append(queue, kind)) :
              Append(queue, kind)[i] = Append(queue, kind)[j] => i = j
<1>1. queue \in Seq({"index", "sync"}) /\ Len(queue) \in 0..2 BY DEF QueueOK
<1>2. \A i \in 1..Len(queue) : queue[i] # kind /\ queue[i] \in {"index", "sync"}
  BY <1>1 DEF ToSet
<1>3. Len(queue) # 2
  <2> SUFFICES ASSUME Len(queue) = 2 PROVE FALSE OBVIOUS
  <2>1. 1 \in 1..Len(queue) /\ 2 \in 1..Len(queue) OBVIOUS
  <2>2. queue[1] = queue[2] BY <1>2, <2>1
  <2> QED BY <2>1, <2>2 DEF QueueOK
<1>4. /\ Append(queue, kind) \in Seq({"index", "sync"})
      /\ Len(Append(queue, kind)) = Len(queue) + 1
      /\ \A i \in 1..Len(queue) : Append(queue, kind)[i] = queue[i]
      /\ Append(queue, kind)[Len(queue) + 1] = kind
  BY <1>1
<1>5. ASSUME NEW i \in 1..(Len(queue) + 1), NEW j \in 1..(Len(queue) + 1),
             Append(queue, kind)[i] = Append(queue, kind)[j]
      PROVE  i = j
  <2>1. i \in 1..Len(queue) \/ i = Len(queue) + 1 BY <1>1
  <2>2. j \in 1..Len(queue) \/ j = Len(queue) + 1 BY <1>1
  <2> QED BY <1>2, <1>4, <1>5, <2>1, <2>2 DEF QueueOK
<1> QED BY <1>1, <1>3, <1>4, <1>5

\* The executor takes the first job.
LEMMA Taken ==
  ASSUME QueueOK, queue # <<>>
  PROVE  /\ Head(queue) \in {"index", "sync"}
         /\ Tail(queue) \in Seq({"index", "sync"}) /\ Len(Tail(queue)) \in 0..2
         /\ \A i, j \in 1..Len(Tail(queue)) : Tail(queue)[i] = Tail(queue)[j] => i = j
<1>1. queue \in Seq({"index", "sync"}) /\ Len(queue) \in 1..2 BY DEF QueueOK
<1>2. /\ Head(queue) \in {"index", "sync"} /\ Tail(queue) \in Seq({"index", "sync"})
      /\ Len(Tail(queue)) = Len(queue) - 1
      /\ \A i \in 1..Len(Tail(queue)) : Tail(queue)[i] = queue[i + 1]
  BY <1>1
<1>3. ASSUME NEW i \in 1..Len(Tail(queue)), NEW j \in 1..Len(Tail(queue)),
             Tail(queue)[i] = Tail(queue)[j]
      PROVE  i = j
  <2>1. i + 1 \in 1..Len(queue) /\ j + 1 \in 1..Len(queue) BY <1>1, <1>2
  <2>2. queue[i + 1] = queue[j + 1] BY <1>2, <1>3
  <2>3. i + 1 = j + 1 BY <2>1, <2>2 DEF QueueOK
  <2> QED BY <2>3
<1> QED BY <1>1, <1>2, <1>3

LEMMA TypeRuns == TypeInv /\ [Next]_vars => RunsOK'
<1> SUFFICES ASSUME TypeInv, [Next]_vars PROVE RunsOK' OBVIOUS
<1>0. RunsOK /\ QueueOK BY DEF TypeInv, RunsOK
<1>1. UNCHANGED queue => QueueOK' BY <1>0 DEF QueueOK
<1>2. \A i \in Indexers : \A point \in {"idle", "store", "query", "encode", "invalidate"} :
        Goto(i, point) => pc' \in [Indexers -> {"idle", "store", "query", "encode", "invalidate"}]
  BY <1>0 DEF Goto, RunsOK
<1>3. ASSUME NEW w \in Pages, PageStores(w) \/ SubmitIndexing(w) \/ ImportFails(w)
      PROVE RunsOK'
  <2>1. page' \in [Pages -> {"idle", "stored"}] /\ UNCHANGED <<job, pc>>
    BY <1>0, <1>3 DEF RunsOK, PageStores, SubmitIndexing, ImportFails, jobs
  <2>2. QueueOK'
    <3>1. CASE UNCHANGED queue BY <1>1, <3>1
    <3>2. CASE queue' = Append(queue, "index") /\ "index" \notin ToSet(queue)
      BY <1>0, <3>2, Submitted DEF QueueOK
    <3> QED BY <1>3, <3>1, <3>2
        DEF PageStores, SubmitIndexing, ImportFails, IndexingIsQueued, jobs
  <2> QED BY <1>0, <2>1, <2>2 DEF RunsOK
<1>4. CASE SubmitSync
  <2>1. QueueOK' BY <1>0, <1>4, Submitted DEF SubmitSync, QueueOK
  <2> QED BY <1>0, <1>4, <2>1 DEF SubmitSync, RunsOK
<1>5. CASE TakeJob
  <2>1. QueueOK' /\ job' \in {"index", "sync"} BY <1>0, <1>5, Taken DEF TakeJob, QueueOK
  <2>2. Executor \in Indexers BY DEF Indexers
  <2>3. pc' \in [Indexers -> {"idle", "store", "query", "encode", "invalidate"}]
    BY <1>2, <1>5, <2>2 DEF TakeJob
  <2> QED BY <1>0, <1>5, <2>1, <2>3 DEF TakeJob, RunsOK
<1>6. ASSUME NEW c \in Commands, StartCommand(c) PROVE RunsOK'
  <2>1. c \in Indexers BY DEF Indexers
  <2>2. pc' \in [Indexers -> {"idle", "store", "query", "encode", "invalidate"}]
    BY <1>2, <1>6, <2>1 DEF StartCommand
  <2> QED BY <1>0, <1>1, <1>6, <2>2 DEF StartCommand, RunsOK
<1>7. ASSUME NEW i \in Indexers, IndexStep(i) \/ Raise(i) PROVE RunsOK'
  <2>1. UNCHANGED <<queue, page>> /\ job' \in {job, NoJob}
    BY <1>7 DEF IndexStep, Store, Query, Commit, Invalidate, Raise, Ends
  <2>2. pc' \in [Indexers -> {"idle", "store", "query", "encode", "invalidate"}]
    BY <1>0, <1>2, <1>7 DEF IndexStep, Store, Query, Commit, Invalidate, Raise, Ends, RunsOK
  <2> QED BY <1>0, <1>1, <2>1, <2>2 DEF RunsOK
<1>8. CASE Crash
  <2>1. QueueOK' BY <1>8 DEF Crash, QueueOK
  <2>2. Executor \in Indexers BY DEF Indexers
  <2>3. pc' \in [Indexers -> {"idle", "store", "query", "encode", "invalidate"}]
    BY <1>2, <1>8, <2>2 DEF Crash
  <2> QED BY <1>8, <2>1, <2>3 DEF Crash, RunsOK
<1>9. CASE UNCHANGED <<queue, job, pc, page>> BY <1>0, <1>1, <1>9 DEF RunsOK
<1>10. ASSUME NEW r \in Readers, ReadStats(r) \/ ReadRows(r) \/ Assign(r) PROVE RunsOK'
  BY <1>9, <1>10 DEF ReadStats, ReadRows, Assign, jobs
<1>11. CASE UNCHANGED vars BY <1>9, <1>11 DEF vars, jobs
<1> QED
  BY <1>3, <1>4, <1>5, <1>6, <1>7, <1>8, <1>10, <1>11 DEF Next, ReadStep

LEMMA TypeServed == TypeInv /\ [Next]_vars => ServedOK'
<1> SUFFICES ASSUME TypeInv, [Next]_vars PROVE ServedOK' OBVIOUS
<1>0. ServedOK /\ StoredOK BY DEF TypeInv
<1>1. NotLoaded.matrix \in [Papers -> Versions]
  BY IndexingAssumption DEF NotLoaded, Versions, NoMatrix
<1>2. CASE UNCHANGED index BY <1>0, <1>2 DEF ServedOK, index
<1>3. ASSUME NEW i \in Indexers, Invalidate(i) PROVE ServedOK'
  BY <1>0, <1>1, <1>3 DEF ServedOK, Invalidate
<1>4. CASE Crash BY <1>0, <1>1, <1>4 DEF ServedOK, Crash, NotRead
<1>5. ASSUME NEW r \in Readers, ReadStats(r) PROVE ServedOK'
  BY <1>0, <1>5 DEF ServedOK, ReadStats
<1>6. ASSUME NEW r \in Readers, ReadRows(r) PROVE ServedOK'
  <2>1. /\ reading'.point = "rows" /\ UNCHANGED <<cache, lock>>
        /\ reading'.matrix = [p \in Papers |->
                                IF embedded[p] = NoRow THEN 0 ELSE embedded[p].text]
    BY <1>6 DEF ReadRows
  <2>2. \A p \in Papers : embedded[p] # NoRow => embedded[p].text \in Versions
    BY <1>0 DEF StoredOK, Rows
  <2>3. reading'.matrix \in [Papers -> Versions]
    BY <2>1, <2>2, IndexingAssumption DEF Versions
  <2> QED BY <1>0, <2>1, <2>3 DEF ServedOK
<1>7. ASSUME NEW r \in Readers, Assign(r) PROVE ServedOK'
  BY <1>0, <1>7 DEF ServedOK, Assign, NotRead
<1>8. ASSUME NEW w \in Pages, PageStores(w) \/ SubmitIndexing(w) \/ ImportFails(w)
      PROVE UNCHANGED index
  BY <1>8 DEF PageStores, SubmitIndexing, ImportFails
<1>9. ASSUME SubmitSync \/ TakeJob PROVE UNCHANGED index BY <1>9 DEF SubmitSync, TakeJob
<1>10. ASSUME NEW c \in Commands, StartCommand(c) PROVE UNCHANGED index
  BY <1>10 DEF StartCommand
<1>11. ASSUME NEW i \in Indexers, Store(i) \/ Query(i) \/ Commit(i) \/ Raise(i)
       PROVE UNCHANGED index
  BY <1>11 DEF Store, Query, Commit, Raise
<1>12. ASSUME UNCHANGED vars PROVE UNCHANGED index BY <1>12 DEF vars, index
<1> QED
  BY <1>2, <1>3, <1>4, <1>5, <1>6, <1>7, <1>8, <1>9, <1>10, <1>11, <1>12
  DEF Next, IndexStep, ReadStep

LEMMA TypeNext == TypeInv /\ [Next]_vars => TypeInv'
BY TypeStored, TypeRuns, TypeServed DEF TypeInv

\* However often jobs are submitted, queued ones are at most one of each kind;
\* what is embedded and served are versions that papers have had.
THEOREM TypeCorrect == Spec => []TypeOK
BY TypeInit, TypeNext, TypeParts, PTL DEF Spec

-----------------------------------------------------------------------------
(* Vectors and hashes.                                                     *)

\* A row is written as a whole from one reading of its paper.
LEMMA VectorsNext == VectorsMatchTheirHash /\ [Next]_vars => VectorsMatchTheirHash'
<1> SUFFICES ASSUME VectorsMatchTheirHash, [Next]_vars PROVE VectorsMatchTheirHash'
  OBVIOUS
<1> USE DEF VectorsMatchTheirHash
<1>1. ASSUME NEW i \in Indexers, Commit(i) PROVE VectorsMatchTheirHash'
  BY <1>1 DEF Commit, HashOf
<1>2. ASSUME NEW c \in Commands, StartCommand(c) PROVE VectorsMatchTheirHash'
  BY <1>2 DEF StartCommand
<1>3. ASSUME UNCHANGED embedded PROVE VectorsMatchTheirHash'
  BY <1>3
<1>4. \/ \E i \in Indexers : Commit(i)
      \/ \E c \in Commands : StartCommand(c)
      \/ UNCHANGED embedded
  BY DEF Next, vars, PageStores, SubmitIndexing, ImportFails, SubmitSync, TakeJob,
         IndexStep, Store, Query, Invalidate, Raise, Crash, ReadStep, ReadStats,
         ReadRows, Assign
<1> QED
  BY <1>1, <1>2, <1>3, <1>4

\* Whoever changes a title while its vector is computed, and however many runs
\* overlap: the embedding's content_hash tells what the vector was made from.
THEOREM HashesTellTheTruth == Spec => []VectorsMatchTheirHash
<1>1. Init => VectorsMatchTheirHash
  BY DEF Init, VectorsMatchTheirHash
<1> QED
  BY <1>1, VectorsNext, PTL DEF Spec

-----------------------------------------------------------------------------
(* What the index has read.                                                *)

\* The matrix has every row that the server's runs wrote.
HasOwn(matrix) ==
  \A p \in Papers :
    embedded[p] # NoRow /\ embedded[p].by = Executor => matrix[p] = embedded[p].text

\* Between two announcements of the executor, whatever has been loaded, or
\* read under the lock in order to be loaded, has what it wrote before: only
\* commands write then, and what they write is not the executor's. The executor
\* announces within a job.
Announced ==
  /\ pc \in [Indexers -> {"idle", "store", "query", "encode", "invalidate"}]
  /\ queue \in Seq({"index", "sync"})
  /\ job = NoJob => pc[Executor] = "idle"
  /\ reading.point = "rows" => lock # NoOne
  /\ pc[Executor] # "invalidate" =>
       /\ cache.print # NotLoaded.print => HasOwn(cache.matrix)
       /\ reading.point = "rows" => HasOwn(reading.matrix)

LEMMA AnnouncedInit == Init => Announced
BY IndexingAssumption DEF Init, Announced, NotRead, NotLoaded, Indexers

LEMMA AnnouncedNext == Announced /\ [Next]_vars => Announced'
<1> SUFFICES ASSUME Announced, [Next]_vars PROVE Announced'
  OBVIOUS
<1> USE IndexingAssumption DEF Announced, Indexers, Goto
<1>1. ASSUME NEW w \in Pages, PageStores(w) \/ SubmitIndexing(w) \/ ImportFails(w)
      PROVE Announced'
  BY <1>1 DEF PageStores, SubmitIndexing, ImportFails, jobs, index, HasOwn
<1>2. CASE SubmitSync
  BY <1>2 DEF SubmitSync, index, HasOwn
<1>3. CASE TakeJob
  <2>1. queue # <<>> /\ Head(queue) \in {"index", "sync"} /\ Tail(queue) \in Seq({"index", "sync"})
    BY <1>3 DEF TakeJob
  <2>2. pc[Executor] = "idle"
    BY <1>3 DEF TakeJob
  <2>3. pc'[Executor] \in {"store", "query"}
        /\ pc' \in [Indexers -> {"idle", "store", "query", "encode", "invalidate"}]
    BY <1>3, <2>1 DEF TakeJob
  <2>4. UNCHANGED <<embedded, cache, lock, reading>>
    BY <1>3 DEF TakeJob, index
  <2>5. queue' \in Seq({"index", "sync"}) /\ job' # NoJob
    BY <1>3, <2>1 DEF TakeJob, NoJob
  <2> QED
    BY <2>2, <2>3, <2>4, <2>5 DEF HasOwn
<1>4. ASSUME NEW c \in Commands, StartCommand(c) PROVE Announced'
  <2>1. \A p \in Papers : embedded'[p] = embedded[p] \/ embedded'[p] = NoRow
    BY <1>4 DEF StartCommand
  <2>2. pc' \in [Indexers -> {"idle", "store", "query", "encode", "invalidate"}]
        /\ pc'[Executor] = pc[Executor]
    BY <1>4 DEF StartCommand
  <2>3. UNCHANGED <<queue, job, cache, lock, reading>>
    BY <1>4 DEF StartCommand, index
  <2> QED
    BY <2>1, <2>2, <2>3 DEF HasOwn
<1>5. ASSUME NEW i \in Indexers, IndexStep(i) PROVE Announced'
  <2>1. CASE Store(i)
    BY <2>1 DEF Store, index, HasOwn
  <2>2. CASE Query(i)
    BY <2>2 DEF Query, Ends, index, HasOwn
  <2>3. CASE Commit(i)
    <3>1. /\ pc[i] = "encode" /\ pc' = [pc EXCEPT ![i] = "invalidate"]
          /\ UNCHANGED <<queue, job, cache, lock, reading>>
      BY <2>3 DEF Commit, index
    <3>2. CASE i = Executor
      BY <3>1, <3>2
    <3>3. CASE i # Executor
      <4>1. \A p \in Papers : embedded'[p] = embedded[p] \/ embedded'[p].by # Executor
        BY <2>3, <3>3 DEF Commit
      <4> QED
        BY <3>1, <3>3, <4>1 DEF HasOwn
    <3> QED
      BY <3>2, <3>3
  <2>4. CASE Invalidate(i)
    BY <2>4 DEF Invalidate, LockIsFree, NotLoaded, HasOwn
  <2> QED
    BY <1>5, <2>1, <2>2, <2>3, <2>4 DEF IndexStep
<1>6. ASSUME NEW i \in Indexers, Raise(i) PROVE Announced'
  BY <1>6 DEF Raise, Ends, index, HasOwn
<1>7. CASE Crash
  BY <1>7 DEF Crash, NotLoaded, NotRead
<1>8. ASSUME NEW r \in Readers, ReadStats(r) PROVE Announced'
  BY <1>8 DEF ReadStats, jobs, HasOwn
<1>9. ASSUME NEW r \in Readers, ReadRows(r) PROVE Announced'
  BY <1>9 DEF ReadRows, jobs, HasOwn
<1>10. ASSUME NEW r \in Readers, Assign(r) PROVE Announced'
  BY <1>10 DEF Assign, jobs, NotRead, HasOwn
<1>11. CASE UNCHANGED vars
  BY <1>11 DEF vars, jobs, index, HasOwn
<1> QED
  BY <1>1, <1>2, <1>3, <1>4, <1>5, <1>6, <1>7, <1>8, <1>9, <1>10, <1>11
  DEF Next, ReadStep

\* Whatever the seconds, the readers and the commands: an index that serves what
\* it has loaded serves all that the server's own runs have announced.
THEOREM AnnouncedVectorsAreServed == Spec => []OwnVectorsAreServed
<1>1. Announced => OwnVectorsAreServed
  <2>1. Fingerprint # NotLoaded.print
    BY DEF Fingerprint, NotLoaded
  <2> QED
    BY <2>1 DEF Announced, OwnVectorsAreServed, HasOwn
<1> QED
  BY <1>1, AnnouncedInit, AnnouncedNext, PTL DEF Spec
=============================================================================
