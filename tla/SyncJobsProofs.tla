--------------------------- MODULE SyncJobsProofs ---------------------------
(***************************************************************************)
(* Proofs about SyncJobs, for every number of callers, commands, runs and  *)
(* requests: its types, the coverage of requests by coalesced runs, and    *)
(* the mutual exclusion the lease gives when processes start quietly.      *)
(***************************************************************************)
EXTENDS SyncJobs, TLAPS

\* Where a run's id may be held: the rows behind the ids are inserted, and
\* only the process that inserted a row ever executes it.
Placed(r, p) == r \in RunIds /\ r < nextId /\ trigger[r] = p

Placement ==
  /\ \A p \in Procs : job[p] # NoRun => up[p] /\ Placed(job[p], p)
  /\ \A p \in Procs : pc[p] \notin {"idle", "start"} => job[p] # NoRun
  /\ \A i \in 1..Len(queue) : Placed(queue[i], Server)
  /\ \A c \in Callers : cpc[c] = "enqueue" => Placed(crun[c], Server)

TypeInv == TypeOK /\ Placement

LEMMA TypeInit == Init => TypeInv
  <1> SUFFICES ASSUME Init PROVE TypeInv
    OBVIOUS
  <1> USE BoundsAssumption DEF Init, RunIds, NoRun, Unread
  <1>1. DatabaseTypeOK
    <2>1. /\ runs \in [RunIds -> Status]
          /\ nextId \in 1..(MaxRuns + 1)
          /\ edits \in 0..MaxEdits
      BY DEF Status
    <2>2. trigger \in [RunIds -> Procs \union {NoRun}]
      BY Zenon
    <2> QED
      BY <2>1, <2>2 DEF DatabaseTypeOK
  <1>2. ProcessTypeOK
    BY DEF ProcessTypeOK, Points
  <1>3. CallerTypeOK
    BY DEF CallerTypeOK
  <1>4. HistoryTypeOK
    <2>1. requested \in [RunIds -> 0..MaxEdits]
      OBVIOUS
    <2>2. snapshot \in [RunIds -> 0..MaxEdits \union {Unread}]
      OBVIOUS
    <2>3. locked \subseteq RunIds
      OBVIOUS
    <2> QED
      BY <2>1, <2>2, <2>3 DEF HistoryTypeOK
  <1>5. Placement
    BY DEF Placement
  <1> QED
    BY <1>1, <1>2, <1>3, <1>4, <1>5 DEF TypeInv, TypeOK

\* One step of _run keeps the types and the placement of run ids.
LEMMA RunStepTypes ==
  ASSUME TypeInv, NEW p \in Procs, RunStep(p)
  PROVE  TypeInv'
  <1> USE BoundsAssumption
      DEF TypeInv, TypeOK, RunIds, NoRun, database, caller, history, Goto
  <1>1. CASE AcquireLease(p)
    <2> USE <1>1 DEF AcquireLease, LeaseIsFree
    <2>1. TypeOK'
      BY DEF DatabaseTypeOK, ProcessTypeOK, CallerTypeOK, HistoryTypeOK, Points,
             BodyPoints, Status, Terminal, Unread
    <2>2. Placement'
      BY DEF Placement, Placed, DatabaseTypeOK, ProcessTypeOK
    <2> QED
      BY <2>1, <2>2
  <1>2. CASE RunRaises(p)
    <2> USE <1>2 DEF RunRaises, Finish
    <2>1. TypeOK'
      <3>1. job[p] \in RunIds
        BY DEF Placement, Placed
      <3>2. HistoryTypeOK'
        BY <3>1 DEF HistoryTypeOK
      <3>3. DatabaseTypeOK' /\ ProcessTypeOK' /\ CallerTypeOK'
        BY DEF DatabaseTypeOK, ProcessTypeOK, CallerTypeOK, Points, BodyPoints, Status,
               Terminal
      <3> QED
        BY <3>2, <3>3
    <2>2. Placement'
      BY DEF Placement, Placed, DatabaseTypeOK, ProcessTypeOK
    <2> QED
      BY <2>1, <2>2
  <1>3. CASE Refuse(p)
    <2> USE <1>3 DEF Refuse, Finish
    <2>1. TypeOK'
      BY DEF DatabaseTypeOK, ProcessTypeOK, CallerTypeOK, HistoryTypeOK, Points,
             BodyPoints, Status, Terminal, Unread
    <2>2. Placement'
      BY DEF Placement, Placed, DatabaseTypeOK, ProcessTypeOK
    <2> QED
      BY <2>1, <2>2
  <1>4. CASE MarkRunning(p)
    <2> USE <1>4 DEF MarkRunning
    <2>1. TypeOK'
      BY DEF DatabaseTypeOK, ProcessTypeOK, CallerTypeOK, HistoryTypeOK, Points,
             BodyPoints, Status, Terminal, Unread
    <2>2. Placement'
      BY DEF Placement, Placed, DatabaseTypeOK, ProcessTypeOK
    <2> QED
      BY <2>1, <2>2
  <1>5. CASE ReadSources(p)
    <2> USE <1>5 DEF ReadSources
    <2>1. TypeOK'
      BY DEF DatabaseTypeOK, ProcessTypeOK, CallerTypeOK, HistoryTypeOK, Points,
             BodyPoints, Status, Terminal, Unread
    <2>2. Placement'
      BY DEF Placement, Placed, DatabaseTypeOK, ProcessTypeOK
    <2> QED
      BY <2>1, <2>2
  <1>6. CASE SyncFeeds(p)
    <2> USE <1>6 DEF SyncFeeds
    <2>1. TypeOK'
      BY DEF DatabaseTypeOK, ProcessTypeOK, CallerTypeOK, HistoryTypeOK, Points,
             BodyPoints, Status, Terminal, Unread
    <2>2. Placement'
      BY DEF Placement, Placed, DatabaseTypeOK, ProcessTypeOK
    <2> QED
      BY <2>1, <2>2
  <1>7. CASE RenewLease(p)
    <2> USE <1>7 DEF RenewLease
    <2>1. TypeOK'
      BY DEF DatabaseTypeOK, ProcessTypeOK, CallerTypeOK, HistoryTypeOK, Points,
             BodyPoints, Status, Terminal, Unread
    <2>2. Placement'
      BY DEF Placement, Placed, DatabaseTypeOK, ProcessTypeOK
    <2> QED
      BY <2>1, <2>2
  <1>8. CASE Succeed(p)
    <2> USE <1>8 DEF Succeed
    <2>1. TypeOK'
      BY DEF DatabaseTypeOK, ProcessTypeOK, CallerTypeOK, HistoryTypeOK, Points,
             BodyPoints, Status, Terminal, Unread
    <2>2. Placement'
      BY DEF Placement, Placed, DatabaseTypeOK, ProcessTypeOK
    <2> QED
      BY <2>1, <2>2
  <1>9. CASE BodyRaises(p)
    <2> USE <1>9 DEF BodyRaises
    <2>1. TypeOK'
      BY DEF DatabaseTypeOK, ProcessTypeOK, CallerTypeOK, HistoryTypeOK, Points,
             BodyPoints, Status, Terminal, Unread
    <2>2. Placement'
      BY DEF Placement, Placed, DatabaseTypeOK, ProcessTypeOK
    <2> QED
      BY <2>1, <2>2
  <1>10. CASE Fail(p)
    <2> USE <1>10 DEF Fail
    <2>1. TypeOK'
      <3>1. job[p] \in RunIds
        BY DEF Placement, Placed
      <3>2. HistoryTypeOK'
        BY <3>1 DEF HistoryTypeOK
      <3>3. DatabaseTypeOK' /\ ProcessTypeOK' /\ CallerTypeOK'
        BY DEF DatabaseTypeOK, ProcessTypeOK, CallerTypeOK, Points, BodyPoints, Status,
               Terminal
      <3> QED
        BY <3>2, <3>3
    <2>2. Placement'
      BY DEF Placement, Placed, DatabaseTypeOK, ProcessTypeOK
    <2> QED
      BY <2>1, <2>2
  <1>11. CASE ReleaseLease(p)
    <2> USE <1>11 DEF ReleaseLease, Finish
    <2>1. TypeOK'
      BY DEF DatabaseTypeOK, ProcessTypeOK, CallerTypeOK, HistoryTypeOK, Points,
             BodyPoints, Status, Terminal, Unread
    <2>2. Placement'
      BY DEF Placement, Placed, DatabaseTypeOK, ProcessTypeOK
    <2> QED
      BY <2>1, <2>2
  <1> QED
    BY <1>1, <1>2, <1>3, <1>4, <1>5, <1>6, <1>7, <1>8, <1>9, <1>10, <1>11 DEF RunStep

LEMMA TypeStep == TypeInv /\ [Next]_vars => TypeInv'
  <1> SUFFICES ASSUME TypeInv, [Next]_vars PROVE TypeInv'
    OBVIOUS
  <1> USE BoundsAssumption
      DEF TypeInv, TypeOK, RunIds, NoRun, database, process, caller, history
  <1>1. ASSUME NEW p \in Procs, Start(p) PROVE TypeInv'
    <2> USE <1>1 DEF Start, RecoveredStatuses
    <2>1. DatabaseTypeOK'
      BY DEF DatabaseTypeOK, Status, Terminal, Procs
    <2>2. ProcessTypeOK' /\ CallerTypeOK' /\ HistoryTypeOK'
      BY DEF DatabaseTypeOK, ProcessTypeOK, CallerTypeOK, HistoryTypeOK, Placement,
             Placed, Points, Unread, Procs
    <2>3. Placement'
      BY DEF Placement, Placed, Procs, DatabaseTypeOK, ProcessTypeOK, CallerTypeOK
    <2> QED
      BY <2>1, <2>2, <2>3
  <1>2. ASSUME NEW p \in Procs, Stop(p) PROVE TypeInv'
    <2> USE <1>2 DEF Stop
    <2>1. DatabaseTypeOK' /\ HistoryTypeOK'
      BY DEF DatabaseTypeOK, HistoryTypeOK
    <2>2. ProcessTypeOK' /\ CallerTypeOK'
      <3>1. CASE p = Server
        BY <3>1 DEF ProcessTypeOK, CallerTypeOK, Points
      <3>2. CASE p # Server
        BY <3>2 DEF ProcessTypeOK, CallerTypeOK, Points
      <3> QED
        BY <3>1, <3>2
    <2>3. Placement'
      BY DEF Placement, Placed, Procs, DatabaseTypeOK, ProcessTypeOK, CallerTypeOK
    <2> QED
      BY <2>1, <2>2, <2>3
  <1>3. ASSUME NEW p \in Procs, CliInsert(p) PROVE TypeInv'
    <2> USE <1>3 DEF CliInsert
    <2>1. DatabaseTypeOK'
      BY DEF DatabaseTypeOK, Status, Terminal, Procs
    <2>2. ProcessTypeOK' /\ CallerTypeOK' /\ HistoryTypeOK'
      BY DEF DatabaseTypeOK, ProcessTypeOK, CallerTypeOK, HistoryTypeOK, Placement,
             Placed, Points, Unread, Procs
    <2>3. Placement'
      BY DEF Placement, Placed, Procs, DatabaseTypeOK, ProcessTypeOK, CallerTypeOK
    <2> QED
      BY <2>1, <2>2, <2>3
  <1>4. ASSUME NEW c \in Callers, Request(c) PROVE TypeInv'
    <2> USE <1>4 DEF Request
    <2>1. DatabaseTypeOK'
      BY DEF DatabaseTypeOK, Status, Terminal, Procs
    <2>2. ProcessTypeOK' /\ CallerTypeOK' /\ HistoryTypeOK'
      BY DEF DatabaseTypeOK, ProcessTypeOK, CallerTypeOK, HistoryTypeOK, Placement,
             Placed, Points, Unread, Procs
    <2>3. Placement'
      BY DEF Placement, Placed, Procs, DatabaseTypeOK, ProcessTypeOK, CallerTypeOK
    <2> QED
      BY <2>1, <2>2, <2>3
  <1>5. ASSUME NEW c \in Callers, SubmitSelect(c) PROVE TypeInv'
    <2> USE <1>5 DEF SubmitSelect, Queued
    <2>0. wanted' \in [Callers -> 0..MaxEdits]
      BY DEF CallerTypeOK
    <2>1. DatabaseTypeOK' /\ ProcessTypeOK' /\ CallerTypeOK'
      BY <2>0 DEF DatabaseTypeOK, ProcessTypeOK, CallerTypeOK
    <2>2. HistoryTypeOK'
      BY DEF CallerTypeOK, HistoryTypeOK
    <2>3. Placement'
      BY DEF Placement, Placed, Procs, DatabaseTypeOK, ProcessTypeOK, CallerTypeOK
    <2> QED
      BY <2>1, <2>2, <2>3
  <1>6. ASSUME NEW c \in Callers, SubmitInsert(c) PROVE TypeInv'
    <2> USE <1>6 DEF SubmitInsert
    <2>1. DatabaseTypeOK'
      BY DEF DatabaseTypeOK, Status, Terminal, Procs
    <2>2. ProcessTypeOK' /\ CallerTypeOK' /\ HistoryTypeOK'
      BY DEF DatabaseTypeOK, ProcessTypeOK, CallerTypeOK, HistoryTypeOK, Placement,
             Placed, Points, Unread, Procs
    <2>3. Placement'
      BY DEF Placement, Placed, Procs, DatabaseTypeOK, ProcessTypeOK, CallerTypeOK
    <2> QED
      BY <2>1, <2>2, <2>3
  <1>7. ASSUME NEW c \in Callers, SubmitEnqueue(c) PROVE TypeInv'
    <2> USE <1>7 DEF SubmitEnqueue
    <2>1. DatabaseTypeOK'
      BY DEF DatabaseTypeOK, Status, Terminal, Procs
    <2>2. ProcessTypeOK' /\ CallerTypeOK' /\ HistoryTypeOK'
      BY DEF DatabaseTypeOK, ProcessTypeOK, CallerTypeOK, HistoryTypeOK, Placement,
             Placed, Points, Unread, Procs
    <2>3. Placement'
      BY DEF Placement, Placed, Procs, DatabaseTypeOK, ProcessTypeOK, CallerTypeOK
    <2> QED
      BY <2>1, <2>2, <2>3
  <1>8. CASE TakeJob
    <2> USE <1>8 DEF TakeJob
    <2>1. DatabaseTypeOK'
      BY DEF DatabaseTypeOK, Status, Terminal, Procs
    <2>2. ProcessTypeOK' /\ CallerTypeOK' /\ HistoryTypeOK'
      BY DEF DatabaseTypeOK, ProcessTypeOK, CallerTypeOK, HistoryTypeOK, Placement,
             Placed, Points, Unread, Procs
    <2>3. Placement'
      BY DEF Placement, Placed, Procs, DatabaseTypeOK, ProcessTypeOK, CallerTypeOK
    <2> QED
      BY <2>1, <2>2, <2>3
  <1>9. CASE LeaseExpires
    <2> USE <1>9 DEF LeaseExpires
    <2>1. DatabaseTypeOK'
      BY DEF DatabaseTypeOK, Status, Terminal, Procs
    <2>2. ProcessTypeOK' /\ CallerTypeOK' /\ HistoryTypeOK'
      BY DEF DatabaseTypeOK, ProcessTypeOK, CallerTypeOK, HistoryTypeOK, Placement,
             Placed, Points, Unread, Procs
    <2>3. Placement'
      BY DEF Placement, Placed, Procs, DatabaseTypeOK, ProcessTypeOK, CallerTypeOK
    <2> QED
      BY <2>1, <2>2, <2>3
  <1>10. CASE UNCHANGED vars
    BY <1>10 DEF vars, DatabaseTypeOK, ProcessTypeOK, CallerTypeOK, HistoryTypeOK,
                 Placement, Placed
  <1>11. ASSUME NEW p \in Procs, RunStep(p) PROVE TypeInv'
    BY <1>11, RunStepTypes
  <1>12. ASSUME NEW c \in Callers, SubmitRaises(c) PROVE TypeInv'
    <2> USE <1>12 DEF SubmitRaises
    <2>1. TypeOK'
      BY DEF DatabaseTypeOK, ProcessTypeOK, CallerTypeOK, HistoryTypeOK
    <2>2. Placement'
      BY DEF Placement, Placed, CallerTypeOK
    <2> QED
      BY <2>1, <2>2
  <1> QED
    BY <1>1, <1>2, <1>3, <1>4, <1>5, <1>6, <1>7, <1>8, <1>9, <1>10, <1>11, <1>12
       DEF Next, CallerStep

LEMMA TypeInvariant == Spec => []TypeInv
  BY TypeInit, TypeStep, PTL DEF Spec

\* Every variable keeps its type, whatever processes do.
THEOREM TypeCorrect == Spec => []TypeOK
  <1>1. TypeInv => TypeOK
    BY DEF TypeInv
  <1> QED
    BY <1>1, TypeInvariant, PTL

-----------------------------------------------------------------------------
(* Coverage of requests, with no assumption on the processes.              *)

\* A run can only have read the sources after it left the queue, and only a
\* queued run is given to a request: so a request's version reaches a run that
\* has still to read.
CoverInv ==
  /\ RequestsAreCovered
  /\ \A r \in RunIds : runs[r] \in {"none", "queued"} => snapshot[r] = Unread
  /\ \A p \in Procs : pc[p] = "snapshot" => runs[job[p]] \notin {"none", "queued"}
  /\ \A r \in RunIds : requested[r] <= edits
  /\ \A c \in Callers : wanted[c] <= edits
  /\ \A r \in RunIds : r >= nextId => runs[r] = "none"

LEMMA CoverInit == Init => CoverInv
  BY BoundsAssumption DEF Init, CoverInv, RequestsAreCovered, RunIds, Unread

LEMMA CoverRunStep ==
  ASSUME TypeInv, CoverInv, NEW p \in Procs, RunStep(p)
  PROVE  CoverInv'
  <1> USE BoundsAssumption
      DEF CoverInv, RequestsAreCovered, TypeInv, TypeOK, DatabaseTypeOK, ProcessTypeOK,
          CallerTypeOK, HistoryTypeOK, Placement, Placed, RunIds, NoRun, Unread,
          database, caller, history, Goto, Finish
  <1>1. CASE AcquireLease(p)
    BY <1>1 DEF AcquireLease
  <1>2. CASE RunRaises(p)
    BY <1>2 DEF RunRaises
  <1>3. CASE Refuse(p)
    BY <1>3 DEF Refuse
  <1>4. CASE MarkRunning(p)
    <2> USE <1>4 DEF MarkRunning
    <2>1. Placed(job[p], p)
      OBVIOUS
    <2>2. \A r \in RunIds : runs'[r] \in {"none", "queued"} => snapshot'[r] = Unread
      BY <2>1
    <2>3. \A q \in Procs : pc'[q] = "snapshot" => runs'[job'[q]] \notin {"none", "queued"}
      BY <2>1
    <2>4. \A r \in RunIds : r >= nextId' => runs'[r] = "none"
      BY <2>1
    <2> QED
      BY <2>2, <2>3, <2>4
  <1>5. CASE ReadSources(p)
    BY <1>5 DEF ReadSources
  <1>6. CASE SyncFeeds(p)
    BY <1>6 DEF SyncFeeds
  <1>7. CASE RenewLease(p)
    BY <1>7 DEF RenewLease
  <1>8. CASE Succeed(p)
    BY <1>8 DEF Succeed
  <1>9. CASE BodyRaises(p)
    BY <1>9 DEF BodyRaises
  <1>10. CASE Fail(p)
    <2> USE <1>10 DEF Fail
    <2>1. Placed(job[p], p)
      OBVIOUS
    <2>2. \A r \in RunIds : runs'[r] \in {"none", "queued"} => snapshot'[r] = Unread
      BY <2>1
    <2>3. ASSUME NEW q \in Procs, pc'[q] = "snapshot"
          PROVE  runs'[job'[q]] \notin {"none", "queued"}
      <3>1. job'[q] = job[q] /\ job[q] \in RunIds /\ pc[q] = "snapshot"
        BY <2>3
      <3> QED
        BY <2>1, <2>3, <3>1
    <2>4. \A r \in RunIds : r >= nextId' => runs'[r] = "none"
      BY <2>1
    <2>5. UNCHANGED <<snapshot, requested, wanted, edits>>
      OBVIOUS
    <2> QED
      BY <2>2, <2>3, <2>4, <2>5
  <1>11. CASE ReleaseLease(p)
    BY <1>11 DEF ReleaseLease
  <1> QED
    BY <1>1, <1>2, <1>3, <1>4, <1>5, <1>6, <1>7, <1>8, <1>9, <1>10, <1>11 DEF RunStep

LEMMA CoverStep == TypeInv /\ CoverInv /\ [Next]_vars => CoverInv'
  <1> SUFFICES ASSUME TypeInv, CoverInv, [Next]_vars PROVE CoverInv'
    OBVIOUS
  <1> USE BoundsAssumption
      DEF CoverInv, RequestsAreCovered, TypeInv, TypeOK, DatabaseTypeOK, ProcessTypeOK,
          CallerTypeOK, HistoryTypeOK, Placement, Placed, RunIds, NoRun, Unread,
          database, process, caller, history
  <1>1. ASSUME NEW p \in Procs, Start(p) PROVE CoverInv'
    BY <1>1 DEF Start, RecoveredStatuses
  <1>2. ASSUME NEW p \in Procs, Stop(p) PROVE CoverInv'
    BY <1>2 DEF Stop
  <1>3. ASSUME NEW p \in Procs, CliInsert(p) PROVE CoverInv'
    BY <1>3 DEF CliInsert
  <1>4. ASSUME NEW p \in Procs, RunStep(p) PROVE CoverInv'
    BY <1>4, CoverRunStep
  <1>5. ASSUME NEW c \in Callers, Request(c) PROVE CoverInv'
    BY <1>5 DEF Request
  <1>6. ASSUME NEW c \in Callers, SubmitSelect(c) PROVE CoverInv'
    <2>1. CASE UNCHANGED requested
      BY <1>6, <2>1 DEF SubmitSelect
    <2>2. CASE Queued # {}
      <3>1. PICK r \in Queued :
              requested' = [requested EXCEPT ![r] = IF @ < wanted[c] THEN wanted[c] ELSE @]
        BY <1>6, <2>2 DEF SubmitSelect
      <3>2. r \in RunIds /\ runs[r] = "queued" /\ snapshot[r] = Unread
        BY DEF Queued
      <3>3. UNCHANGED <<runs, nextId, edits, pc, job, snapshot>>
        BY <1>6 DEF SubmitSelect, process
      <3>4. \A d \in Callers : wanted'[d] <= edits'
        <4>1. \A d \in Callers : wanted'[d] \in {wanted[d], 0}
          BY <1>6 DEF SubmitSelect
        <4>2. edits' = edits /\ 0 <= edits /\ \A d \in Callers : wanted[d] <= edits
          BY <3>3
        <4> QED
          BY ONLY <4>1, <4>2
      <3>5. /\ \A q \in RunIds : q # r => requested'[q] = requested[q]
            /\ requested'[r] <= edits'
        BY <3>1, <3>2, <3>3
      <3>6. RequestsAreCovered'
        BY <3>2, <3>3, <3>5
      <3> QED
        BY <3>3, <3>4, <3>5, <3>6
    <2> QED
      BY <1>6, <2>1, <2>2 DEF SubmitSelect
  <1>7. ASSUME NEW c \in Callers, SubmitInsert(c) PROVE CoverInv'
    BY <1>7 DEF SubmitInsert
  <1>8. ASSUME NEW c \in Callers, SubmitEnqueue(c) PROVE CoverInv'
    BY <1>8 DEF SubmitEnqueue
  <1>9. CASE TakeJob
    BY <1>9 DEF TakeJob
  <1>10. CASE LeaseExpires
    BY <1>10 DEF LeaseExpires
  <1>11. CASE UNCHANGED vars
    BY <1>11 DEF vars
  <1>12. ASSUME NEW c \in Callers, SubmitRaises(c) PROVE CoverInv'
    BY <1>12 DEF SubmitRaises
  <1> QED
    BY <1>1, <1>2, <1>3, <1>4, <1>5, <1>6, <1>7, <1>8, <1>9, <1>10, <1>11, <1>12
       DEF Next, CallerStep

\* A run that answers a request reads sources at least as new as the request,
\* whatever starts, crashes, expires or fails.
THEOREM CoalescingCoversRequests == Spec => []RequestsAreCovered
  <1>1. CoverInv => RequestsAreCovered
    BY DEF CoverInv
  <1> QED
    BY <1>1, CoverInit, CoverStep, TypeInvariant, PTL DEF Spec

-----------------------------------------------------------------------------
(* Mutual exclusion, when no process starts over a live job and no body    *)
(* outlives its lease.                                                     *)

LeaseInv ==
  \A p \in Procs : InBody(p) => lease = job[p] /\ ~leaseExpired

\* The lease names one run, and a run is executed by the process that
\* inserted it.
LEMMA LeaseExcludes == TypeInv /\ LeaseInv => MutualExclusion
  BY DEF TypeInv, Placement, Placed, LeaseInv, MutualExclusion, InBody, BodyPoints

LEMMA LeaseInit == Init => LeaseInv
  BY DEF Init, LeaseInv, InBody

LEMMA LeaseRunStep ==
  ASSUME TypeInv, LeaseInv, NEW p \in Procs, RunStep(p)
  PROVE  LeaseInv'
  <1> USE DEF LeaseInv, InBody, BodyPoints, TypeInv, TypeOK, DatabaseTypeOK,
          ProcessTypeOK, Placement, Placed, RunIds, NoRun, database, Goto, Finish
  <1>1. CASE AcquireLease(p)
    BY <1>1 DEF AcquireLease, LeaseIsFree
  <1>2. CASE RunRaises(p)
    BY <1>2 DEF RunRaises
  <1>3. CASE Refuse(p)
    BY <1>3 DEF Refuse
  <1>4. CASE MarkRunning(p)
    BY <1>4 DEF MarkRunning
  <1>5. CASE ReadSources(p)
    BY <1>5 DEF ReadSources
  <1>6. CASE SyncFeeds(p)
    BY <1>6 DEF SyncFeeds
  <1>7. CASE RenewLease(p)
    BY <1>7 DEF RenewLease
  <1>8. CASE Succeed(p)
    BY <1>8 DEF Succeed
  <1>9. CASE BodyRaises(p)
    BY <1>9 DEF BodyRaises
  <1>10. CASE Fail(p)
    BY <1>10 DEF Fail
  <1>11. CASE ReleaseLease(p)
    BY <1>11 DEF ReleaseLease
  <1> QED
    BY <1>1, <1>2, <1>3, <1>4, <1>5, <1>6, <1>7, <1>8, <1>9, <1>10, <1>11 DEF RunStep

LEMMA LeaseStep ==
  QuietStartup /\ LeaseOutlivesRun /\ TypeInv /\ LeaseInv /\ [Next]_vars => LeaseInv'
  <1> SUFFICES ASSUME QuietStartup, LeaseOutlivesRun, TypeInv, LeaseInv, [Next]_vars
               PROVE  LeaseInv'
    OBVIOUS
  <1> USE DEF LeaseInv, InBody, BodyPoints, TypeInv, TypeOK, DatabaseTypeOK,
          ProcessTypeOK, Placement, Placed, RunIds, NoRun, database, process, caller
  <1>1. ASSUME NEW p \in Procs, Start(p) PROVE LeaseInv'
    BY <1>1 DEF Start, Working
  <1>2. ASSUME NEW p \in Procs, Stop(p) PROVE LeaseInv'
    BY <1>2 DEF Stop
  <1>3. ASSUME NEW p \in Procs, CliInsert(p) PROVE LeaseInv'
    BY <1>3 DEF CliInsert
  <1>4. ASSUME NEW p \in Procs, RunStep(p) PROVE LeaseInv'
    BY <1>4, LeaseRunStep
  <1>5. ASSUME NEW c \in Callers, Request(c) PROVE LeaseInv'
    BY <1>5 DEF Request
  <1>6. ASSUME NEW c \in Callers, SubmitSelect(c) PROVE LeaseInv'
    BY <1>6 DEF SubmitSelect, Queued
  <1>7. ASSUME NEW c \in Callers, SubmitInsert(c) PROVE LeaseInv'
    BY <1>7 DEF SubmitInsert
  <1>8. ASSUME NEW c \in Callers, SubmitEnqueue(c) PROVE LeaseInv'
    BY <1>8 DEF SubmitEnqueue
  <1>9. CASE TakeJob
    BY <1>9 DEF TakeJob
  <1>10. CASE LeaseExpires
    BY <1>10 DEF LeaseExpires
  <1>11. CASE UNCHANGED vars
    BY <1>11 DEF vars
  <1>12. ASSUME NEW c \in Callers, SubmitRaises(c) PROVE LeaseInv'
    BY <1>12 DEF SubmitRaises
  <1> QED
    BY <1>1, <1>2, <1>3, <1>4, <1>5, <1>6, <1>7, <1>8, <1>9, <1>10, <1>11, <1>12
       DEF Next, CallerStep

\* job_leases prevents overlapping jobs as long as the comment over its
\* recovery holds (no process starts while another one has a job) and the body
\* of a run ends within the time of its lease.
THEOREM LeaseGivesMutualExclusion ==
  QuietStartup /\ LeaseOutlivesRun /\ Spec => []MutualExclusion
  <1> SUFFICES ASSUME QuietStartup, LeaseOutlivesRun PROVE Spec => []MutualExclusion
    OBVIOUS
  <1>1. TypeInv /\ LeaseInv /\ [Next]_vars => LeaseInv'
    BY LeaseStep
  <1> QED
    BY <1>1, LeaseInit, LeaseExcludes, TypeInvariant, PTL DEF Spec

-----------------------------------------------------------------------------
(* Statuses, and the refinement, when no process starts over a live job.   *)

\* What the row of a job says at each point of _run.
PointsInv ==
  \A p \in Procs :
    /\ pc[p] \in {"acquire", "refused", "mark"} =>
         runs[job[p]] = "queued" /\ snapshot[job[p]] = Unread
    /\ pc[p] = "snapshot" => runs[job[p]] = "running" /\ snapshot[job[p]] = Unread
    /\ pc[p] \in {"feeds", "renew", "index"} =>
         runs[job[p]] = "running" /\ snapshot[job[p]] # Unread
    /\ pc[p] = "fail" => runs[job[p]] \in {"queued", "running"}

\* A run waits in one place only, and is queued while it waits.
WaitingInv ==
  /\ \A i \in 1..Len(queue) : runs[queue[i]] = "queued" /\ queue[i] # job[Server]
  /\ \A i, j \in 1..Len(queue) : queue[i] = queue[j] => i = j
  /\ \A c \in Callers : cpc[c] = "enqueue" =>
       /\ runs[crun[c]] = "queued" /\ crun[c] # job[Server]
       /\ \A i \in 1..Len(queue) : queue[i] # crun[c]
  /\ \A c, d \in Callers :
       cpc[c] = "enqueue" /\ cpc[d] = "enqueue" /\ crun[c] = crun[d] => c = d

ProgressInv ==
  /\ PointsInv /\ WaitingInv
  /\ ~up[Server] => queue = <<>> /\ \A c \in Callers : cpc[c] = "idle"
  /\ \A r \in RunIds : r >= nextId => requested[r] = 0

LEMMA ProgressInit == Init => ProgressInv
  BY DEF Init, ProgressInv, PointsInv, WaitingInv, Procs, RunIds

LEMMA ProgressRunStep ==
  ASSUME TypeInv, CoverInv, ProgressInv, NEW p \in Procs, RunStep(p)
  PROVE  ProgressInv'
  <1> USE DEF ProgressInv, TypeInv, TypeOK, DatabaseTypeOK, ProcessTypeOK, CallerTypeOK,
          HistoryTypeOK, Placement, Placed, RunIds, NoRun, database, caller, history,
          Goto, Finish
  <1>1. CASE AcquireLease(p)
    <2> USE <1>1 DEF AcquireLease
    <2>1. PointsInv'
      BY DEF PointsInv
    <2>2. WaitingInv'
      BY DEF WaitingInv
    <2> QED
      BY <2>1, <2>2
  <1>2. CASE RunRaises(p)
    <2> USE <1>2 DEF RunRaises
    <2>1. PointsInv'
      BY DEF PointsInv
    <2>2. WaitingInv'
      BY DEF WaitingInv
    <2> QED
      BY <2>1, <2>2
  <1>3. CASE Refuse(p)
    <2> USE <1>3 DEF Refuse
    <2>1. PointsInv'
      BY DEF PointsInv
    <2>2. WaitingInv'
      BY DEF WaitingInv
    <2> QED
      BY <2>1, <2>2
  <1>4. CASE MarkRunning(p)
    <2> USE <1>4 DEF MarkRunning
    <2>1. PointsInv'
      BY DEF PointsInv
    <2>2. WaitingInv'
      BY DEF WaitingInv
    <2> QED
      BY <2>1, <2>2
  <1>5. CASE ReadSources(p)
    <2> USE <1>5 DEF ReadSources
    <2>1. PointsInv'
      BY DEF PointsInv, Unread
    <2>2. WaitingInv'
      BY DEF WaitingInv
    <2> QED
      BY <2>1, <2>2
  <1>6. CASE SyncFeeds(p)
    BY <1>6 DEF SyncFeeds, PointsInv, WaitingInv
  <1>7. CASE RenewLease(p)
    BY <1>7 DEF RenewLease, PointsInv, WaitingInv
  <1>8. CASE Succeed(p)
    <2> USE <1>8 DEF Succeed
    <2>1. PointsInv'
      BY DEF PointsInv
    <2>2. WaitingInv'
      BY DEF WaitingInv
    <2> QED
      BY <2>1, <2>2
  <1>9. CASE BodyRaises(p)
    BY <1>9 DEF BodyRaises, PointsInv, WaitingInv
  <1>10. CASE Fail(p)
    <2> USE <1>10 DEF Fail
    <2>1. Placed(job[p], p)
      OBVIOUS
    <2>2. \A q \in Procs \ {p} : job[q] # job[p]
      BY <2>1
    <2>3. \A q \in Procs \ {p} : job[q] # NoRun => runs'[job[q]] = runs[job[q]]
      BY <2>1, <2>2
    <2>4. PointsInv'
      BY <2>3 DEF PointsInv
    <2>5. \A i \in 1..Len(queue) : queue[i] # job[p] /\ queue[i] \in RunIds
      BY <2>1 DEF WaitingInv
    <2>6. \A c \in Callers : cpc[c] = "enqueue" => crun[c] # job[p] /\ crun[c] \in RunIds
      BY <2>1 DEF WaitingInv
    <2>7. \A r \in RunIds \ {job[p]} : runs'[r] = runs[r]
      <3>1. CASE runs' = [runs EXCEPT ![job[p]] = "failed"]
        BY <3>1, <2>1
      <3>2. CASE UNCHANGED runs
        BY <3>2
      <3> QED
        BY <3>1, <3>2
    <2>8. UNCHANGED <<queue, cpc, crun, job>>
      OBVIOUS
    <2>9. WaitingInv'
      <3>1. \A i \in 1..Len(queue) : runs'[queue[i]] = "queued" /\ queue[i] # job[Server]
        BY <2>5, <2>7 DEF WaitingInv
      <3>2. \A c \in Callers : cpc[c] = "enqueue" =>
              runs'[crun[c]] = "queued" /\ crun[c] # job[Server]
        BY <2>6, <2>7 DEF WaitingInv
      <3> QED
        BY <2>8, <3>1, <3>2 DEF WaitingInv
    <2> QED
      BY <2>4, <2>9
  <1>11. CASE ReleaseLease(p)
    <2> USE <1>11 DEF ReleaseLease
    <2>1. PointsInv'
      BY DEF PointsInv
    <2>2. WaitingInv'
      BY DEF WaitingInv
    <2> QED
      BY <2>1, <2>2
  <1> QED
    BY <1>1, <1>2, <1>3, <1>4, <1>5, <1>6, <1>7, <1>8, <1>9, <1>10, <1>11 DEF RunStep

LEMMA ProgressStep ==
  QuietStartup /\ TypeInv /\ CoverInv /\ ProgressInv /\ [Next]_vars => ProgressInv'
  <1> SUFFICES ASSUME QuietStartup, TypeInv, CoverInv, ProgressInv, [Next]_vars
               PROVE  ProgressInv'
    OBVIOUS
  <1> USE BoundsAssumption
      DEF ProgressInv, TypeInv, TypeOK, DatabaseTypeOK, ProcessTypeOK, CallerTypeOK,
          HistoryTypeOK, Placement, Placed, RunIds, NoRun, database, process, caller,
          history
  <1>1. ASSUME NEW p \in Procs, Start(p) PROVE ProgressInv'
    <2> USE <1>1 DEF Start
    <2>1. \A q \in Procs : job[q] = NoRun
      BY DEF Working
    <2>2. queue = <<>> /\ \A c \in Callers : cpc[c] # "enqueue"
      BY DEF Working, Procs
    <2>3. PointsInv'
      <3>1. \A q \in Procs : pc[q] \in {"idle", "start"}
        BY <2>1
      <3>2. \A q \in Procs : pc'[q] \in {"idle", "start"}
        BY <3>1
      <3> QED
        BY <3>2 DEF PointsInv
    <2>4. WaitingInv'
      BY <2>2 DEF WaitingInv
    <2> QED
      BY <2>3, <2>4
  <1>2. ASSUME NEW p \in Procs, Stop(p) PROVE ProgressInv'
    <2> USE <1>2 DEF Stop
    <2>1. PointsInv'
      BY DEF PointsInv
    <2>2. CASE p = Server
      BY <2>1, <2>2 DEF WaitingInv, Procs
    <2>3. CASE p # Server
      BY <2>1, <2>3 DEF WaitingInv, Procs
    <2> QED
      BY <2>2, <2>3
  <1>3. ASSUME NEW p \in Procs, CliInsert(p) PROVE ProgressInv'
    <2> USE <1>3 DEF CliInsert
    <2>1. snapshot[nextId] = Unread /\ p # Server
      BY DEF CoverInv
    <2>2. PointsInv'
      BY <2>1 DEF PointsInv
    <2>3. WaitingInv'
      BY <2>1 DEF WaitingInv, Procs
    <2> QED
      BY <2>2, <2>3
  <1>4. ASSUME NEW p \in Procs, RunStep(p) PROVE ProgressInv'
    BY <1>4, ProgressRunStep
  <1>5. ASSUME NEW c \in Callers, Request(c) PROVE ProgressInv'
    BY <1>5 DEF Request, PointsInv, WaitingInv
  <1>6. ASSUME NEW c \in Callers, SubmitSelect(c) PROVE ProgressInv'
    <2> USE <1>6 DEF SubmitSelect, Queued
    <2>1. PointsInv' /\ WaitingInv'
      <3>1. UNCHANGED <<runs, snapshot, pc, job, queue, crun>>
        OBVIOUS
      <3>2. \A d \in Callers : cpc'[d] = "enqueue" => cpc[d] = "enqueue"
        OBVIOUS
      <3>3. PointsInv'
        BY <3>1 DEF PointsInv
      <3> QED
        BY <3>1, <3>2, <3>3 DEF WaitingInv
    <2>2. \A r \in RunIds : r >= nextId => requested'[r] = 0
      BY DEF CoverInv
    <2> QED
      BY <2>1, <2>2
  <1>7. ASSUME NEW c \in Callers, SubmitInsert(c) PROVE ProgressInv'
    <2> USE <1>7 DEF SubmitInsert
    <2>1. PointsInv'
      BY DEF PointsInv
    <2>2. queue' = queue /\ job' = job
      OBVIOUS
    <2>3. \A i \in 1..Len(queue) :
            queue[i] # nextId /\ runs'[queue[i]] = "queued" /\ queue[i] # job[Server]
      BY DEF WaitingInv
    <2>4. \A i, j \in 1..Len(queue) : queue[i] = queue[j] => i = j
      BY DEF WaitingInv
    <2>5. nextId # job[Server] /\ runs'[nextId] = "queued"
      <3>1. Server \in Procs /\ job[Server] # nextId
        <4>1. Server \in Procs
          BY DEF Procs
        <4>2. job[Server] = NoRun \/ job[Server] < nextId
          BY <4>1
        <4> QED
          BY <4>1, <4>2
      <3>2. nextId \in RunIds /\ runs \in [RunIds -> Status]
        OBVIOUS
      <3> QED BY <3>1, <3>2
    <2>6. \A d \in Callers : cpc'[d] = "enqueue" /\ d # c =>
            /\ cpc[d] = "enqueue" /\ crun'[d] = crun[d] /\ crun[d] # nextId
            /\ runs'[crun[d]] = "queued" /\ crun[d] # job[Server]
            /\ \A i \in 1..Len(queue) : queue[i] # crun[d]
      <3> SUFFICES ASSUME NEW d \in Callers, cpc'[d] = "enqueue", d # c
                   PROVE  /\ cpc[d] = "enqueue" /\ crun'[d] = crun[d] /\ crun[d] # nextId
                          /\ runs'[crun[d]] = "queued" /\ crun[d] # job[Server]
                          /\ \A i \in 1..Len(queue) : queue[i] # crun[d]
        OBVIOUS
      <3>1. cpc[d] = "enqueue" /\ crun'[d] = crun[d]
        OBVIOUS
      <3>2. /\ runs[crun[d]] = "queued" /\ crun[d] # job[Server]
            /\ \A i \in 1..Len(queue) : queue[i] # crun[d]
        BY <3>1 DEF WaitingInv
      <3>3. crun[d] \in RunIds /\ crun[d] # nextId
        BY <3>1
      <3> QED
        BY <3>1, <3>2, <3>3
    <2>7. crun'[c] = nextId
      OBVIOUS
    <2>8. \A d, e \in Callers :
            cpc'[d] = "enqueue" /\ cpc'[e] = "enqueue" /\ crun'[d] = crun'[e] => d = e
      BY <2>6, <2>7 DEF WaitingInv
    <2>9. WaitingInv'
      <3>1. ASSUME NEW d \in Callers, cpc'[d] = "enqueue"
            PROVE  /\ runs'[crun'[d]] = "queued" /\ crun'[d] # job'[Server]
                   /\ \A i \in 1..Len(queue') : queue'[i] # crun'[d]
        <4>1. CASE d = c
          BY ONLY <2>2, <2>3, <2>5, <2>7, <4>1
        <4>2. CASE d # c
          BY ONLY <2>2, <2>6, <3>1, <4>2
        <4> QED
          BY ONLY <4>1, <4>2
      <3>2. \A i \in 1..Len(queue') : runs'[queue'[i]] = "queued" /\ queue'[i] # job'[Server]
        BY ONLY <2>2, <2>3
      <3>3. \A i, j \in 1..Len(queue') : queue'[i] = queue'[j] => i = j
        BY ONLY <2>2, <2>4
      <3> QED
        BY ONLY <2>8, <3>1, <3>2, <3>3 DEF WaitingInv
    <2> QED
      BY <2>1, <2>9
  <1>8. ASSUME NEW c \in Callers, SubmitEnqueue(c) PROVE ProgressInv'
    <2> USE <1>8 DEF SubmitEnqueue
    <2>1. PointsInv'
      BY DEF PointsInv
    <2>2. /\ Len(queue') = Len(queue) + 1 /\ queue'[Len(queue) + 1] = crun[c]
          /\ \A i \in 1..Len(queue) : queue'[i] = queue[i]
          /\ Len(queue) \in Nat
      OBVIOUS
    <2>3. \A i \in 1..Len(queue') : i \in 1..Len(queue) \/ i = Len(queue) + 1
      BY <2>2
    <2>4. \A d \in Callers : cpc'[d] = "enqueue" =>
            d # c /\ cpc[d] = "enqueue" /\ crun'[d] = crun[d]
      OBVIOUS
    <2>5. UNCHANGED <<runs, job>>
      OBVIOUS
    <2>6. WaitingInv'
      <3>1. \A i \in 1..Len(queue') : runs'[queue'[i]] = "queued" /\ queue'[i] # job'[Server]
        BY <2>2, <2>3, <2>5 DEF WaitingInv
      <3>2. \A i \in 1..Len(queue) : queue[i] # crun[c]
        BY DEF WaitingInv
      <3>3. ASSUME NEW i \in 1..Len(queue'), NEW j \in 1..Len(queue'), queue'[i] = queue'[j]
            PROVE  i = j
        <4>1. CASE i \in 1..Len(queue) /\ j \in 1..Len(queue)
          BY <2>2, <3>3, <4>1 DEF WaitingInv
        <4>2. CASE i = Len(queue) + 1 \/ j = Len(queue) + 1
          BY ONLY <2>2, <2>3, <3>2, <3>3, <4>2
        <4> QED
          BY <2>3, <4>1, <4>2
      <3>4. ASSUME NEW d \in Callers, cpc'[d] = "enqueue"
            PROVE  /\ runs'[crun'[d]] = "queued" /\ crun'[d] # job'[Server]
                   /\ \A i \in 1..Len(queue') : queue'[i] # crun'[d]
        <4>1. d # c /\ cpc[d] = "enqueue" /\ crun'[d] = crun[d]
          BY <2>4, <3>4
        <4>2. crun[d] # crun[c] /\ \A i \in 1..Len(queue) : queue[i] # crun[d]
          BY <4>1 DEF WaitingInv
        <4>3. \A i \in 1..Len(queue') : queue'[i] # crun'[d]
          BY ONLY <2>2, <2>3, <4>1, <4>2
        <4> QED
          BY <2>5, <4>1, <4>3 DEF WaitingInv
      <3>5. \A d, e \in Callers :
              cpc'[d] = "enqueue" /\ cpc'[e] = "enqueue" /\ crun'[d] = crun'[e] => d = e
        BY <2>4 DEF WaitingInv
      <3> QED
        BY <3>1, <3>3, <3>4, <3>5 DEF WaitingInv
    <2> QED
      BY <2>1, <2>6
  <1>9. CASE TakeJob
    <2> USE <1>9 DEF TakeJob
    <2>1. PointsInv'
      BY DEF PointsInv, WaitingInv, CoverInv, Procs
    <2>2. /\ Len(queue') = Len(queue) - 1 /\ Len(queue) \in Nat \ {0}
          /\ \A i \in 1..Len(queue') : queue'[i] = queue[i + 1] /\ i + 1 \in 1..Len(queue)
          /\ job'[Server] = queue[1]
      BY DEF Procs
    <2>3. UNCHANGED <<runs, cpc, crun>>
      OBVIOUS
    <2>4. WaitingInv'
      <3>1. ASSUME NEW i \in 1..Len(queue')
            PROVE  runs'[queue'[i]] = "queued" /\ queue'[i] # job'[Server]
        <4>1. queue'[i] = queue[i + 1] /\ i + 1 \in 1..Len(queue) /\ i + 1 # 1
          BY <2>2
        <4>2. 1 \in 1..Len(queue)
          BY ONLY <2>2
        <4>3. queue[i + 1] # queue[1]
          BY <4>1, <4>2 DEF WaitingInv
        <4> QED
          BY <2>2, <2>3, <4>1, <4>3 DEF WaitingInv
      <3>2. ASSUME NEW i \in 1..Len(queue'), NEW j \in 1..Len(queue'), queue'[i] = queue'[j]
            PROVE  i = j
        <4>1. queue[i + 1] = queue[j + 1] /\ i + 1 \in 1..Len(queue) /\ j + 1 \in 1..Len(queue)
          BY <2>2, <3>2
        <4>2. i + 1 = j + 1
          BY <4>1 DEF WaitingInv
        <4> QED
          BY ONLY <4>2, i \in Int, j \in Int
      <3>3. \A d \in Callers : cpc'[d] = "enqueue" =>
              /\ runs'[crun'[d]] = "queued" /\ crun'[d] # job'[Server]
              /\ \A i \in 1..Len(queue') : queue'[i] # crun'[d]
        BY <2>2, <2>3 DEF WaitingInv
      <3> QED
        BY <2>3, <3>1, <3>2, <3>3 DEF WaitingInv
    <2> QED
      BY <2>1, <2>4
  <1>10. CASE LeaseExpires
    BY <1>10 DEF LeaseExpires, PointsInv, WaitingInv
  <1>11. CASE UNCHANGED vars
    BY <1>11 DEF vars, PointsInv, WaitingInv
  <1>12. ASSUME NEW c \in Callers, SubmitRaises(c) PROVE ProgressInv'
    <2>1. UNCHANGED <<runs, snapshot, pc, job, queue, crun, up, nextId, requested>>
      BY <1>12 DEF SubmitRaises
    <2>2. \A d \in Callers : cpc'[d] = "enqueue" => cpc[d] = "enqueue"
      BY <1>12 DEF SubmitRaises
    <2>3. ~up[Server] => \A d \in Callers : cpc'[d] = "idle"
      BY <1>12 DEF SubmitRaises
    <2>4. PointsInv' /\ WaitingInv'
      BY <2>1, <2>2 DEF PointsInv, WaitingInv
    <2> QED
      BY <2>1, <2>3, <2>4
  <1> QED
    BY <1>1, <1>2, <1>3, <1>4, <1>5, <1>6, <1>7, <1>8, <1>9, <1>10, <1>11, <1>12
       DEF Next, CallerStep

LEMMA StatusRunStep ==
  ASSUME TypeInv, CoverInv, ProgressInv, NEW p \in Procs, RunStep(p),
         NEW r \in RunIds, runs'[r] # runs[r]
  PROVE  <<runs[r], runs'[r]>> \in
           {<<"queued", "running">>, <<"queued", "failed">>,
            <<"running", "succeeded">>, <<"running", "failed">>}
  <1> USE DEF TypeInv, TypeOK, DatabaseTypeOK, ProcessTypeOK, Placement, Placed, RunIds,
          NoRun, database, ProgressInv, PointsInv
  <1>1. CASE Refuse(p)
    BY <1>1 DEF Refuse
  <1>2. CASE MarkRunning(p)
    BY <1>2 DEF MarkRunning
  <1>3. CASE Succeed(p)
    BY <1>3 DEF Succeed
  <1>4. CASE Fail(p)
    <2>1. runs' = [runs EXCEPT ![job[p]] = "failed"]
      <3>1. runs' = [runs EXCEPT ![job[p]] = "failed"] \/ runs' = runs
        BY ONLY <1>4 DEF Fail
      <3> QED
        BY <3>1
    <2>2. pc[p] = "fail"
      BY ONLY <1>4 DEF Fail
    <2> QED
      BY <2>1, <2>2
  <1>5. CASE AcquireLease(p) \/ RunRaises(p) \/ ReadSources(p) \/ SyncFeeds(p)
               \/ RenewLease(p) \/ BodyRaises(p) \/ ReleaseLease(p)
    BY <1>5 DEF AcquireLease, RunRaises, ReadSources, SyncFeeds, RenewLease,
                BodyRaises, ReleaseLease
  <1> QED
    BY <1>1, <1>2, <1>3, <1>4, <1>5 DEF RunStep

LEMMA StatusStep ==
  ASSUME QuietStartup, TypeInv, CoverInv, ProgressInv, Next,
         NEW r \in RunIds, runs'[r] # runs[r]
  PROVE  <<runs[r], runs'[r]>> \in
           {<<"none", "queued">>, <<"queued", "running">>, <<"queued", "failed">>,
            <<"running", "succeeded">>, <<"running", "failed">>}
  <1> USE BoundsAssumption
      DEF TypeInv, TypeOK, DatabaseTypeOK, RunIds, CoverInv, database
  <1>1. ASSUME NEW p \in Procs, Start(p) PROVE runs[r] \in {"queued", "running"} /\ runs'[r] = "failed"
    BY <1>1 DEF Start, RecoveredStatuses
  <1>2. ASSUME NEW p \in Procs, CliInsert(p) PROVE runs[r] = "none" /\ runs'[r] = "queued"
    BY <1>2 DEF CliInsert
  <1>3. ASSUME NEW c \in Callers, SubmitInsert(c) PROVE runs[r] = "none" /\ runs'[r] = "queued"
    BY <1>3 DEF SubmitInsert
  <1>4. ASSUME NEW p \in Procs, Stop(p) PROVE FALSE
    BY <1>4 DEF Stop
  <1>5. ASSUME NEW c \in Callers,
               Request(c) \/ SubmitSelect(c) \/ SubmitRaises(c) \/ SubmitEnqueue(c)
        PROVE  FALSE
    BY <1>5 DEF Request, SubmitSelect, SubmitRaises, SubmitEnqueue
  <1>6. CASE TakeJob \/ LeaseExpires
    BY <1>6 DEF TakeJob, LeaseExpires
  <1>7. ASSUME NEW p \in Procs, RunStep(p)
        PROVE  <<runs[r], runs'[r]>> \in
                 {<<"queued", "running">>, <<"queued", "failed">>,
                  <<"running", "succeeded">>, <<"running", "failed">>}
    BY <1>7, StatusRunStep
  <1> QED
    BY <1>1, <1>2, <1>3, <1>4, <1>5, <1>6, <1>7 DEF Next, CallerStep

\* No status moves back and no finished run is revived, as long as no process
\* starts over a live job: its recovery is all that can make _mark_running or
\* the end of _run overwrite a status they did not expect.
THEOREM StatusesMoveForward == QuietStartup /\ Spec => StatusMovesForward
  <1> SUFFICES ASSUME QuietStartup PROVE Spec => StatusMovesForward
    OBVIOUS
  <1>1. TypeInv /\ CoverInv /\ ProgressInv /\ [Next]_vars => ProgressInv'
    BY ProgressStep
  <1>2. TypeInv /\ CoverInv /\ ProgressInv /\ [Next]_vars =>
          [\A r \in RunIds :
             runs'[r] # runs[r] =>
               <<runs[r], runs'[r]>> \in
                 {<<"none", "queued">>, <<"queued", "running">>, <<"queued", "failed">>,
                  <<"running", "succeeded">>, <<"running", "failed">>}]_vars
    BY StatusStep
  <1>3. Spec => [](TypeInv /\ CoverInv /\ ProgressInv)
    BY <1>1, CoverInit, CoverStep, ProgressInit, TypeInvariant, PTL DEF Spec
  <1> QED
    BY <1>2, <1>3, PTL DEF Spec, StatusMovesForward

-----------------------------------------------------------------------------
(* One synchronization at a time: SyncJobs implements SerialSync.          *)

\* The lease names the one run whose body a process is in.
LEMMA ActiveOf ==
  ASSUME TypeInv, LeaseInv, NEW p \in Procs, InBody(p)
  PROVE  ActiveRun = job[p] /\ ActiveRun # NoRun
  BY DEF ActiveRun, LeaseInv, TypeInv, Placement, InBody, BodyPoints

LEMMA ActiveOfNext ==
  ASSUME TypeInv', LeaseInv', NEW p \in Procs, InBody(p)'
  PROVE  ActiveRun' = job'[p]
  BY DEF ActiveRun, LeaseInv, InBody

LEMMA NoneActive ==
  ASSUME \A p \in Procs : ~InBody(p)
  PROVE  ActiveRun = NoRun
  BY DEF ActiveRun

LEMMA NoneActiveNext ==
  ASSUME \A p \in Procs : ~InBody(p)'
  PROVE  ActiveRun' = NoRun
  BY DEF ActiveRun, NoRun

\* A step that lets no process enter or leave a body keeps the active run.
LEMMA SameActive ==
  ASSUME TypeInv, LeaseInv, TypeInv', LeaseInv',
         \A p \in Procs : InBody(p)' <=> InBody(p),
         \A p \in Procs : InBody(p) => job'[p] = job[p]
  PROVE  ActiveRun' = ActiveRun
  <1>1. CASE \E p \in Procs : InBody(p)
    BY <1>1, ActiveOf, ActiveOfNext
  <1>2. CASE \A p \in Procs : ~InBody(p)
    BY <1>2, NoneActive, NoneActiveNext
  <1> QED
    BY <1>1, <1>2

\* The process in a body leaves it: nothing is active.
LEMMA LeavesBody ==
  ASSUME TypeInv, LeaseInv, NEW p \in Procs, InBody(p), ~InBody(p)',
         \A q \in Procs \ {p} : InBody(q)' => InBody(q)
  PROVE  ActiveRun' = NoRun
  BY LeaseExcludes, NoneActiveNext DEF MutualExclusion

LEMMA SerialInit == Init => Serial!Init
  <1> SUFFICES ASSUME Init PROVE Serial!Init
    OBVIOUS
  <1>1. ActiveRun = NoRun
    BY NoneActive DEF Init, InBody
  <1> QED
    BY <1>1 DEF Init, Serial!Init

LEMMA SerialRunStep ==
  ASSUME TypeInv, CoverInv, ProgressInv, LeaseInv, TypeInv', LeaseInv',
         NEW p \in Procs, RunStep(p)
  PROVE  [Serial!Next]_(Serial!vars)
  <1> USE DEF TypeInv, TypeOK, DatabaseTypeOK, ProcessTypeOK, HistoryTypeOK,
          Placement, Placed, NoRun, database, history, Goto, Finish, Serial!vars
  <1>1. CASE AcquireLease(p)
    <2>1. CASE LeaseIsFree
      <3>1. \A q \in Procs : ~InBody(q)
        BY <1>1, <2>1 DEF AcquireLease, LeaseIsFree, LeaseInv, InBody, BodyPoints
      <3>2. ActiveRun = NoRun
        BY <3>1, NoneActive
      <3>3. InBody(p)' /\ job'[p] = job[p]
        BY <1>1, <2>1 DEF AcquireLease, InBody, BodyPoints
      <3>4. ActiveRun' = job[p]
        BY <3>3, ActiveOfNext
      <3>5. job[p] \in RunIds /\ runs[job[p]] = "queued"
        BY <1>1 DEF AcquireLease, ProgressInv, PointsInv
      <3>6. Serial!Begin(job[p])
        BY <1>1, <3>2, <3>4, <3>5 DEF AcquireLease, Serial!Begin
      <3> QED
        BY <3>5, <3>6 DEF Serial!Next
    <2>2. CASE ~LeaseIsFree
      <3>1. ActiveRun' = ActiveRun
        BY <1>1, <2>2, SameActive DEF AcquireLease, InBody, BodyPoints
      <3> QED
        BY <1>1, <2>2, <3>1 DEF AcquireLease
    <2> QED
      BY <2>1, <2>2
  <1>2. CASE RunRaises(p)
    <2>1. ActiveRun' = ActiveRun
      BY <1>2, SameActive DEF RunRaises, InBody, BodyPoints
    <2> QED
      BY <1>2, <2>1 DEF RunRaises
  <1>3. CASE Refuse(p)
    <2>1. ActiveRun' = ActiveRun
      BY <1>3, SameActive DEF Refuse, InBody, BodyPoints
    <2>2. job[p] \in RunIds /\ runs[job[p]] = "queued"
      BY <1>3 DEF Refuse, ProgressInv, PointsInv
    <2>3. Serial!Fail(job[p])
      BY <1>3, <2>1, <2>2 DEF Refuse, Serial!Fail
    <2> QED
      BY <2>2, <2>3 DEF Serial!Next
  <1>4. CASE MarkRunning(p)
    <2>1. ActiveRun' = ActiveRun
      BY <1>4, SameActive DEF MarkRunning, InBody, BodyPoints
    <2>2. InBody(p) /\ job[p] \in RunIds /\ runs[job[p]] = "queued"
      BY <1>4 DEF MarkRunning, ProgressInv, PointsInv, InBody, BodyPoints
    <2>3. Serial!Run(job[p])
      BY <1>4, <2>1, <2>2, ActiveOf DEF MarkRunning, Serial!Run
    <2> QED
      BY <2>2, <2>3 DEF Serial!Next
  <1>5. CASE ReadSources(p)
    <2>1. ActiveRun' = ActiveRun
      BY <1>5, SameActive DEF ReadSources, InBody, BodyPoints
    <2>2. /\ InBody(p) /\ job[p] \in RunIds
          /\ runs[job[p]] = "running" /\ snapshot[job[p]] = Unread
      BY <1>5 DEF ReadSources, ProgressInv, PointsInv, InBody, BodyPoints
    <2>3. Serial!Read(job[p])
      BY <1>5, <2>1, <2>2, ActiveOf DEF ReadSources, Serial!Read
    <2> QED
      BY <2>2, <2>3 DEF Serial!Next
  <1>6. CASE SyncFeeds(p)
    <2>1. ActiveRun' = ActiveRun
      BY <1>6, SameActive DEF SyncFeeds, InBody, BodyPoints
    <2> QED
      BY <1>6, <2>1 DEF SyncFeeds
  <1>7. CASE RenewLease(p)
    <2>1. ActiveRun' = ActiveRun
      BY <1>7, SameActive DEF RenewLease, InBody, BodyPoints
    <2> QED
      BY <1>7, <2>1 DEF RenewLease
  <1>8. CASE Succeed(p)
    <2>1. ActiveRun' = ActiveRun
      BY <1>8, SameActive DEF Succeed, InBody, BodyPoints
    <2>2. /\ InBody(p) /\ job[p] \in RunIds
          /\ runs[job[p]] = "running" /\ snapshot[job[p]] # Unread
      BY <1>8 DEF Succeed, ProgressInv, PointsInv, InBody, BodyPoints
    <2>3. Serial!Succeed(job[p])
      BY <1>8, <2>1, <2>2, ActiveOf DEF Succeed, Serial!Succeed
    <2> QED
      BY <2>2, <2>3 DEF Serial!Next
  <1>9. CASE BodyRaises(p)
    <2>1. ActiveRun' = ActiveRun
      BY <1>9, SameActive DEF BodyRaises, InBody, BodyPoints
    <2> QED
      BY <1>9, <2>1 DEF BodyRaises
  <1>10. CASE Fail(p)
    <2>1. /\ up[p] /\ pc[p] = "fail" /\ pc' = [pc EXCEPT ![p] = "release"]
          /\ UNCHANGED <<up, job, edits, requested, snapshot>>
      BY ONLY <1>10 DEF Fail, Goto
    <2>2. \A q \in Procs : (InBody(q)' <=> InBody(q)) /\ job'[q] = job[q]
      <3>0. pc \in [Procs -> Points]
        BY ONLY TypeInv DEF TypeInv, TypeOK, ProcessTypeOK
      <3>1. pc'[p] = "release" /\ \A q \in Procs \ {p} : pc'[q] = pc[q]
        BY ONLY <2>1, <3>0
      <3> QED
        BY ONLY <2>1, <3>1 DEF InBody, BodyPoints
    <2>2a. ActiveRun' = ActiveRun
      BY <2>2, SameActive
    <2>3. InBody(p) /\ job[p] \in RunIds /\ runs[job[p]] \in {"queued", "running"}
      BY <2>1 DEF ProgressInv, PointsInv, InBody, BodyPoints
    <2>4. CASE runs' = [runs EXCEPT ![job[p]] = "failed"]
      <3>1. Serial!Fail(job[p])
        BY <2>1, <2>2a, <2>3, <2>4, ActiveOf DEF Serial!Fail
      <3> QED
        BY <2>3, <3>1 DEF Serial!Next
    <2>5. CASE UNCHANGED runs
      BY <2>1, <2>2a, <2>5
    <2>6. runs' = [runs EXCEPT ![job[p]] = "failed"] \/ UNCHANGED runs
      BY ONLY <1>10 DEF Fail
    <2> QED
      BY <2>4, <2>5, <2>6
  <1>11. CASE ReleaseLease(p)
    <2>1. InBody(p) /\ ~InBody(p)' /\ \A q \in Procs \ {p} : InBody(q)' => InBody(q)
      BY <1>11 DEF ReleaseLease, InBody, BodyPoints
    <2>2. ActiveRun' = NoRun /\ ActiveRun # NoRun
      BY <2>1, LeavesBody, ActiveOf
    <2>3. Serial!Leave
      BY <1>11, <2>2 DEF ReleaseLease, Serial!Leave
    <2> QED
      BY <2>3 DEF Serial!Next
  <1> QED
    BY <1>1, <1>2, <1>3, <1>4, <1>5, <1>6, <1>7, <1>8, <1>9, <1>10, <1>11 DEF RunStep

LEMMA SerialStep ==
  ASSUME QuietStartup, TypeInv, CoverInv, ProgressInv, LeaseInv, TypeInv', LeaseInv',
         [Next]_vars
  PROVE  [Serial!Next]_(Serial!vars)
  <1> USE BoundsAssumption
      DEF TypeInv, TypeOK, DatabaseTypeOK, ProcessTypeOK, CallerTypeOK, HistoryTypeOK,
          Placement, Placed, RunIds, NoRun, database, process, caller, history, Serial!vars
  <1>1. ASSUME NEW p \in Procs, Start(p) PROVE [Serial!Next]_(Serial!vars)
    <2>1. /\ ~up[p] /\ \A q \in Procs \ {p} : ~up[q] \/ job[q] = NoRun
          /\ up' = [up EXCEPT ![p] = TRUE]
          /\ pc' = [pc EXCEPT ![p] = IF p = Server THEN "idle" ELSE "start"]
          /\ runs' = [r \in RunIds |->
                        IF runs[r] \in RecoveredStatuses THEN "failed" ELSE runs[r]]
          /\ UNCHANGED <<edits, requested, snapshot>>
      BY <1>1 DEF Start, Working
    <2>1a. \A q \in Procs : ~InBody(q)
      <3>1. \A q \in Procs : InBody(q) => job[q] # NoRun
        BY DEF InBody, BodyPoints
      <3> QED
        BY <2>1, <3>1 DEF InBody
    <2>1b. \A q \in Procs : ~InBody(q)'
      <3>1. pc'[p] \notin BodyPoints /\ \A q \in Procs \ {p} : pc'[q] = pc[q] /\ up'[q] = up[q]
        BY <2>1 DEF BodyPoints
      <3> QED
        BY <3>1, <2>1a DEF InBody
    <2>2. ActiveRun = NoRun /\ ActiveRun' = NoRun
      BY <2>1a, <2>1b, NoneActive, NoneActiveNext
    <2>3. Serial!Recover
      BY <2>1, <2>2 DEF RecoveredStatuses, Serial!Recover
    <2> QED
      BY <2>3 DEF Serial!Next
  <1>2. ASSUME NEW p \in Procs, Stop(p) PROVE [Serial!Next]_(Serial!vars)
    <2>0. /\ up' = [up EXCEPT ![p] = FALSE] /\ pc' = [pc EXCEPT ![p] = "idle"]
          /\ job' = [job EXCEPT ![p] = NoRun]
          /\ UNCHANGED <<runs, edits, requested, snapshot>>
      BY <1>2 DEF Stop
    <2>0a. \A q \in Procs \ {p} : (InBody(q)' <=> InBody(q)) /\ job'[q] = job[q]
      <3>1. \A q \in Procs \ {p} : up'[q] = up[q] /\ pc'[q] = pc[q] /\ job'[q] = job[q]
        BY <2>0
      <3> QED
        BY <3>1 DEF InBody
    <2>0b. ~InBody(p)'
      BY <2>0 DEF InBody
    <2>1. CASE InBody(p)
      <3>2. ActiveRun' = NoRun /\ ActiveRun # NoRun
        BY <2>1, <2>0a, <2>0b, LeavesBody, ActiveOf
      <3>3. Serial!Leave
        BY <2>0, <3>2 DEF Serial!Leave
      <3> QED
        BY <3>3 DEF Serial!Next
    <2>2. CASE ~InBody(p)
      <3>1. \A q \in Procs : (InBody(q)' <=> InBody(q)) /\ (InBody(q) => job'[q] = job[q])
        BY <2>2, <2>0a, <2>0b
      <3>2. ActiveRun' = ActiveRun
        BY <3>1, SameActive
      <3> QED
        BY <2>0, <3>2
    <2> QED
      BY <2>1, <2>2
  <1>3. ASSUME NEW p \in Procs, CliInsert(p) PROVE [Serial!Next]_(Serial!vars)
    <2>1. ActiveRun' = ActiveRun
      <3>1. /\ pc[p] = "start" /\ pc' = [pc EXCEPT ![p] = "acquire"]
            /\ job' = [job EXCEPT ![p] = nextId] /\ up' = up
        BY <1>3 DEF CliInsert
      <3>2. ~InBody(p) /\ ~InBody(p)'
        <4>1. pc'[p] = "acquire"
          BY <3>1
        <4> QED
          BY ONLY <3>1, <4>1 DEF InBody, BodyPoints
      <3>3. \A q \in Procs \ {p} : pc'[q] = pc[q] /\ job'[q] = job[q] /\ up'[q] = up[q]
        BY <3>1
      <3>4. \A q \in Procs \ {p} : (InBody(q)' <=> InBody(q)) /\ job'[q] = job[q]
        BY <3>3 DEF InBody
      <3>5. \A q \in Procs : (InBody(q)' <=> InBody(q)) /\ (InBody(q) => job'[q] = job[q])
        BY ONLY <3>2, <3>4
      <3> QED
        BY <3>5, SameActive
    <2>2. nextId \in RunIds /\ runs[nextId] = "none" /\ requested[nextId] = 0
      BY <1>3 DEF CliInsert, CoverInv, ProgressInv
    <2>3. requested' = [requested EXCEPT ![nextId] = 0] /\ 0 \in 0..edits
      BY <1>3, <2>2 DEF CliInsert
    <2>4. Serial!Submit(nextId)
      BY <1>3, <2>1, <2>2, <2>3 DEF CliInsert, Serial!Submit
    <2> QED
      BY <2>2, <2>4 DEF Serial!Next
  <1>4. ASSUME NEW p \in Procs, RunStep(p) PROVE [Serial!Next]_(Serial!vars)
    BY <1>4, SerialRunStep
  <1>5. ASSUME NEW c \in Callers, Request(c) PROVE [Serial!Next]_(Serial!vars)
    <2>1. ActiveRun' = ActiveRun
      BY <1>5, SameActive DEF Request, InBody
    <2>2. Serial!Edit
      BY <1>5, <2>1 DEF Request, Serial!Edit
    <2> QED
      BY <2>2 DEF Serial!Next
  <1>6. ASSUME NEW c \in Callers, SubmitSelect(c) PROVE [Serial!Next]_(Serial!vars)
    <2>1. ActiveRun' = ActiveRun
      BY <1>6, SameActive DEF SubmitSelect, InBody
    <2>2. CASE UNCHANGED requested
      BY <1>6, <2>1, <2>2 DEF SubmitSelect
    <2>3. CASE ~UNCHANGED requested
      <3>1. PICK r \in Queued :
              requested' = [requested EXCEPT ![r] = IF @ < wanted[c] THEN wanted[c] ELSE @]
        BY <1>6, <2>3 DEF SubmitSelect
      <3>2. r \in RunIds /\ runs[r] = "queued" /\ snapshot[r] = Unread
        BY DEF Queued, CoverInv
      <3>3. requested[r] \in Nat /\ wanted[c] \in Nat /\ requested[r] <= edits /\ wanted[c] <= edits
        BY <3>2 DEF CoverInv
      <3>4. requested'[r] \in requested[r]..edits /\ requested' = [requested EXCEPT ![r] = requested'[r]]
        BY <3>1, <3>2, <3>3
      <3>5. Serial!Join(r)
        BY <1>6, <2>1, <3>2, <3>4 DEF SubmitSelect, Serial!Join
      <3> QED
        BY <3>2, <3>5 DEF Serial!Next
    <2> QED
      BY <2>2, <2>3
  <1>7. ASSUME NEW c \in Callers, SubmitInsert(c) PROVE [Serial!Next]_(Serial!vars)
    <2>1. ActiveRun' = ActiveRun
      BY <1>7, SameActive DEF SubmitInsert, InBody
    <2>2. nextId \in RunIds /\ runs[nextId] = "none" /\ wanted[c] \in 0..edits
      BY <1>7 DEF SubmitInsert, CoverInv
    <2>3. Serial!Submit(nextId)
      BY <1>7, <2>1, <2>2 DEF SubmitInsert, Serial!Submit
    <2> QED
      BY <2>2, <2>3 DEF Serial!Next
  <1>8. ASSUME NEW c \in Callers, SubmitEnqueue(c) PROVE [Serial!Next]_(Serial!vars)
    <2>1. ActiveRun' = ActiveRun
      BY <1>8, SameActive DEF SubmitEnqueue, InBody
    <2> QED
      BY <1>8, <2>1 DEF SubmitEnqueue
  <1>9. CASE TakeJob
    <2>1. ActiveRun' = ActiveRun
      <3>1. /\ pc[Server] = "idle" /\ pc' = [pc EXCEPT ![Server] = "acquire"]
            /\ job' = [job EXCEPT ![Server] = Head(queue)] /\ up' = up
        BY <1>9 DEF TakeJob
      <3>2. ~InBody(Server) /\ ~InBody(Server)'
        <4>1. pc'[Server] = "acquire"
          BY <3>1 DEF Procs
        <4> QED
          BY ONLY <3>1, <4>1 DEF InBody, BodyPoints
      <3>3. \A q \in Procs \ {Server} : pc'[q] = pc[q] /\ job'[q] = job[q] /\ up'[q] = up[q]
        BY <3>1
      <3>4. \A q \in Procs \ {Server} : (InBody(q)' <=> InBody(q)) /\ job'[q] = job[q]
        BY <3>3 DEF InBody
      <3>5. \A q \in Procs : (InBody(q)' <=> InBody(q)) /\ (InBody(q) => job'[q] = job[q])
        BY ONLY <3>2, <3>4
      <3> QED
        BY <3>5, SameActive
    <2> QED
      BY <1>9, <2>1 DEF TakeJob
  <1>10. CASE LeaseExpires
    <2>1. ActiveRun' = ActiveRun
      BY <1>10, SameActive DEF LeaseExpires, InBody
    <2> QED
      BY <1>10, <2>1 DEF LeaseExpires
  <1>11. CASE UNCHANGED vars
    <2>1. ActiveRun' = ActiveRun
      BY <1>11, SameActive DEF vars, InBody
    <2> QED
      BY <1>11, <2>1 DEF vars
  <1>12. ASSUME NEW c \in Callers, SubmitRaises(c) PROVE [Serial!Next]_(Serial!vars)
    <2>1. ActiveRun' = ActiveRun
      BY <1>12, SameActive DEF SubmitRaises, InBody
    <2> QED
      BY <1>12, <2>1 DEF SubmitRaises
  <1> QED
    BY <1>1, <1>2, <1>3, <1>4, <1>5, <1>6, <1>7, <1>8, <1>9, <1>10, <1>11, <1>12
       DEF Next, CallerStep

\* With quiet starts and bodies shorter than the lease, the processes, threads,
\* queue and lease together implement one synchronization at a time.
THEOREM ImplementsSerialSync ==
  QuietStartup /\ LeaseOutlivesRun /\ Spec => SerialSpec
  <1> SUFFICES ASSUME QuietStartup, LeaseOutlivesRun PROVE Spec => SerialSpec
    OBVIOUS
  <1>1. TypeInv /\ CoverInv /\ ProgressInv /\ [Next]_vars => ProgressInv'
    BY ProgressStep
  <1>2. TypeInv /\ LeaseInv /\ [Next]_vars => LeaseInv'
    BY LeaseStep
  <1> DEFINE IInv == TypeInv /\ CoverInv /\ ProgressInv /\ LeaseInv
  <1>3. Spec => []IInv
    BY <1>1, <1>2, CoverInit, CoverStep, ProgressInit, LeaseInit, TypeInvariant, PTL
       DEF Spec
  <1>4. IInv /\ IInv' /\ [Next]_vars => [Serial!Next]_(Serial!vars)
    BY SerialStep
  <1> QED
    BY <1>3, <1>4, SerialInit, PTL DEF Spec, SerialSpec, Serial!Spec
=============================================================================
