------------------------------ MODULE SyncJobs ------------------------------
(***************************************************************************)
(* The synchronization jobs of arxiv_cortex (services/jobs.py): web and    *)
(* scheduler threads ask for a sync through submit_sync, a one-thread      *)
(* executor runs the queued runs, command-line processes run a sync of     *)
(* their own, and every process that creates the application first         *)
(* "recovers" the jobs it takes for interrupted ones.  The table sync_runs *)
(* and the one row of job_leases live in the database and survive a crash; *)
(* everything else is the memory of a process.                             *)
(*                                                                         *)
(* Each statement of the database is one step (connections are in          *)
(* autocommit mode, db.py:14), so any two threads interleave between them. *)
(***************************************************************************)
EXTENDS Integers, Sequences

CONSTANTS
  Server,             \* the web server process
  Clis,               \* command-line processes over the same database
  Callers,            \* server threads that call submit_sync
  MaxRuns,            \* bound: rows of sync_runs
  MaxEdits,           \* bound: requests for a synchronization
  MaxStarts,          \* bound: process starts
  QuietStartup,       \* a process starts only while no live one has a job
  LeaseOutlivesRun,   \* no sync body lasts longer than SYNC_LEASE_SECONDS
  DatabaseMayLock     \* a write may fail with "database is locked"

ASSUME BoundsAssumption ==
  /\ MaxRuns \in Nat /\ MaxEdits \in Nat /\ MaxStarts \in Nat
  /\ Server \notin Clis
ASSUME SwitchesAssumption ==
  /\ QuietStartup \in BOOLEAN
  /\ LeaseOutlivesRun \in BOOLEAN
  /\ DatabaseMayLock \in BOOLEAN

VARIABLES
  runs,          \* sync_runs.status by run id, "none" before the INSERT
  trigger,       \* the process that inserted the run ('cli' or a server trigger)
  nextId,        \* the id the next INSERT gets
  lease,         \* job_leases.owner: the run whose uuid holds it, NoRun if no row
  leaseExpired,  \* job_leases.expires_at <= now
  edits,         \* committed changes of the followed sources, as a version
  up,            \* which processes are alive
  starts,        \* process starts so far (bound)
  pc, job,       \* per process: where its _run is, and the run it executes
  queue,         \* the executor's work queue
  cpc, crun,     \* per caller: where its submit_sync is, the row it inserted
  wanted,        \* per caller: the version it asks to be synced, kept when rejected
  requested,     \* history: newest version asked of a run by a submit_sync
  snapshot,      \* history: the version of the sources a run's sync_all read
  locked         \* history: the unfinished runs whose end a locked database refused

database == <<runs, trigger, nextId, lease, leaseExpired, edits>>
process  == <<up, starts, pc, job, queue>>
caller   == <<cpc, crun, wanted>>
history  == <<requested, snapshot, locked>>
vars     == <<database, process, caller, history>>

Procs  == {Server} \union Clis
RunIds == 1..MaxRuns
NoRun  == 0
Unread == -1

Terminal   == {"succeeded", "failed"}
Status     == {"none", "queued", "running"} \union Terminal
\* The points of _run between a successful _acquire_lease and the end of
\* _release_lease: the code that talks to arXiv and writes papers.
BodyPoints == {"mark", "snapshot", "feeds", "renew", "index", "fail", "release"}
Points     == {"idle", "start", "acquire", "refused"} \union BodyPoints

DatabaseTypeOK ==
  /\ runs \in [RunIds -> Status]
  /\ trigger \in [RunIds -> Procs \union {NoRun}]
  /\ nextId \in 1..(MaxRuns + 1)
  /\ lease \in RunIds \union {NoRun}
  /\ leaseExpired \in BOOLEAN
  /\ edits \in 0..MaxEdits

ProcessTypeOK ==
  /\ up \in [Procs -> BOOLEAN]
  /\ starts \in 0..MaxStarts
  /\ pc \in [Procs -> Points]
  /\ job \in [Procs -> RunIds \union {NoRun}]
  /\ queue \in Seq(RunIds)

CallerTypeOK ==
  /\ cpc \in [Callers -> {"idle", "select", "insert", "enqueue"}]
  /\ crun \in [Callers -> RunIds \union {NoRun}]
  /\ wanted \in [Callers -> 0..MaxEdits]

HistoryTypeOK ==
  /\ requested \in [RunIds -> 0..MaxEdits]
  /\ snapshot \in [RunIds -> 0..MaxEdits \union {Unread}]
  /\ locked \subseteq RunIds

TypeOK == DatabaseTypeOK /\ ProcessTypeOK /\ CallerTypeOK /\ HistoryTypeOK

Init ==
  /\ runs = [r \in RunIds |-> "none"]
  /\ trigger = [r \in RunIds |-> NoRun]
  /\ nextId = 1
  /\ lease = NoRun /\ leaseExpired = FALSE
  /\ edits = 0
  /\ up = [p \in Procs |-> FALSE] /\ starts = 0
  /\ pc = [p \in Procs |-> "idle"] /\ job = [p \in Procs |-> NoRun]
  /\ queue = <<>>
  /\ cpc = [c \in Callers |-> "idle"] /\ crun = [c \in Callers |-> NoRun]
  /\ wanted = [c \in Callers |-> 0]
  /\ requested = [r \in RunIds |-> 0]
  /\ snapshot = [r \in RunIds |-> Unread]
  /\ locked = {}

InBody(p) == up[p] /\ pc[p] \in BodyPoints

-----------------------------------------------------------------------------
(* Process life: create_app and its recovery, crashes.                     *)

\* A live process has a run it inserted, queued or executes.
Working(p) ==
  /\ up[p]
  /\ \/ job[p] # NoRun
     \/ p = Server /\ (queue # <<>> \/ \E c \in Callers : cpc[c] = "enqueue")

\* Mutant: recovery without its WHERE clause.
RecoversEveryRow == Status \ {"none"}
RecoveredStatuses == {"queued", "running"}

\* create_app runs recover_interrupted_jobs before it serves anything: every
\* unfinished run fails and every lease is deleted, in one transaction.
Start(p) ==
  /\ ~up[p] /\ starts < MaxStarts
  /\ QuietStartup => \A q \in Procs \ {p} : ~Working(q)
  /\ up' = [up EXCEPT ![p] = TRUE]
  /\ starts' = starts + 1
  /\ runs' = [r \in RunIds |->
                IF runs[r] \in RecoveredStatuses THEN "failed" ELSE runs[r]]
  /\ lease' = NoRun /\ leaseExpired' = FALSE
  /\ pc' = [pc EXCEPT ![p] = IF p = Server THEN "idle" ELSE "start"]
  /\ job' = [job EXCEPT ![p] = NoRun]
  /\ locked' = {}
  /\ UNCHANGED <<trigger, nextId, edits, queue, caller, requested, snapshot>>

\* The process is killed or a command ends, also by an error before its run has
\* a row: its memory is lost.
Stop(p) ==
  /\ up[p]
  /\ up' = [up EXCEPT ![p] = FALSE]
  /\ pc' = [pc EXCEPT ![p] = "idle"]
  /\ job' = [job EXCEPT ![p] = NoRun]
  /\ IF p = Server
       THEN /\ queue' = <<>>
            /\ cpc' = [c \in Callers |-> "idle"]
            /\ crun' = [c \in Callers |-> NoRun]
            /\ wanted' = [c \in Callers |-> 0]
       ELSE UNCHANGED <<queue, caller>>
  /\ UNCHANGED <<database, starts, history>>

\* Six hours pass since the lease was last written.
LeaseExpires ==
  /\ lease # NoRun /\ ~leaseExpired
  /\ LeaseOutlivesRun => \A p \in Procs : ~(InBody(p) /\ job[p] = lease)
  /\ leaseExpired' = TRUE
  /\ UNCHANGED <<runs, trigger, nextId, lease, edits, process, caller, history>>

-----------------------------------------------------------------------------
(* submit_sync, on a server thread.                                        *)

\* A request (a changed source, a manual or a scheduled sync) commits what it
\* changes, then calls submit_sync.
Request(c) ==
  /\ up[Server] /\ cpc[c] = "idle" /\ edits < MaxEdits
  /\ edits' = edits + 1
  /\ wanted' = [wanted EXCEPT ![c] = edits + 1]
  /\ cpc' = [cpc EXCEPT ![c] = "select"]
  /\ UNCHANGED <<runs, trigger, nextId, lease, leaseExpired, process, crun, history>>

\* Mutant: an active run, already past its reads, answers a request too.
QueuedOrRunning == {r \in RunIds : runs[r] \in {"queued", "running"}}
Queued == {r \in RunIds : runs[r] = "queued"}

\* SELECT ... status = 'queued': the newest queued run answers the request.
SubmitSelect(c) ==
  /\ cpc[c] = "select"
  /\ \/ /\ Queued = {}
        /\ cpc' = [cpc EXCEPT ![c] = "insert"]
        /\ UNCHANGED <<requested, wanted>>
     \/ \E r \in Queued :
          /\ \A q \in Queued : q <= r
          /\ requested' = [requested EXCEPT ![r] = IF @ < wanted[c] THEN wanted[c] ELSE @]
          /\ cpc' = [cpc EXCEPT ![c] = "idle"] /\ wanted' = [wanted EXCEPT ![c] = 0]
  /\ UNCHANGED <<database, process, crun, snapshot, locked>>

\* INSERT INTO sync_runs: the new row is visible to the other threads at once.
SubmitInsert(c) ==
  /\ cpc[c] = "insert" /\ nextId <= MaxRuns
  /\ runs' = [runs EXCEPT ![nextId] = "queued"]
  /\ trigger' = [trigger EXCEPT ![nextId] = Server]
  /\ requested' = [requested EXCEPT ![nextId] = wanted[c]]
  /\ nextId' = nextId + 1
  /\ cpc' = [cpc EXCEPT ![c] = "enqueue"]
  /\ crun' = [crun EXCEPT ![c] = nextId]
  /\ UNCHANGED <<lease, leaseExpired, edits, process, wanted, snapshot, locked>>

\* "database is locked": the request ends with an error, what it changed stays.
SubmitRaises(c) ==
  /\ DatabaseMayLock /\ cpc[c] = "insert"
  /\ cpc' = [cpc EXCEPT ![c] = "idle"]
  /\ UNCHANGED <<database, process, crun, wanted, history>>

\* Mutant: the run id is cleared before it is handed over.
SubmitEnqueueSwapped(c) ==
  /\ cpc[c] = "enqueue"
  /\ crun' = [crun EXCEPT ![c] = NoRun]
  /\ queue' = Append(queue, crun'[c])
  /\ cpc' = [cpc EXCEPT ![c] = "idle"] /\ wanted' = [wanted EXCEPT ![c] = 0]
  /\ UNCHANGED <<database, up, starts, pc, job, history>>

\* executor.submit(self._run, run_id)
SubmitEnqueue(c) ==
  /\ cpc[c] = "enqueue"
  /\ queue' = Append(queue, crun[c])
  /\ cpc' = [cpc EXCEPT ![c] = "idle"] /\ wanted' = [wanted EXCEPT ![c] = 0]
  /\ crun' = [crun EXCEPT ![c] = NoRun]
  /\ UNCHANGED <<database, up, starts, pc, job, history>>

-----------------------------------------------------------------------------
(* _run, on the executor's thread (p = Server) or inline in a command.     *)

TakeJob ==
  /\ up[Server] /\ pc[Server] = "idle" /\ queue # <<>>
  /\ job' = [job EXCEPT ![Server] = Head(queue)]
  /\ queue' = Tail(queue)
  /\ pc' = [pc EXCEPT ![Server] = "acquire"]
  /\ UNCHANGED <<database, up, starts, caller, history>>

\* Mutant: a command coalesces as submit_sync does.
CliJoins(p) ==
  /\ p \in Clis /\ up[p] /\ pc[p] = "start"
  /\ IF Queued # {} THEN \E r \in Queued : job' = [job EXCEPT ![p] = r] /\ UNCHANGED <<runs, nextId, trigger>>
     ELSE /\ nextId <= MaxRuns
          /\ runs' = [runs EXCEPT ![nextId] = "queued"]
          /\ trigger' = [trigger EXCEPT ![nextId] = p]
          /\ nextId' = nextId + 1
          /\ job' = [job EXCEPT ![p] = nextId]
  /\ pc' = [pc EXCEPT ![p] = "acquire"]
  /\ UNCHANGED <<lease, leaseExpired, edits, up, starts, queue, caller, history>>

\* run_sync_inline never coalesces.
CliInsert(p) ==
  /\ p \in Clis /\ up[p] /\ pc[p] = "start" /\ nextId <= MaxRuns
  /\ runs' = [runs EXCEPT ![nextId] = "queued"]
  /\ trigger' = [trigger EXCEPT ![nextId] = p]
  /\ nextId' = nextId + 1
  /\ job' = [job EXCEPT ![p] = nextId]
  /\ pc' = [pc EXCEPT ![p] = "acquire"]
  /\ UNCHANGED <<lease, leaseExpired, edits, up, starts, queue, caller, history>>

Goto(p, point) == pc' = [pc EXCEPT ![p] = point]
Finish(p) == Goto(p, "idle") /\ job' = [job EXCEPT ![p] = NoRun]

\* Mutant: INSERT OR REPLACE, as the upserts of the other tables do.
LeaseIsReplaced == TRUE
\* One transaction: expired leases go, then INSERT OR IGNORE.
LeaseIsFree == lease = NoRun \/ leaseExpired
AcquireLease(p) ==
  /\ up[p] /\ pc[p] = "acquire"
  /\ IF LeaseIsFree
       THEN /\ lease' = job[p] /\ leaseExpired' = FALSE
            /\ Goto(p, "mark")
       ELSE /\ Goto(p, "refused")
            /\ UNCHANGED <<lease, leaseExpired>>
  /\ UNCHANGED <<runs, trigger, nextId, edits, up, starts, job, queue, caller, history>>

\* _acquire_lease and the _fail of a refused run are called outside the try of
\* _run: an exception in them ends the job and leaves the row as it was.
RunRaises(p) ==
  /\ DatabaseMayLock
  /\ up[p] /\ pc[p] \in {"acquire", "refused"}
  /\ Finish(p)
  /\ locked' = locked \union {job[p]}
  /\ UNCHANGED <<database, up, starts, queue, caller, requested, snapshot>>

\* "Another synchronization job holds the lease"
Refuse(p) ==
  /\ up[p] /\ pc[p] = "refused"
  /\ runs' = [runs EXCEPT ![job[p]] = "failed"]
  /\ Finish(p)
  /\ UNCHANGED <<trigger, nextId, lease, leaseExpired, edits, up, starts, queue,
                 caller, history>>

MarkRunning(p) ==
  /\ up[p] /\ pc[p] = "mark"
  /\ runs' = [runs EXCEPT ![job[p]] = "running"]
  /\ Goto(p, "snapshot")
  /\ UNCHANGED <<trigger, nextId, lease, leaseExpired, edits, up, starts, job,
                 queue, caller, history>>

\* sync_all first reads the subscriptions and enabled search tags it will visit.
ReadSources(p) ==
  /\ up[p] /\ pc[p] = "snapshot"
  /\ snapshot' = [snapshot EXCEPT ![job[p]] = edits]
  /\ Goto(p, "feeds")
  /\ UNCHANGED <<database, up, starts, job, queue, caller, requested, locked>>

SyncFeeds(p) ==
  /\ up[p] /\ pc[p] = "feeds"
  /\ Goto(p, "renew")
  /\ UNCHANGED <<database, up, starts, job, queue, caller, history>>

\* After the citations (best effort), and with each batch of embeddings.
RenewLease(p) ==
  /\ up[p] /\ pc[p] = "renew"
  /\ leaseExpired' = (leaseExpired /\ lease # job[p])
  /\ Goto(p, "index")
  /\ UNCHANGED <<runs, trigger, nextId, lease, edits, up, starts, job, queue,
                 caller, history>>

Succeed(p) ==
  /\ up[p] /\ pc[p] = "index"
  /\ runs' = [runs EXCEPT ![job[p]] = "succeeded"]
  /\ Goto(p, "release")
  /\ UNCHANGED <<trigger, nextId, lease, leaseExpired, edits, up, starts, job,
                 queue, caller, history>>

\* Any statement of the try block may raise.
BodyRaises(p) ==
  /\ up[p] /\ pc[p] \in {"mark", "snapshot", "feeds", "renew", "index"}
  /\ Goto(p, "fail")
  /\ UNCHANGED <<database, up, starts, job, queue, caller, history>>

\* Mutant: the failure is logged but not recorded.
FailOnlyLogs(p) ==
  /\ up[p] /\ pc[p] = "fail"
  /\ Goto(p, "release")
  /\ UNCHANGED <<database, up, starts, job, queue, caller, history>>

\* The except clause; its UPDATE may itself fail, the finally still runs.
Fail(p) ==
  /\ up[p] /\ pc[p] = "fail"
  /\ \/ runs' = [runs EXCEPT ![job[p]] = "failed"] /\ UNCHANGED locked
     \/ DatabaseMayLock /\ locked' = locked \union {job[p]} /\ UNCHANGED runs
  /\ Goto(p, "release")
  /\ UNCHANGED <<trigger, nextId, lease, leaseExpired, edits, up, starts, job,
                 queue, caller, requested, snapshot>>

\* DELETE ... WHERE owner = ?: only the own lease is released.  When it raises,
\* the lease stays until it expires.
ReleaseLease(p) ==
  /\ up[p] /\ pc[p] = "release"
  /\ \/ lease = job[p] /\ lease' = NoRun /\ leaseExpired' = FALSE
     \/ (lease # job[p] \/ DatabaseMayLock) /\ UNCHANGED <<lease, leaseExpired>>
  /\ Finish(p)
  /\ UNCHANGED <<runs, trigger, nextId, edits, up, starts, queue, caller, history>>

-----------------------------------------------------------------------------
RunStep(p) ==
  \/ AcquireLease(p) \/ RunRaises(p) \/ Refuse(p) \/ MarkRunning(p)
  \/ ReadSources(p) \/ SyncFeeds(p) \/ RenewLease(p) \/ Succeed(p)
  \/ BodyRaises(p) \/ Fail(p) \/ ReleaseLease(p)

CallerStep(c) ==
  SubmitSelect(c) \/ SubmitInsert(c) \/ SubmitRaises(c) \/ SubmitEnqueue(c)

Next ==
  \/ \E p \in Procs : Start(p) \/ Stop(p) \/ CliInsert(p) \/ RunStep(p)
  \/ \E c \in Callers : Request(c) \/ CallerStep(c)
  \/ TakeJob
  \/ LeaseExpires

Spec == Init /\ [][Next]_vars

\* The executor's thread and the request threads run; nobody has to start or
\* stop a process or to ask for a synchronization.
Fairness ==
  /\ WF_vars(TakeJob)
  /\ \A p \in Procs : WF_vars(RunStep(p))
  /\ \A c \in Callers : WF_vars(CallerStep(c))

FairSpec == Spec /\ Fairness

-----------------------------------------------------------------------------
(* Properties.                                                             *)

\* At most one process is inside the part of _run that the lease protects:
\* "job_leases prevents overlapping jobs" (docs/PLAN.md:34).
MutualExclusion ==
  \A p, q \in Procs : InBody(p) /\ InBody(q) => p = q

\* Coalescing never loses a request: a run whose id submit_sync returned to a
\* thread reads the followed sources at least as new as that thread committed
\* them.  Returning a run that is already running would break it.
RequestsAreCovered ==
  \A r \in RunIds : snapshot[r] # Unread => requested[r] <= snapshot[r]

\* A run's status only moves queued -> running -> succeeded or failed, or
\* queued -> failed; in particular a finished run is never revived and what
\* the job panel shows as finished stays so.
StatusMovesForward ==
  [][\A r \in RunIds :
        runs'[r] # runs[r] =>
          <<runs[r], runs'[r]>> \in
             {<<"none", "queued">>, <<"queued", "running">>, <<"queued", "failed">>,
              <<"running", "succeeded">>, <<"running", "failed">>}]_vars

\* The process that inserted the run is gone.
Orphan(r) == \E p \in Procs : p = trigger[r] /\ ~up[p]

\* The request for version e was not answered with a run.
Rejected(e) == \E c \in Callers : cpc[c] = "idle" /\ wanted[c] = e

\* Every request that a server which stays up does not reject is served: some run
\* reads sources at least as new, or the run it was answered with reports a
\* failure.  Two runs never do: the one of a command that is killed before it
\* runs, and one that a locked database left queued - all that comes later is
\* answered with that one and served by none (services/jobs.py:109).
RequestIsServed ==
  \A e \in 1..MaxEdits :
    (\E c \in Callers : cpc[c] # "idle" /\ wanted[c] = e) ~>
      \/ \E r \in RunIds : snapshot[r] >= e
      \/ \E r \in RunIds :
           requested[r] >= e /\ (runs[r] = "failed" \/ Orphan(r) \/ r \in locked)
      \/ ~up[Server] \/ Rejected(e)

\* No run stays unfinished while the process that inserted it lives, unless the
\* database refused the very write that would have finished it: neither queued
\* rows that nothing will execute, nor running rows left behind by a lost worker,
\* however many other runs a locked database left as they were.
RunsFinish ==
  \A r \in RunIds : runs[r] \in {"queued", "running"} ~>
                      (runs[r] \in Terminal \/ Orphan(r) \/ r \in locked)

-----------------------------------------------------------------------------
(* What it all amounts to: one synchronization at a time.                  *)

\* The run whose body a process is in.
ActiveRun ==
  IF \E p \in Procs : InBody(p) THEN job[CHOOSE p \in Procs : InBody(p)] ELSE NoRun

Serial == INSTANCE SerialSync WITH
            Runs <- RunIds, NoRun <- NoRun, Unread <- Unread, status <- runs,
            active <- ActiveRun, sources <- edits, asked <- requested, read <- snapshot

\* Lease, queue, threads and processes together behave like SerialSync, whose
\* runs are taken one at a time, asked only while queued and never revived.
SerialSpec == Serial!Spec
=============================================================================
