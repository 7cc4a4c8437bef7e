----------------------------- MODULE SerialSync -----------------------------
(***************************************************************************)
(* What the job machinery of arxiv_cortex promises, without its lease, its *)
(* queue, its processes and its threads: one synchronization at a time     *)
(* ("job_leases prevents overlapping jobs", docs/PLAN.md:34).  Requests    *)
(* are written on a run that is still queued; a run that begins reads the  *)
(* sources once, after it was asked for the last time; a run that ended    *)
(* stays as it ended.  SyncJobs implements it, see SyncJobs!SerialSpec.    *)
(***************************************************************************)
EXTENDS Integers

CONSTANTS
  Runs,      \* ids of runs
  NoRun,     \* none of them
  Unread     \* the version of a run that has not read the sources

VARIABLES
  status,    \* per run, as sync_runs shows it
  active,    \* the run that talks to arXiv and writes papers, or NoRun
  sources,   \* the version of the followed sources
  asked,     \* per run: the newest version it was asked for
  read       \* per run: the version it has read

vars == <<status, active, sources, asked, read>>

Init ==
  /\ status = [r \in Runs |-> "none"]
  /\ active = NoRun
  /\ sources = 0
  /\ asked = [r \in Runs |-> 0]
  /\ read = [r \in Runs |-> Unread]

Edit ==
  /\ sources' = sources + 1
  /\ UNCHANGED <<status, active, asked, read>>

\* A new run, for a request of any version committed so far.
Submit(r) ==
  /\ status[r] = "none"
  /\ status' = [status EXCEPT ![r] = "queued"]
  /\ \E v \in 0..sources : asked' = [asked EXCEPT ![r] = v]
  /\ UNCHANGED <<active, sources, read>>

\* A queued run takes one more request.
Join(r) ==
  /\ status[r] = "queued" /\ read[r] = Unread
  /\ \E v \in asked[r]..sources : asked' = [asked EXCEPT ![r] = v]
  /\ UNCHANGED <<status, active, sources, read>>

Begin(r) ==
  /\ active = NoRun /\ status[r] = "queued"
  /\ active' = r
  /\ UNCHANGED <<status, sources, asked, read>>

Run(r) ==
  /\ active = r /\ status[r] = "queued"
  /\ status' = [status EXCEPT ![r] = "running"]
  /\ UNCHANGED <<active, sources, asked, read>>

Read(r) ==
  /\ active = r /\ status[r] = "running" /\ read[r] = Unread
  /\ read' = [read EXCEPT ![r] = sources]
  /\ UNCHANGED <<status, active, sources, asked>>

Succeed(r) ==
  /\ active = r /\ status[r] = "running" /\ read[r] # Unread
  /\ status' = [status EXCEPT ![r] = "succeeded"]
  /\ UNCHANGED <<active, sources, asked, read>>

\* While it is active, or refused before it ever was.
Fail(r) ==
  /\ status[r] = "queued" \/ (status[r] = "running" /\ active = r)
  /\ status' = [status EXCEPT ![r] = "failed"]
  /\ UNCHANGED <<active, sources, asked, read>>

\* The end of the active run, or of its process.
Leave ==
  /\ active # NoRun /\ active' = NoRun
  /\ UNCHANGED <<status, sources, asked, read>>

\* Recovery, while nothing is active.
Recover ==
  /\ active = NoRun
  /\ status' = [r \in Runs |->
                  IF status[r] \in {"queued", "running"} THEN "failed" ELSE status[r]]
  /\ UNCHANGED <<active, sources, asked, read>>

Next ==
  \/ Edit \/ Leave \/ Recover
  \/ \E r \in Runs : Submit(r) \/ Join(r) \/ Begin(r) \/ Run(r) \/ Read(r)
                       \/ Succeed(r) \/ Fail(r)

Spec == Init /\ [][Next]_vars
=============================================================================
