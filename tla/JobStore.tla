------------------------------ MODULE JobStore ------------------------------
(***************************************************************************)
(* The persistent job queue of `tcpform serve`: the jobs table (storage.rs *)
(* opens a connection per call, so every SQL statement or transaction is   *)
(* one atomic step), the job_worker threads that claim and run jobs, the   *)
(* HTTP handlers that create, cancel, retry and prune them, and crashes    *)
(* and restarts of the server process.                                     *)
(***************************************************************************)
EXTENDS Integers, FiniteSets

CONSTANTS
  Jobs,           \* ids create_job may draw; each is drawn once
  Workers,        \* job_worker threads
  RetentionDays,  \* values of retention_days prune is called with
  Width,          \* bits of u64 and i64 in the model
  Day,            \* seconds per day
  MaxClock,       \* bound on the wall clock
  MaxAttempts,    \* bound on the claims of one job
  MaxCrashes,     \* bound on crashes of the server process
  MaxFaults       \* bound on store calls that return Err

ASSUME JobStoreAssumption ==
  /\ RetentionDays \subseteq Nat
  /\ Width \in Nat \ {0}
  /\ Day \in Nat
  /\ {MaxClock, MaxAttempts, MaxCrashes, MaxFaults} \subseteq Nat

VARIABLES
  rows,     \* the jobs table: a row, Absent or Deleted for every id
  clock,    \* now(), in seconds
  server,   \* the process: "down", "opened" (Store::open done) or "up"
  wpc,      \* where each worker is in job_worker
  wjob,     \* the job a worker has claimed
  crashes,  \* crashes so far
  faults    \* failed store calls so far

vars == <<rows, clock, server, wpc, wjob, crashes, faults>>

Statuses == {"queued", "running", "completed", "failed", "cancelled"}

Absent == [status |-> "absent", cancel |-> FALSE, attempt |-> 0, result |-> "none",
           progress |-> 0, created |-> 0]
Deleted == [Absent EXCEPT !.status = "deleted"]

Stored == {j \in Jobs : rows[j].status \in Statuses}

NoJob == "no job"

Init ==
  /\ rows = [j \in Jobs |-> Absent]
  /\ clock = 0
  /\ server = "down"
  /\ wpc = [w \in Workers |-> "idle"]
  /\ wjob = [w \in Workers |-> NoJob]
  /\ crashes = 0
  /\ faults = 0

-----------------------------------------------------------------------------
(* HTTP handlers, each one UPDATE, INSERT or DELETE *)

CreateJob(j) ==
  /\ server = "up"
  /\ rows[j] = Absent
  /\ rows' = [rows EXCEPT ![j] = [Absent EXCEPT !.status = "queued", !.created = clock]]
  /\ UNCHANGED <<clock, server, wpc, wjob, crashes, faults>>

(* cancel_job: a queued job is cancelled at once, a running one is only flagged. *)
Cancelled(row) ==
  [row EXCEPT !.cancel = TRUE,
              !.status = IF @ = "queued" THEN "cancelled" ELSE @]

CancelJob(j) ==
  /\ server = "up"
  /\ rows[j].status \in {"queued", "running"}
  /\ rows' = [rows EXCEPT ![j] = Cancelled(@)]
  /\ UNCHANGED <<clock, server, wpc, wjob, crashes, faults>>

RetryJob(j) ==
  /\ server = "up"
  /\ rows[j].status \in {"failed", "cancelled", "completed"}
  /\ rows[j].attempt < MaxAttempts
  /\ rows' = [rows EXCEPT ![j].status = "queued", ![j].cancel = FALSE, ![j].result = "none",
                         ![j].progress = 0]
  /\ UNCHANGED <<clock, server, wpc, wjob, crashes, faults>>

(* (retention_days.saturating_mul(86_400)) as i64: a u64 product clipped at *)
(* the top, then reinterpreted as signed.                                   *)
RetentionSeconds(days) ==
  LET max == 2 ^ Width - 1
      product == IF days * Day > max THEN max ELSE days * Day
  IN IF product >= 2 ^ (Width - 1) THEN product - 2 ^ Width ELSE product

(* now().saturating_sub(...) *)
Cutoff(days) ==
  LET top == 2 ^ (Width - 1) - 1
      difference == clock - RetentionSeconds(days)
  IN IF difference > top THEN top ELSE difference


Pruned(days) ==
  [j \in Jobs |-> IF j \in Stored /\ rows[j].created < Cutoff(days) THEN Deleted ELSE rows[j]]

Prune ==
  /\ server = "up"
  /\ \E days \in RetentionDays : rows' = Pruned(days)
  /\ UNCHANGED <<clock, server, wpc, wjob, crashes, faults>>

-----------------------------------------------------------------------------
(* job_worker *)

(* A faulty selection: only jobs never attempted. *)
ClaimableFresh == {j \in Jobs : rows[j].status = "queued" /\ ~rows[j].cancel /\ rows[j].attempt = 0}

(* SELECT id FROM jobs WHERE status='queued' AND cancel_requested=0 ORDER BY created_at *)
Claimable == {j \in Jobs : rows[j].status = "queued" /\ ~rows[j].cancel}
Oldest == {j \in Claimable : \A k \in Claimable : rows[j].created <= rows[k].created}

(* claim_job found nothing: Ok(None), and the worker sleeps for 100 ms. *)
Sleep(w) ==
  /\ server = "up"
  /\ wpc[w] = "idle"
  /\ Claimable = {}
  /\ UNCHANGED vars

(* The transaction of claim_job.  SQLite serialises it: a claim that loses  *)
(* the race for the write lock returns Err, and the worker sleeps and tries *)
(* again, which changes nothing here.                                       *)
ClaimJob(w) ==
  /\ server = "up"
  /\ wpc[w] = "idle"
  /\ \E j \in Oldest :
       /\ rows' = [rows EXCEPT ![j].status = "running", ![j].attempt = @ + 1,
                              ![j].progress = 5]
       /\ wjob' = [wjob EXCEPT ![w] = j]
  /\ wpc' = [wpc EXCEPT ![w] = "claimed"]
  /\ UNCHANGED <<clock, server, crashes, faults>>

Idle(w) ==
  /\ wpc' = [wpc EXCEPT ![w] = "idle"]
  /\ wjob' = [wjob EXCEPT ![w] = NoJob]

(* A store call of the worker returns Err. *)
StoreFault == faults < MaxFaults /\ faults' = faults + 1

(* The get_job at the end of claim_job, on a new connection: a deleted row  *)
(* is Ok(None), an error sleeps, a cancel request diverts the worker.       *)
GetClaimed(w) ==
  /\ server = "up"
  /\ wpc[w] = "claimed"
  /\ \/ /\ wjob[w] \notin Stored
        /\ Idle(w)
        /\ UNCHANGED faults
     \/ /\ StoreFault
        /\ Idle(w)
     \/ /\ wjob[w] \in Stored
        /\ wpc' = [wpc EXCEPT ![w] = IF rows[wjob[w]].cancel THEN "cancelling" ELSE "starting"]
        /\ UNCHANGED <<wjob, faults>>
  /\ UNCHANGED <<rows, clock, server, crashes>>

(* if job.cancel_requested { cancel_job; continue } *)
CancelClaimed(w) ==
  /\ server = "up"
  /\ wpc[w] = "cancelling"
  /\ \/ /\ rows' = IF rows[wjob[w]].status \in {"queued", "running"}
                     THEN [rows EXCEPT ![wjob[w]] = Cancelled(@)] ELSE rows
        /\ UNCHANGED faults
     \/ StoreFault /\ UNCHANGED rows
  /\ Idle(w)
  /\ UNCHANGED <<clock, server, crashes>>

(* update_job_progress(0.25), whose error is ignored, before the run itself. *)
UpdateProgress(w) ==
  /\ server = "up"
  /\ wpc[w] = "starting"
  /\ \/ /\ rows' = IF rows[wjob[w]].status = "running"
                     THEN [rows EXCEPT ![wjob[w]].progress = 25] ELSE rows
        /\ UNCHANGED faults
     \/ StoreFault /\ UNCHANGED rows
  /\ wpc' = [wpc EXCEPT ![w] = "working"]
  /\ UNCHANGED <<clock, server, wjob, crashes>>

(* A faulty finish_job: the outcome of the run is stored, cancelled or not. *)
FinishedAnyway(row, outcome) ==
  [row EXCEPT !.status = outcome, !.progress = 100,
              !.result = IF outcome = "completed" THEN "document" ELSE "none"]

(* finish_job's UPDATE has no condition on status; a deleted row matches nothing. *)
Finished(row, outcome) ==
  LET ended == IF row.cancel THEN "cancelled" ELSE outcome
  IN [row EXCEPT !.status = ended, !.progress = 100,
                 !.result = IF ended = "completed" THEN "document" ELSE "none"]

(* A faulty finish_job: an upsert brings a deleted job back. *)
FinishJobUpsert(w) ==
  /\ server = "up"
  /\ wpc[w] = "working"
  /\ \E outcome \in {"completed", "failed"} : rows' = [rows EXCEPT ![wjob[w]] = Finished(@, outcome)]
  /\ Idle(w)
  /\ UNCHANGED <<clock, server, crashes, faults>>

(* uploaded_visualization has run; finish_job's error is ignored. *)
FinishJob(w) ==
  /\ server = "up"
  /\ wpc[w] = "working"
  /\ \/ /\ \E outcome \in {"completed", "failed"} :
             rows' = IF wjob[w] \in Stored
                       THEN [rows EXCEPT ![wjob[w]] = Finished(@, outcome)] ELSE rows
        /\ UNCHANGED faults
     \/ StoreFault /\ UNCHANGED rows
  /\ Idle(w)
  /\ UNCHANGED <<clock, server, crashes>>

WorkerStep(w) == Sleep(w) \/ ClaimJob(w) \/ GetClaimed(w) \/ CancelClaimed(w)
                 \/ UpdateProgress(w) \/ FinishJob(w)

-----------------------------------------------------------------------------
(* The process and time *)

(* The process stops at any point; only the table survives. *)
Crash ==
  /\ server # "down"
  /\ crashes < MaxCrashes
  /\ crashes' = crashes + 1
  /\ server' = "down"
  /\ wpc' = [w \in Workers |-> "idle"]
  /\ wjob' = [w \in Workers |-> NoJob]
  /\ UNCHANGED <<rows, clock, faults>>

(* A faulty Store::open, without recover_jobs. *)
RecoveredNone == rows

(* recover_jobs requeues what was running and not flagged. *)
Recovered == [j \in Jobs |-> IF rows[j].status = "running" /\ ~rows[j].cancel
                               THEN [rows[j] EXCEPT !.status = "queued"] ELSE rows[j]]

(* cmd_serve: Store::open, which ends with recover_jobs ... *)
Open ==
  /\ server = "down"
  /\ server' = "opened"
  /\ rows' = Recovered
  /\ UNCHANGED <<clock, wpc, wjob, crashes, faults>>

(* ... then prune(retention_days), then the workers and the listener start. *)
Serve ==
  /\ server = "opened"
  /\ server' = "up"
  /\ \E days \in RetentionDays : rows' = Pruned(days)
  /\ UNCHANGED <<clock, wpc, wjob, crashes, faults>>

Tick ==
  /\ clock < MaxClock
  /\ clock' = clock + 1
  /\ UNCHANGED <<rows, server, wpc, wjob, crashes, faults>>

Next ==
  \/ \E j \in Jobs : CreateJob(j) \/ CancelJob(j) \/ RetryJob(j)
  \/ \E w \in Workers : WorkerStep(w)
  \/ Prune \/ Crash \/ Open \/ Serve \/ Tick

Spec == Init /\ [][Next]_vars

(* Worker threads run while the process is up, and a stopped server is restarted. *)
Fairness ==
  /\ \A w \in Workers : WF_vars(WorkerStep(w))
  /\ WF_vars(Open) /\ WF_vars(Serve)

FairSpec == Spec /\ Fairness

-----------------------------------------------------------------------------
(* Properties *)

Holds(w, j) == wpc[w] # "idle" /\ wjob[w] = j

(***************************************************************************)
(* A job in work has one owner, through cancels, retries and restarts.     *)
(* claim_job hands a job to one worker only: two workers never hold the    *)
(* same one.  The job a worker holds is still running, or retention has    *)
(* deleted it, which is what makes finish_job's unguarded UPDATE safe.     *)
(* And when no store call fails, a running job nobody asked to cancel has  *)
(* a worker: it cannot be forgotten in the table.                          *)
(***************************************************************************)
OneOwner ==
  /\ \A v, w \in Workers : \A j \in Jobs : Holds(v, j) /\ Holds(w, j) => v = w
  /\ \A w \in Workers : wpc[w] # "idle" =>
       wjob[w] \in Jobs /\ rows[wjob[w]].status \in {"running", "deleted"}
  /\ server = "up" /\ faults = 0 =>
       \A j \in Jobs : rows[j].status = "running" /\ ~rows[j].cancel => \E w \in Workers : Holds(w, j)

(* A cancel request is honoured even if it races with finish_job: a job     *)
(* with the flag set never ends completed or failed, and a cancelled job    *)
(* publishes no result.                                                     *)
CancelWins ==
  \A j \in Jobs :
    /\ rows[j].cancel => rows[j].status \in {"running", "cancelled"}
    /\ rows[j].status = "cancelled" => rows[j].cancel /\ rows[j].result = "none"


(* The table, the workers and the restarts implement the life of a job. *)
Life == INSTANCE JobLifecycle WITH state <- [j \in Jobs |-> rows[j].status],
                                   asked <- [j \in Jobs |-> rows[j].cancel]
ImplementsLifecycle == Life!LifeSpec

Terminal == {"completed", "failed", "cancelled", "deleted"}

(* "Queued jobs survive a process restart": a queued job ends, or is        *)
(* cancelled or deleted, through any finite number of crashes, unless a     *)
(* store call fails.                                                        *)
QueuedJobsEnd ==
  \A j \in Jobs :
    (rows[j].status = "queued") ~> (rows[j].status \in Terminal \/ rows[j].cancel \/ faults > 0)

(* Jobs "support cancellation": a running job that is asked to stop does.   *)
CancelledJobsEnd ==
  \A j \in Jobs : (rows[j].cancel) ~> (rows[j].status # "running")

=============================================================================
