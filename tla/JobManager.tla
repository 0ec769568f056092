------------------------------ MODULE JobManager ------------------------------
(***************************************************************************)
(* The transient job manager of the API process (src/workers/              *)
(* job_manager.py), the request handlers that drive it (services/          *)
(* backtests.py, services/strategies.py, strategy_validation/runs.py), the *)
(* pool worker that computes a report (workers/report_job.py) and the two  *)
(* tables they write: app.backtest_reports and app.strategies.             *)
(*                                                                         *)
(* A job is one backtest.  Its lock (_Job.lock) makes submit, cancel,      *)
(* get_detail, the completion callback and the shutdown sweep atomic with  *)
(* respect to each other, so each of them is one action here.  The one     *)
(* exception is the callback of a report that is being saved: the insert   *)
(* commits in the database before the manager records it, so the callback  *)
(* has two steps and holds the lock between them (callback = "committed"). *)
(* The worker takes no lock: it talks to the manager through the IPC       *)
(* dictionary only (status, cancel_requested).                             *)
(***************************************************************************)
EXTENDS Integers, FiniteSets

CONSTANTS
    Jobs,         \* run ids; uuid4, so an id is registered at most once
    Validation,   \* the jobs with purpose = "validation", one per upload
    Unowned,      \* the jobs whose spec has owner_id = None
    Hangs,        \* the jobs whose strategy code never returns to the engine
    MaxWorkers    \* settings.max_concurrent_runs

ASSUME JobsAssumption ==
    /\ Validation \subseteq Jobs
    /\ Unowned \subseteq Jobs
    /\ Hangs \subseteq Jobs

ASSUME WorkersAssumption == MaxWorkers \in Nat \ {0} /\ IsFiniteSet(Jobs)

VARIABLES
    (***** the manager object *****)
    pool,       \* the ProcessPoolExecutor: none, up, or broken by a dead worker
    ipc,        \* the multiprocessing Manager that serves the IPC dictionaries
    stop,       \* progress of shutdown(); closed once it is not "no"
    snap, todo, \* shutdown's snapshot of the jobs, and what is left to sweep
    reg,        \* the keys of _jobs
    job,        \* one _Job for each key
    worker,     \* progress of execute_report in the worker process
    req,        \* progress of the request that creates the job
    (***** the database *****)
    reports,    \* ids in app.backtest_reports
    row,        \* status of the upload's row in app.strategies
    attached,   \* uploads whose row carries validation_job_id
    (***** history *****)
    acked,      \* jobs a cancellation was accepted for ("cancel_requested")
    removed,    \* jobs whose saved report its owner deleted
    unsure,     \* jobs whose insert committed but whose commit raised
    unsettled   \* uploads whose verdict write the database refused

mgrVars    == <<pool, ipc, stop, snap, todo>>
rowVars    == <<row, attached, unsettled>>
reportVars == <<reports, removed, unsure>>
dbVars     == <<reportVars, rowVars>>
vars == <<mgrVars, reg, job, worker, req, dbVars, acked>>

Futures  == {"none", "pending", "running", "cancelled", "result", "broken"}
Statuses == {"none", "queued", "running", "completed", "failed"}
Workers  == {"idle", "called", "engine", "report", "error"}
Requests == {"idle", "row", "registered", "looked_up", "dispatched", "refused", "done"}
Rows     == {"absent", "validating", "active", "failed_validation"}

\* _Job.  status and cancel are its IPC dictionary; finished is finished_at, old
\* once it is longer ago than the TTL; callback is the progress of _on_done.
JobRecord ==
    [future : Futures, cancel : BOOLEAN, status : Statuses,
     detail : {"none", "failed", "completed"}, finished : {"no", "yes", "old"},
     saved : BOOLEAN, callback : {"idle", "committed", "over"}]

NewJob ==
    [future |-> "none", cancel |-> FALSE, status |-> "none", detail |-> "none",
     finished |-> "no", saved |-> FALSE, callback |-> "idle"]

TypeOK ==
    /\ pool \in {"none", "up", "broken"}
    /\ ipc \in {"none", "open"}
    /\ stop \in {"no", "closed", "sweeping", "pool_off"}
    /\ snap \subseteq Jobs /\ todo \subseteq Jobs /\ reg \subseteq Jobs
    /\ job \in [Jobs -> JobRecord]
    /\ worker \in [Jobs -> Workers]
    /\ req \in [Jobs -> Requests]
    /\ reports \subseteq Jobs /\ removed \subseteq Jobs /\ unsure \subseteq Jobs
    /\ row \in [Validation -> Rows]
    /\ attached \subseteq Validation /\ unsettled \subseteq Validation
    /\ acked \subseteq Jobs

-------------------------------------------------------------------------------
(* What the manager's methods read.                                         *)

closed  == stop # "no"
running == pool # "none" /\ ~closed
Down    == pool = "none" /\ ipc = "none" /\ stop = "no"

Unfinished(j) == job[j].finished = "no"
LockFree(j) == job[j].callback # "committed"

\* The keys _prune leaves in _jobs.
Pruned == {j \in reg : job[j].finished # "old"}

CallbackDue(j) ==
    job[j].future \in {"cancelled", "result", "broken"} /\ job[j].callback = "idle"

\* Mutant: get_detail reads the IPC status before the stored detail.
Poll_IgnoresDetail(j) ==
    IF j \in reg /\ ~job[j].saved THEN job[j].status
    ELSE IF j \in reports THEN "completed" ELSE "absent"

\* What the owner's poll answers: get_detail, then the report table.
Poll(j) ==
    IF j \in reg /\ ~job[j].saved
    THEN IF job[j].detail # "none" THEN job[j].detail ELSE job[j].status
    ELSE IF j \in reports THEN "completed" ELSE "absent"

\* live_summaries, for all owners.
Live == {j \in reg \ Validation : Unfinished(j) /\ ~job[j].saved}

-------------------------------------------------------------------------------
(* The parts the handlers share.                                            *)

\* _fail
Failed(r) == [r EXCEPT !.detail = "failed", !.status = "failed", !.finished = "yes"]

\* UPDATE app.strategies ... WHERE key = ...; no row, no write.
WriteVerdict(j, verdict) ==
    /\ row' = IF row[j] = "absent" THEN row ELSE [row EXCEPT ![j] = verdict]
    /\ attached' = IF row[j] = "absent" THEN attached ELSE attached \union {j}
    /\ UNCHANGED unsettled

\* The database refuses the write; the error is logged and swallowed.
LoseVerdict(j) ==
    /\ unsettled' = unsettled \union {j}
    /\ UNCHANGED <<row, attached>>

\* _settle_validation
Settle(j, passed) ==
    \/ j \notin Validation /\ UNCHANGED rowVars
    \/ j \in Validation /\ WriteVerdict(j, IF passed THEN "active" ELSE "failed_validation")
    \/ j \in Validation /\ LoseVerdict(j)

Advance(j, from, to) == req[j] = from /\ req' = [req EXCEPT ![j] = to]

-------------------------------------------------------------------------------
(* The requests: POST /strategies and POST /backtests.                      *)

\* submit_strategy: the row of a fresh upload, disabled until validated.
CreateStrategy(j) ==
    /\ j \in Validation
    /\ pool # "none"
    /\ Advance(j, "idle", "row")
    /\ row' = [row EXCEPT ![j] = "validating"]
    /\ UNCHANGED <<mgrVars, reg, job, worker, reportVars, attached, unsettled, acked>>

\* create_backtest_run up to and including register.
Register(j) ==
    /\ j \in Validation => req[j] = "row" /\ row[j] # "absent"
    /\ j \notin Validation => req[j] = "idle" /\ j \notin Unowned
    /\ running
    /\ reg' = Pruned \union {j}
    /\ job' = [job EXCEPT ![j] = [NewJob EXCEPT !.status = "queued"]]
    /\ req' = [req EXCEPT ![j] = "registered"]
    /\ UNCHANGED <<mgrVars, worker, dbVars, acked>>

\* start_validation raises before it has a job: no window, the strategy was
\* deleted meanwhile, or the manager is not running.
RegisterRefused(j) ==
    /\ Advance(j, "row", "refused")
    /\ UNCHANGED <<mgrVars, reg, job, worker, dbVars, acked>>

\* submit, first half: _lookup and the running check, before the job's lock.
SubmitLookup(j) ==
    /\ Advance(j, "registered", IF j \in Pruned /\ running THEN "looked_up" ELSE "refused")
    /\ reg' = Pruned
    /\ UNCHANGED <<mgrVars, job, worker, dbVars, acked>>

\* Mutant: submit does not look at finished_at under the lock.
SubmitAccepted_Unchecked(j) ==
    /\ pool = "up"
    /\ Advance(j, "looked_up", "dispatched")
    /\ job' = [job EXCEPT ![j].future = "pending"]
    /\ UNCHANGED <<mgrVars, reg, worker, dbVars, acked>>

SubmitAccepted(j) ==
    /\ Unfinished(j)
    /\ pool = "up"
    /\ Advance(j, "looked_up", "dispatched")
    /\ job' = [job EXCEPT ![j].future = "pending"]
    /\ UNCHANGED <<mgrVars, reg, worker, dbVars, acked>>

\* Mutant: a submit the pool refuses is only reported to the caller.
SubmitRaised_KeepsJob(j) ==
    /\ pool # "up"
    /\ Advance(j, "looked_up", "refused")
    /\ UNCHANGED <<mgrVars, reg, job, worker, dbVars, acked>>

\* The pool raised: broken, or gone since the lookup.
SubmitRaised(j) ==
    /\ Unfinished(j)
    /\ pool # "up"
    /\ Advance(j, "looked_up", "refused")
    /\ job' = [job EXCEPT ![j] = Failed(@)]
    /\ Settle(j, FALSE)
    /\ UNCHANGED <<mgrVars, reg, worker, reportVars, acked>>

\* Cancelled or swept by shutdown between the lookup and the lock.
SubmitFinished(j) ==
    /\ ~Unfinished(j)
    /\ Advance(j, "looked_up", "refused")
    /\ UNCHANGED <<mgrVars, reg, job, worker, dbVars, acked>>

\* _begin_validation after a dispatch: attach_validation_run, which writes
\* nothing when the row is gone; the request may also fail here.
Attach(j) ==
    /\ Advance(j, "dispatched", "done")
    /\ \/ UNCHANGED attached
       \/ j \in Validation /\ row[j] # "absent" /\ attached' = attached \union {j}
    /\ UNCHANGED <<mgrVars, reg, job, worker, reportVars, row, unsettled, acked>>

\* mark_validation_unstarted, whose database error is swallowed too.
MarkUnstarted(j) ==
    /\ Advance(j, "refused", "done")
    /\ \/ j \notin Validation /\ UNCHANGED rowVars
       \/ /\ j \in Validation
          /\ row' = [row EXCEPT ![j] = IF @ = "absent" THEN @ ELSE "failed_validation"]
          /\ UNCHANGED <<attached, unsettled>>
       \/ j \in Validation /\ LoseVerdict(j)
    /\ UNCHANGED <<mgrVars, reg, job, worker, reportVars, acked>>

-------------------------------------------------------------------------------
(* Cancelling and deleting.                                                 *)

\* A job nobody dispatched is failed on the spot: there will be no callback.
CancelUnsubmitted(j) ==
    /\ job[j].future = "none"
    /\ job' = [job EXCEPT ![j] = [Failed(@) EXCEPT !.cancel = TRUE]]
    /\ UNCHANGED rowVars

\* future.cancel() on a pending future runs the callback inside cancel, under
\* the same re-entrant lock.
CancelPending(j) ==
    /\ job[j].future = "pending"
    /\ job' = [job EXCEPT ![j] = [Failed(@) EXCEPT !.cancel = TRUE, !.future = "cancelled",
                                                   !.callback = "over"]]
    /\ Settle(j, FALSE)

\* Mutant: cancel relies on future.cancel() and sets no flag.
CancelStarted_NoFlag(j) ==
    /\ job[j].future \notin {"none", "pending"}
    /\ UNCHANGED <<job, rowVars>>

\* Executing, or done with its callback still waiting for the lock.
CancelStarted(j) ==
    /\ job[j].future \notin {"none", "pending"}
    /\ job' = [job EXCEPT ![j].cancel = TRUE]
    /\ UNCHANGED rowVars

CancelUnfinished(j) ==
    /\ Unfinished(j)
    /\ acked' = acked \union {j}
    /\ reg' = Pruned
    /\ CancelUnsubmitted(j) \/ CancelPending(j) \/ CancelStarted(j)

\* A finished job that saved nothing is dropped.
CancelFinished(j) ==
    /\ ~Unfinished(j)
    /\ reg' = Pruned \ {j}
    /\ UNCHANGED <<job, rowVars, acked>>

\* cancel, from DELETE /backtests/{id} or from the validation watchdog.  The id
\* of a user's job is known once it is registered (the live list), that of a
\* validation job once its request dispatched it.
Cancel(j) ==
    /\ j \in Pruned
    /\ j \in Validation => req[j] \in {"dispatched", "done"}
    /\ LockFree(j)
    /\ ~job[j].saved
    /\ CancelUnfinished(j) \/ CancelFinished(j)
    /\ UNCHANGED <<mgrVars, worker, req, reportVars>>

\* delete_backtest when the manager has nothing to cancel.
RemoveReport(j) ==
    /\ j \in reports
    /\ LockFree(j)
    /\ j \in Pruned => job[j].saved
    /\ reg' = Pruned
    /\ reports' = reports \ {j}
    /\ removed' = removed \union {j}
    /\ UNCHANGED <<mgrVars, job, worker, req, unsure, rowVars, acked>>

\* delete_strategy; a saved report restricts it.
DeleteStrategy(j) ==
    /\ j \in Validation /\ row[j] # "absent"
    /\ j \notin reports
    /\ row' = [row EXCEPT ![j] = "absent"]
    /\ attached' = attached \ {j}
    /\ UNCHANGED <<mgrVars, reg, job, worker, req, reportVars, unsettled, acked>>

\* TERMINAL_TTL_SECONDS pass.
Expire(j) ==
    /\ j \in reg /\ job[j].finished = "yes"
    /\ job' = [job EXCEPT ![j].finished = "old"]
    /\ UNCHANGED <<mgrVars, reg, worker, req, dbVars, acked>>

\* Any other call that only looks a job up: get_detail, live_summaries, a
\* cancel of somebody else's job.
Lookup ==
    /\ reg # Pruned /\ reg' = Pruned
    /\ UNCHANGED <<mgrVars, job, worker, req, dbVars, acked>>

-------------------------------------------------------------------------------
(* The process pool and its workers.                                        *)

Executing == {j \in Jobs : worker[j] = "engine"}
Called    == {j \in Jobs : job[j].future = "running"}

\* The executor moves a pending item to its call queue, which has one slot more
\* than there are workers; from then on the future cannot be cancelled.
PoolTake(j) ==
    /\ job[j].future = "pending"
    /\ Cardinality(Called) < MaxWorkers + 1
    /\ job' = [job EXCEPT ![j].future = "running"]
    /\ worker' = [worker EXCEPT ![j] = "called"]
    /\ UNCHANGED <<mgrVars, reg, req, dbVars, acked>>

\* The executor hands the worker's return value to the future.
Return(j, result) ==
    /\ worker' = [worker EXCEPT ![j] = result]
    /\ job' = [job EXCEPT ![j].future = IF @ = "running" THEN "result" ELSE @]

\* execute_report up to the engine.
WorkerBegin(j) ==
    /\ worker[j] = "called"
    /\ Cardinality(Executing) < MaxWorkers
    /\ \/ job[j].cancel /\ Return(j, "error")
       \/ /\ ~job[j].cancel
          /\ worker' = [worker EXCEPT ![j] = "engine"]
          /\ job' = [job EXCEPT ![j].status = "running"]
    /\ UNCHANGED <<mgrVars, reg, req, dbVars, acked>>

\* execute_report from the engine on.  The cancellation polls are throttled, so
\* a worker may return a complete report although the flag is set.
WorkerEnd(j) ==
    /\ worker[j] = "engine" /\ j \notin Hangs
    /\ \E result \in {"report", "error"} : Return(j, result)
    /\ UNCHANGED <<mgrVars, reg, req, dbVars, acked>>

\* A worker process dies: the executor is broken for good and every future it
\* still holds raises BrokenProcessPool.  The other workers run on until killed.
WorkerDies(j) ==
    /\ worker[j] = "engine" /\ job[j].future = "running"
    /\ worker' = [worker EXCEPT ![j] = "idle"]
    /\ pool' = IF pool = "up" THEN "broken" ELSE pool
    /\ job' = [k \in Jobs |->
                 [job[k] EXCEPT !.future = IF @ \in {"pending", "running"} THEN "broken" ELSE @]]
    /\ UNCHANGED <<ipc, stop, snap, todo, reg, req, dbVars, acked>>

WorkerKilled(j) ==
    /\ worker[j] \in {"called", "engine"} /\ job[j].future = "broken"
    /\ worker' = [worker EXCEPT ![j] = "idle"]
    /\ UNCHANGED <<mgrVars, reg, job, req, dbVars, acked>>

-------------------------------------------------------------------------------
(* _on_done.                                                                *)

\* Mutant: the callback trusts the worker to have seen the cancellation.
HasReport_IgnoresCancel(j) == job[j].future = "result" /\ worker[j] = "report" /\ ~closed

HasReport(j) ==
    job[j].future = "result" /\ worker[j] = "report" /\ ~closed /\ ~job[j].cancel

\* Mutant: the early return of a closed or cancelled job forgets to fail it.
OnDoneRejected_NotFinished(j) ==
    /\ CallbackDue(j) /\ ~HasReport(j)
    /\ job' = [job EXCEPT ![j].callback = "over"]
    /\ UNCHANGED <<mgrVars, reg, worker, req, dbVars, acked>>

\* Closed, cancelled, an error, or a future that raises.
OnDoneRejected(j) ==
    /\ CallbackDue(j) /\ ~HasReport(j)
    /\ job' = [job EXCEPT ![j] = [Failed(@) EXCEPT !.callback = "over"]]
    /\ Settle(j, FALSE)
    /\ UNCHANGED <<mgrVars, reg, worker, req, reportVars, acked>>

\* reports.save commits.  The report references its strategy.
OnDoneSave(j) ==
    /\ CallbackDue(j) /\ HasReport(j)
    /\ j \notin Unowned
    /\ j \in Validation => row[j] # "absent"
    /\ reports' = reports \union {j}
    /\ job' = [job EXCEPT ![j].callback = "committed"]
    /\ UNCHANGED <<mgrVars, reg, worker, req, removed, unsure, rowVars, acked>>

\* reports.save raises: the row was refused, or it was written and the
\* acknowledgement of the commit was lost.
OnDoneSaveRaised(j) ==
    /\ CallbackDue(j) /\ HasReport(j)
    /\ j \notin Unowned
    /\ \/ UNCHANGED <<reports, unsure>>
       \/ /\ j \in Validation => row[j] # "absent"
          /\ reports' = reports \union {j}
          /\ unsure' = unsure \union {j}
    /\ job' = [job EXCEPT ![j] = [Failed(@) EXCEPT !.callback = "over"]]
    /\ Settle(j, FALSE)
    /\ UNCHANGED <<mgrVars, reg, worker, req, removed, acked>>

Completed(r) == [r EXCEPT !.status = "completed", !.finished = "yes", !.callback = "over"]

\* Mutant: the saved flag is not set and the detail is kept in memory.
OnDoneSaved_KeepsDetail(j) ==
    /\ job[j].callback = "committed"
    /\ job' = [job EXCEPT ![j] = [Completed(@) EXCEPT !.detail = "completed"]]
    /\ Settle(j, TRUE)
    /\ UNCHANGED <<mgrVars, reg, worker, req, reportVars, acked>>

OnDoneSaved(j) ==
    /\ job[j].callback = "committed"
    /\ job' = [job EXCEPT ![j] = [Completed(@) EXCEPT !.saved = TRUE]]
    /\ Settle(j, TRUE)
    /\ UNCHANGED <<mgrVars, reg, worker, req, reportVars, acked>>

\* An internal validation has no personal report; its detail stays in memory.
OnDoneUnowned(j) ==
    /\ CallbackDue(j) /\ HasReport(j)
    /\ j \in Unowned
    /\ job' = [job EXCEPT ![j] = [Completed(@) EXCEPT !.detail = "completed"]]
    /\ Settle(j, TRUE)
    /\ UNCHANGED <<mgrVars, reg, worker, req, reportVars, acked>>

-------------------------------------------------------------------------------
(* shutdown(wait=False).                                                    *)

\* _closed is set without any lock.
ShutdownClose ==
    /\ running
    /\ stop' = "closed"
    /\ UNCHANGED <<pool, ipc, snap, todo, reg, job, worker, req, dbVars, acked>>

ShutdownSnapshot ==
    /\ stop = "closed" /\ stop' = "sweeping"
    /\ snap' = reg /\ todo' = reg
    /\ UNCHANGED <<pool, ipc, reg, job, worker, req, dbVars, acked>>

\* Mutant: the sweep flags jobs and leaves undispatched ones to their request.
ShutdownVisit_FlagOnly(j) ==
    /\ stop = "sweeping" /\ j \in todo
    /\ LockFree(j)
    /\ todo' = todo \ {j}
    /\ job' = [job EXCEPT ![j].cancel = TRUE]
    /\ UNCHANGED <<pool, ipc, stop, snap, reg, worker, req, dbVars, acked>>

ShutdownVisit(j) ==
    /\ stop = "sweeping" /\ j \in todo
    /\ LockFree(j)
    /\ todo' = todo \ {j}
    /\ \/ ~Unfinished(j) /\ UNCHANGED <<job, rowVars>>
       \/ /\ Unfinished(j) /\ job[j].future # "none"
          /\ job' = [job EXCEPT ![j].cancel = TRUE]
          /\ UNCHANGED rowVars
       \/ /\ Unfinished(j) /\ job[j].future = "none"
          /\ job' = [job EXCEPT ![j] = [Failed(@) EXCEPT !.cancel = TRUE]]
          /\ Settle(j, FALSE)
    /\ UNCHANGED <<pool, ipc, stop, snap, reg, worker, req, reportVars, acked>>

ShutdownPool ==
    /\ stop = "sweeping" /\ todo = {}
    /\ stop' = "pool_off" /\ pool' = "none"
    /\ UNCHANGED <<ipc, snap, todo, reg, job, worker, req, dbVars, acked>>

\* cancel_futures: the executor's own thread cancels what is still pending.
PoolCancels(j) ==
    /\ stop = "pool_off" /\ job[j].future = "pending"
    /\ job' = [job EXCEPT ![j].future = "cancelled"]
    /\ UNCHANGED <<mgrVars, reg, worker, req, dbVars, acked>>

\* Mutant: the IPC manager is closed as soon as the pool was told to stop.
CloseIpc_AtOnce ==
    /\ stop = "pool_off" /\ ipc = "open"
    /\ ipc' = "none"
    /\ UNCHANGED <<pool, stop, snap, todo, reg, job, worker, req, dbVars, acked>>

\* _close_when_finished
CloseIpc ==
    /\ stop = "pool_off" /\ ipc = "open"
    /\ \A j \in snap : ~Unfinished(j)
    /\ ipc' = "none"
    /\ UNCHANGED <<pool, stop, snap, todo, reg, job, worker, req, dbVars, acked>>

-------------------------------------------------------------------------------
(* The process ends, at any moment, and starts again.                       *)

Crash ==
    /\ ~Down
    /\ pool' = "none" /\ ipc' = "none" /\ stop' = "no"
    /\ snap' = {} /\ todo' = {} /\ reg' = {}
    /\ job' = [j \in Jobs |-> NewJob]
    /\ worker' = [j \in Jobs |-> "idle"]
    /\ req' = [j \in Jobs |-> IF req[j] = "idle" THEN "idle" ELSE "done"]
    /\ UNCHANGED <<dbVars, acked>>

\* Mutant: the CASE has no ELSE for rows without a report.
Recover_SavedOnly ==
    /\ row' = [j \in Validation |->
                 IF row[j] = "validating" /\ j \in attached \intersect reports
                 THEN "active" ELSE row[j]]
    /\ unsettled' = {}

\* Mutant: a run that was interrupted counts as passed.
Recover_AllPass ==
    /\ row' = [j \in Validation |->
                 IF row[j] = "validating" /\ j \in attached THEN "active" ELSE row[j]]
    /\ unsettled' = {}

\* _recover_validation_outcomes: a row still validating gets the verdict of the
\* report its validation_job_id names, or fails.
Recover ==
    /\ row' = [j \in Validation |->
                 IF row[j] = "validating" /\ j \in attached
                 THEN IF j \in reports THEN "active" ELSE "failed_validation"
                 ELSE row[j]]
    /\ unsettled' = {}

\* job_manager_lifespan: recovery, whose failure is logged, then start.
Boot ==
    /\ Down
    /\ \/ Recover
       \/ unsettled' = {j \in Validation : row[j] = "validating"} /\ UNCHANGED row
    /\ pool' = "up" /\ ipc' = "open"
    /\ UNCHANGED <<stop, snap, todo, reg, job, worker, req, reportVars, attached, acked>>

-------------------------------------------------------------------------------
Init ==
    /\ Down
    /\ snap = {} /\ todo = {} /\ reg = {}
    /\ job = [j \in Jobs |-> NewJob]
    /\ worker = [j \in Jobs |-> "idle"]
    /\ req = [j \in Jobs |-> "idle"]
    /\ reports = {} /\ removed = {} /\ unsure = {}
    /\ row = [j \in Validation |-> "absent"]
    /\ attached = {} /\ unsettled = {} /\ acked = {}

Request(j) ==
    \/ CreateStrategy(j) \/ Register(j) \/ RegisterRefused(j)
    \/ SubmitLookup(j) \/ SubmitAccepted(j) \/ SubmitRaised(j) \/ SubmitFinished(j)
    \/ Attach(j) \/ MarkUnstarted(j)

Client(j) == Cancel(j) \/ RemoveReport(j) \/ DeleteStrategy(j) \/ Expire(j)

PoolStep(j) ==
    \/ PoolTake(j) \/ WorkerBegin(j) \/ WorkerEnd(j) \/ WorkerDies(j) \/ WorkerKilled(j)
    \/ PoolCancels(j)

OnDone(j) ==
    \/ OnDoneRejected(j) \/ OnDoneSave(j) \/ OnDoneSaveRaised(j)
    \/ OnDoneSaved(j) \/ OnDoneUnowned(j)

Shutdown ==
    \/ ShutdownClose \/ ShutdownSnapshot \/ ShutdownPool \/ CloseIpc
    \/ \E j \in Jobs : ShutdownVisit(j)

Next ==
    \/ \E j \in Jobs : Request(j) \/ Client(j) \/ PoolStep(j) \/ OnDone(j)
    \/ Shutdown \/ Lookup \/ Crash \/ Boot

Spec == Init /\ [][Next]_vars

\* The threads, the executor and terminating strategy code make progress; users,
\* the clock, failures, shutdown's start and a restart are never forced.
Fairness ==
    /\ \A j \in Jobs :
        /\ WF_vars(SubmitLookup(j))
        /\ WF_vars(SubmitAccepted(j) \/ SubmitRaised(j) \/ SubmitFinished(j))
        /\ WF_vars(Attach(j) \/ MarkUnstarted(j))
        /\ WF_vars(PoolTake(j))
        /\ WF_vars(WorkerBegin(j))
        /\ WF_vars(WorkerEnd(j))
        /\ WF_vars(OnDone(j))
        /\ WF_vars(PoolCancels(j))
        /\ WF_vars(ShutdownVisit(j))
    /\ \A j \in Validation : WF_vars(Register(j) \/ RegisterRefused(j))
    /\ WF_vars(ShutdownSnapshot)
    /\ WF_vars(ShutdownPool)
    /\ WF_vars(CloseIpc)

FairSpec == Spec /\ Fairness

-------------------------------------------------------------------------------
(* Properties.                                                              *)

\* Cancel and the final save use the same lock: once DELETE answered that a
\* running job will be cancelled, its report never appears, whatever the worker
\* returns and across shutdown and restart (job_manager.cancel, _on_done).
CancelPreventsSave == acked \intersect reports = {}

\* A job that reached its final state is not in the pool any more: neither the
\* gap inside submit between lookup and lock nor the shutdown sweep lets a
\* finished job be dispatched or run on (submit, cancel, shutdown).
FinishedNeverExecutes ==
    \A j \in Jobs : ~Unfinished(j) => job[j].future \notin {"pending", "running"}

\* A request that is over leaves no job behind that is queued but was never
\* dispatched: such a job would stay in the live list and is never pruned.
NoOrphanedJob ==
    \A j \in reg :
        running /\ req[j] \in {"refused", "done"} /\ job[j].future = "none" => ~Unfinished(j)

\* "IPC must outlive running callbacks, including their final state write": once
\* the IPC manager is closed no registered job still has a write to make.
IpcOutlivesCallbacks ==
    ipc = "none" =>
        \A j \in Jobs : ~CallbackDue(j) /\ LockFree(j) /\ (j \in reg => ~Unfinished(j))

\* A run is answered from one place: a report in history belongs to a job that
\* recorded the save and that neither the live list nor a failed detail shows,
\* unless the acknowledgement of its commit was lost (get_detail, live_summaries).
RunInOnePlace ==
    \A j \in reg \intersect reports :
        LockFree(j) => \/ job[j].saved /\ job[j].detail = "none" /\ j \notin Live
                       \/ j \in unsure

\* Why these hold.  A job is dispatched by its one request; its callback runs
\* once, when its future is done; until then a dispatched job is unfinished, and an
\* unfinished one has neither detail nor save; what is both registered and saved is
\* finished; an accepted cancellation leaves the flag set, or its process is gone.
JobOK(j) ==
    /\ req[j] \in {"idle", "row"} => j \notin reg \union reports \union acked
    /\ req[j] \notin {"dispatched", "done"} => job[j].future = "none"
    /\ job[j].callback # "idle" => job[j].future \in {"cancelled", "result", "broken"}
    /\ job[j].future # "none" /\ job[j].callback # "over" => Unfinished(j)
    /\ Unfinished(j) => job[j].detail = "none" /\ ~job[j].saved
    /\ j \in reg \intersect reports /\ LockFree(j) =>
          ~Unfinished(j) /\ ((job[j].saved /\ job[j].detail = "none") \/ j \in unsure)
    /\ j \in acked => job[j].cancel \/ (req[j] = "done" /\ job[j].future = "none")
    /\ j \notin acked \intersect reports

JobInvariant == \A j \in Jobs : JobOK(j)

\* A strategy is active only if its validation report was saved, and parked as
\* failed only if none was (_settle_validation, _recover_validation_outcomes,
\* mark_validation_unstarted against the callback, in any order).
VerdictMatchesReport ==
    \A j \in Validation \ Unowned :
        /\ row[j] = "active" => j \in reports \union removed
        /\ row[j] = "failed_validation" => j \notin reports \/ j \in unsure

\* An upload still shown as validating, whose row names its run, has a run that
\* can still reach a verdict, or its verdict write was refused by the database.
NoStaleValidation ==
    \A j \in Validation :
        /\ running
        /\ row[j] = "validating"
        /\ j \in attached
        => (j \in reg /\ Unfinished(j)) \/ j \in unsettled

\* What a poll answers only moves forward: a terminal answer is kept until the
\* job is forgotten or deleted, and a running job is never queued again.  A
\* worker that outlives a broken pool still writes its status (get_detail).
PollMovesForward ==
    [][\A j \in Jobs :
        /\ Poll(j) \in {"completed", "failed"} =>
               Poll(j)' \in {Poll(j), "absent"} \/ j \in unsure'
        /\ Poll(j) = "running" => Poll(j)' # "queued"]_vars

\* A job the pool accepted reaches a final state, or its process ends, even while
\* other jobs hang in strategy code (fewer than there are workers).
DispatchedJobsEnd ==
    \A j \in Jobs \ Hangs :
        job[j].future # "none" ~> ~Unfinished(j) \/ Down

\* shutdown(wait=False) ends: the IPC manager is closed although callbacks,
\* submits and cancels were under way when it started, unless strategy code that
\* never returns keeps a worker.
ShutdownEnds == closed ~> ipc = "none" \/ \E j \in Hangs : worker[j] = "engine"

\* An upload leaves validating: with the verdict of its run, or because the run
\* could not be started, was cancelled, was lost with its pool or was swept by
\* shutdown; only a refused write or the end of the process can prevent it.
UploadSettles ==
    \A j \in Validation \ Hangs :
        row[j] = "validating" /\ req[j] # "done"
            ~> row[j] # "validating" \/ j \in unsettled \/ Down

\* The phase of a run as its owner sees it, for the abstract RunLifecycle.
PhaseOf(j) ==
    CASE j \in reports -> "saved"
      [] j \notin reports /\ j \in reg /\ Unfinished(j) -> "live"
      [] j \notin reports /\ j \in reg /\ ~Unfinished(j) /\ ~job[j].saved -> "ended"
      [] j \notin reports /\ j \notin reg /\ req[j] \in {"idle", "row"} -> "new"
      [] OTHER -> "gone"

Lifecycle == INSTANCE RunLifecycle WITH
    phase <- [j \in Jobs |-> PhaseOf(j)], cancelled <- acked

\* The manager implements the life cycle a client relies on.
RefinesLifecycle == Lifecycle!Spec

\* "strategy validation metadata is reconciled at startup": after a restart that
\* recovered, no upload of the previous process is still validating.
ReconciledAtStartup ==
    \A j \in Validation :
        /\ running
        /\ row[j] = "validating"
        /\ req[j] = "done"
        => (j \in reg /\ Unfinished(j)) \/ j \in unsettled
===============================================================================
