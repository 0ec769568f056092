-------------------------------- MODULE RunRow --------------------------------
(***************************************************************************)
(* The life of one row of app.backtest_runs: the worker entry point that   *)
(* claims it, executes it and leaves it terminal (src/workers/run_job.py), *)
(* the statements of the API (repositories/runs.py) and the repair of the  *)
(* table at a boot (workers/reconciler.py).                                *)
(*                                                                         *)
(* One action is one transaction.  A call of run_job is a process of its   *)
(* own; the same run may be handed to two of them, because a boot requeues *)
(* every queued row and another API instance may still hold the job.       *)
(***************************************************************************)
EXTENDS Integers, FiniteSets

CONSTANTS
    Runs,
    Validation,  \* the runs with purpose = 'validation'
    Workers,     \* bound: calls of run_job at one time
    Faults       \* what may go wrong besides deaths and restarts

ASSUME RunsAssumption ==
    /\ Validation \subseteq Runs
    /\ Faults \subseteq {"claim_raises", "dies_early", "missed_beats"}

VARIABLES
    up,        \* the API process runs
    row,       \* status of the run's row
    cancel,    \* runs with cancel_requested
    stale,     \* runs whose heartbeat_at is older than the cutoff
    results,   \* runs with metrics, equity and trade rows
    strategy,  \* status of the strategy a validation run proves
    call,      \* one call of run_job: where it is, for which run
    faults,    \* what does go wrong in this behaviour
    settling   \* what _settle_interrupted_validations has left to do

world == <<up, faults>>
rowVars == <<row, cancel, stale, results>>
vars == <<world, rowVars, strategy, call, settling>>

Terminal == {"completed", "failed"}
Present == {r \in Runs : row[r] \notin {"none", "deleted"}}
Idle == [at |-> "idle", run |-> "none", outcome |-> "none"]

Steps == {"idle", "claim", "load", "engine", "persist", "fail", "verdict", "dead"}

TypeOK ==
    /\ up \in BOOLEAN
    /\ row \in [Runs -> {"none", "queued", "running", "deleted"} \union Terminal]
    /\ cancel \subseteq Runs /\ stale \subseteq Runs /\ results \subseteq Runs
    /\ strategy \in [Validation -> {"validating", "active", "failed_validation"}]
    /\ call \in [Workers -> [at : Steps, run : Runs \union {"none"},
                             outcome : Terminal \union {"none"}]]
    /\ settling \subseteq Validation
    /\ faults \subseteq Faults

\* The call is past its claim and before its last write of the row.
Owns(w, r) == call[w].run = r /\ call[w].at \in {"load", "engine", "persist"}

\* The call is alive and has claimed the run: it beats, or is about to.
Alive(w, r) == Owns(w, r) \/ (call[w].run = r /\ call[w].at = "fail")

Goto(w, step) == call' = [call EXCEPT ![w].at = step]

\* The row is written, the strategy's verdict is not.
Ended(w, outcome) ==
    call' = [call EXCEPT ![w] = [at |-> "verdict", run |-> call[w].run, outcome |-> outcome]]

-------------------------------------------------------------------------------
(* The API.                                                                 *)

create_run(r) ==
    /\ up /\ row[r] = "none"
    /\ row' = [row EXCEPT ![r] = "queued"]
    /\ UNCHANGED <<world, cancel, stale, results, strategy, call, settling>>

\* A request submits the run it created, or a boot hands a queued row back to
\* the pool (orphaned_queued_run_ids).
Deliver(w, r) ==
    /\ up /\ row[r] = "queued" /\ call[w] = Idle
    /\ call' = [call EXCEPT ![w] = [at |-> "claim", run |-> r, outcome |-> "none"]]
    /\ UNCHANGED <<world, rowVars, strategy, settling>>

\* Mutant: the delete does not carry the status predicate.
delete_unclaimed_run_Any(r) ==
    /\ up /\ row[r] \in {"queued", "running"}
    /\ row' = [row EXCEPT ![r] = "deleted"]
    /\ UNCHANGED <<world, cancel, stale, results, strategy, call, settling>>

delete_unclaimed_run(r) ==
    /\ up /\ row[r] = "queued"
    /\ row' = [row EXCEPT ![r] = "deleted"]
    /\ UNCHANGED <<world, cancel, stale, results, strategy, call, settling>>

\* The job manager refused the run.
fail_unclaimed_run(r) ==
    /\ up /\ row[r] = "queued"
    /\ row' = [row EXCEPT ![r] = "failed"]
    /\ UNCHANGED <<world, cancel, stale, results, strategy, call, settling>>

request_cancel(r) ==
    /\ up /\ r \in Present \ cancel
    /\ cancel' = cancel \union {r}
    /\ UNCHANGED <<world, row, stale, results, strategy, call, settling>>

\* A terminal run is really deleted, with everything it produced.
delete_run(r) ==
    /\ up /\ row[r] \in Terminal
    /\ row' = [row EXCEPT ![r] = "deleted"]
    /\ results' = results \ {r}
    /\ UNCHANGED <<world, cancel, stale, strategy, call, settling>>

-------------------------------------------------------------------------------
(* run_job.                                                                 *)

\* Mutant: the claim takes whatever row it finds.
Claim_Unconditional(w) ==
    /\ call[w].at = "claim"
    /\ IF call[w].run \in Present
       THEN /\ row' = [row EXCEPT ![call[w].run] = "running"]
            /\ stale' = stale \ {call[w].run}
            /\ Goto(w, "load")
       ELSE call' = [call EXCEPT ![w] = Idle] /\ UNCHANGED <<row, stale>>
    /\ UNCHANGED <<world, cancel, results, strategy, settling>>

\* _claim: UPDATE ... WHERE status = 'queued', or the call is skipped.
Claim(w) ==
    /\ call[w].at = "claim"
    /\ IF row[call[w].run] = "queued"
       THEN /\ row' = [row EXCEPT ![call[w].run] = "running"]
            /\ stale' = stale \ {call[w].run}
            /\ Goto(w, "load")
       ELSE call' = [call EXCEPT ![w] = Idle] /\ UNCHANGED <<row, stale>>
    /\ UNCHANGED <<world, cancel, results, strategy, settling>>

\* The schema check or the claim raises: the outermost handler fails the run,
\* whoever executes it.
ClaimRaises(w) ==
    /\ "claim_raises" \in faults
    /\ call[w].at = "claim"
    /\ Goto(w, "fail")
    /\ UNCHANGED <<world, rowVars, strategy, settling>>

\* _load_context and the first, unthrottled poll of the cancellation flag.  Both
\* a context that cannot be loaded and a cancelled run end in _fail.
Load(w) ==
    /\ call[w].at = "load"
    /\ \/ call[w].run \in Present \ cancel /\ Goto(w, "engine")
       \/ Goto(w, "fail")
    /\ UNCHANGED <<world, rowVars, strategy, settling>>

\* run_single returns; a late cancellation may go unseen.
EngineReturns(w) ==
    /\ call[w].at = "engine"
    /\ Goto(w, "persist") \/ Goto(w, "fail")
    /\ UNCHANGED <<world, rowVars, strategy, settling>>

\* _beat_forever, from the engine's start until the call is over.
Beat(w) ==
    /\ call[w].at \in {"engine", "persist", "fail"} /\ call[w].run \in stale
    /\ stale' = stale \ {call[w].run}
    /\ UNCHANGED <<world, row, cancel, results, strategy, call, settling>>

\* _persist_success: one transaction, which fails when the row is gone.
Persist(w) ==
    /\ call[w].at = "persist"
    /\ \/ /\ call[w].run \in Present
          /\ row' = [row EXCEPT ![call[w].run] = "completed"]
          /\ results' = results \union {call[w].run}
          /\ Ended(w, "completed")
       \/ Goto(w, "fail") /\ UNCHANGED <<row, results>>
    /\ UNCHANGED <<world, cancel, stale, strategy, settling>>

\* _fail: no predicate on the status, and a database error is swallowed.
Fail(w) ==
    /\ call[w].at = "fail"
    /\ \/ UNCHANGED row
       \/ call[w].run \in Present /\ row' = [row EXCEPT ![call[w].run] = "failed"]
    /\ Ended(w, "failed")
    /\ UNCHANGED <<world, cancel, stale, results, strategy, settling>>

\* apply_validation_outcome: the strategy is found through the run's row, and a
\* database error is swallowed.
ApplyOutcome(r, outcome) ==
    \/ UNCHANGED strategy
    \/ /\ r \in Validation \intersect Present
       /\ strategy' = [strategy EXCEPT ![r] =
                         IF outcome = "completed" THEN "active" ELSE "failed_validation"]

Verdict(w) ==
    /\ call[w].at = "verdict"
    /\ ApplyOutcome(call[w].run, call[w].outcome)
    /\ call' = [call EXCEPT ![w] = Idle]
    /\ UNCHANGED <<world, rowVars, settling>>

-------------------------------------------------------------------------------
(* Death, restart, repair.                                                  *)

\* A worker process dies.  Whether it had claimed its run is all the same to it.
WorkerDies(w) ==
    /\ call[w].at \notin {"idle", "dead"}
    /\ call[w].at = "claim" => "dies_early" \in faults
    /\ Goto(w, "dead")
    /\ UNCHANGED <<world, rowVars, strategy, settling>>

\* Mutant: the dead worker's run is failed whatever its status.
fail_running_run_Any(w) ==
    /\ call[w].at = "dead"
    /\ IF call[w].run \in Present
       THEN /\ row' = [row EXCEPT ![call[w].run] = "failed"]
            /\ Ended(w, "failed")
       ELSE call' = [call EXCEPT ![w] = Idle] /\ UNCHANGED row
    /\ UNCHANGED <<world, cancel, stale, results, strategy, settling>>

\* The submitting process learns of the death and writes the row for the worker,
\* then the verdict.
fail_running_run(w) ==
    /\ call[w].at = "dead"
    /\ IF row[call[w].run] = "running"
       THEN /\ row' = [row EXCEPT ![call[w].run] = "failed"]
            /\ Ended(w, "failed")
       ELSE call' = [call EXCEPT ![w] = Idle] /\ UNCHANGED row
    /\ UNCHANGED <<world, cancel, stale, results, strategy, settling>>

\* The grace window passes without a beat.  Beats of a live worker arrive unless
\* the run may miss them.
GoesStale(r) ==
    /\ row[r] = "running" /\ r \notin stale
    /\ "missed_beats" \in faults \/ \A w \in Workers : ~Alive(w, r)
    /\ stale' = stale \union {r}
    /\ UNCHANGED <<world, row, cancel, results, strategy, call, settling>>

\* Mutant: every running row is failed, beating or not.
Interrupted_AllRunning == {r \in Runs : row[r] = "running"}

\* The rows _stale_cutoff condemns.
Interrupted == {r \in stale : row[r] = "running"}

\* reconcile_interrupted_runs at the boot of this or of another instance.
Reconcile ==
    /\ settling = {}
    /\ up' = TRUE
    /\ row' = [r \in Runs |-> IF r \in Interrupted THEN "failed" ELSE row[r]]
    /\ settling' = Interrupted \intersect Validation
    /\ UNCHANGED <<faults, cancel, stale, results, strategy, call>>

\* One turn of _settle_interrupted_validations.
SettleInterrupted(r) ==
    /\ r \in settling
    /\ ApplyOutcome(r, "failed")
    /\ settling' = settling \ {r}
    /\ UNCHANGED <<world, rowVars, call>>

\* The process goes away, with its workers and its repair.
Crash ==
    /\ up /\ up' = FALSE
    /\ call' = [w \in Workers |-> Idle]
    /\ settling' = {}
    /\ UNCHANGED <<faults, rowVars, strategy>>

Init ==
    /\ up = TRUE
    /\ row = [r \in Runs |-> "none"]
    /\ cancel = {} /\ stale = {} /\ results = {}
    /\ strategy = [r \in Validation |-> "validating"]
    /\ call = [w \in Workers |-> Idle]
    /\ settling = {}
    /\ faults \in SUBSET Faults

Api(r) ==
    \/ create_run(r) \/ delete_unclaimed_run(r) \/ fail_unclaimed_run(r)
    \/ request_cancel(r) \/ delete_run(r)

run_job(w) ==
    \/ Claim(w) \/ ClaimRaises(w) \/ Load(w) \/ EngineReturns(w) \/ Beat(w)
    \/ Persist(w) \/ Fail(w) \/ Verdict(w)

Next ==
    \/ \E r \in Runs : Api(r) \/ GoesStale(r) \/ SettleInterrupted(r)
    \/ \E w \in Workers : run_job(w) \/ WorkerDies(w) \/ fail_running_run(w)
    \/ \E w \in Workers, r \in Runs : Deliver(w, r)
    \/ Reconcile \/ Crash

Spec == Init /\ [][Next]_vars

-------------------------------------------------------------------------------
(* Properties.                                                              *)

\* "exactly one sees a row count of 1" (_claim): however often a run is handed
\* out, one call executes it.
ClaimExclusive ==
    \A r \in Runs, w1, w2 \in Workers : Owns(w1, r) /\ Owns(w2, r) => w1 = w2

\* "Saying completed with no metrics, curve, or trades would be a lie": whatever
\* goes wrong, a completed run has its results.
CompletedHasResults == {r \in Runs : row[r] = "completed"} \subseteq results

\* "No window exists in which a running worker loses its row"
\* (delete_unclaimed_run), nor one in which somebody else ends its run, as long as
\* beats arrive and no call is lost before its claim.
WorkerKeepsRow ==
    faults = {} => \A r \in Runs, w \in Workers : Owns(w, r) => row[r] = "running"

\* "All of it or none of it" (_persist_success): then a run has results exactly
\* while its row says completed.
ResultsMatchStatus == faults = {} => results = {r \in Runs : row[r] = "completed"}

\* "Every caller must reach the same conclusion" (apply_validation_outcome): then
\* the worker, the submitting process and the reconciler never leave a strategy
\* with a verdict its run contradicts.
VerdictMatchesRun ==
    faults = {} =>
        \A r \in Validation \intersect Present :
            /\ strategy[r] = "active" => row[r] = "completed"
            /\ strategy[r] = "failed_validation" => row[r] # "completed"

\* Why these hold.  Whatever goes wrong, a row that one call owns was queued for the
\* last time.  Without faults only claimed calls write: no two of them hold one run,
\* a living one finds its row running, fresh and without a verdict, and what is
\* still to be written as a verdict or by the repair agrees with the row.
Claimed(w, r) == call[w].run = r /\ call[w].at \notin {"idle", "claim"}

OwnedRowTaken ==
    \A r \in Runs, w \in Workers : Owns(w, r) => row[r] \notin {"none", "queued"}

HealthyCall(w, r) ==
    /\ Claimed(w, r) => row[r] \notin {"none", "queued"}
    /\ \A other \in Workers : Claimed(w, r) /\ Claimed(other, r) => w = other
    /\ Alive(w, r) => row[r] = "running" /\ r \notin stale
    /\ Alive(w, r) /\ r \in Validation => strategy[r] = "validating"
    /\ call[w].run = r /\ call[w].at = "verdict" =>
          \/ call[w].outcome = "completed" /\ row[r] \in {"completed", "deleted"}
          \/ call[w].outcome = "failed" /\ row[r] # "completed"

HealthyStrategy(r) ==
    /\ row[r] \in {"none", "queued"} => strategy[r] = "validating"
    /\ r \in settling => row[r] \in {"failed", "deleted"}

RowInvariant ==
    /\ OwnedRowTaken /\ ClaimExclusive /\ CompletedHasResults
    /\ faults = {} => /\ \A r \in Runs, w \in Workers : HealthyCall(w, r)
                      /\ \A r \in Validation : HealthyStrategy(r)
    /\ ResultsMatchStatus /\ VerdictMatchesRun

StaysEnded(r) == row[r] \in Terminal => row'[r] \in {row[r], "deleted"}

\* Then a run that ended is deleted or stays as it ended.
HealthyRunsStayEnded == [][faults = {} => \A r \in Runs : StaysEnded(r)]_vars
===============================================================================
