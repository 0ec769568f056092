----------------------------- MODULE RunRowProofs -----------------------------
(***************************************************************************)
(* Proofs about RunRow for every set of runs and of calls of run_job.      *)
(***************************************************************************)
EXTENDS RunRow, TLAPS

LEMMA OutcomeType ==
  ASSUME TypeOK, NEW r, NEW outcome, ApplyOutcome(r, outcome)
  PROVE  strategy' \in [Validation -> {"validating", "active", "failed_validation"}]
  BY DEF TypeOK, ApplyOutcome

\* Every state of a row, a call and a repair has the values the columns and the
\* control flow allow.
THEOREM TypeCorrect == Spec => []TypeOK
<1>1. Init => TypeOK
  BY DEF Init, TypeOK, Idle, Steps
<1>2. TypeOK /\ [Next]_vars => TypeOK'
  <2> SUFFICES ASSUME TypeOK, [Next]_vars PROVE TypeOK'
    OBVIOUS
  <2> USE DEF TypeOK, world, rowVars, Terminal, Present
  <2>1. CASE UNCHANGED vars
    BY <2>1 DEF vars
  <2>2. ASSUME NEW r \in Runs, Api(r) PROVE TypeOK'
    BY <2>2 DEF Api, create_run, delete_unclaimed_run, fail_unclaimed_run, request_cancel,
      delete_run
  <2>3. ASSUME NEW r \in Runs, GoesStale(r) \/ SettleInterrupted(r) PROVE TypeOK'
    BY <2>3, RunsAssumption, OutcomeType DEF GoesStale, SettleInterrupted
  <2>4. ASSUME NEW w \in Workers, run_job(w) PROVE TypeOK'
    <3>1. CASE Claim(w)
      BY <3>1 DEF Claim, Goto, Idle, Steps
    <3>2. CASE ClaimRaises(w) \/ Load(w) \/ EngineReturns(w)
      BY <3>2 DEF ClaimRaises, Load, EngineReturns, Goto, Steps
    <3>3. CASE Beat(w)
      BY <3>3 DEF Beat
    <3>4. CASE Persist(w)
      BY <3>4 DEF Persist, Goto, Ended, Steps
    <3>5. CASE Fail(w)
      BY <3>5 DEF Fail, Ended, Steps
    <3>6. CASE Verdict(w)
      BY <3>6, OutcomeType DEF Verdict, Idle, Steps
    <3> QED BY <2>4, <3>1, <3>2, <3>3, <3>4, <3>5, <3>6 DEF run_job
  <2>5. ASSUME NEW w \in Workers, WorkerDies(w) \/ fail_running_run(w) PROVE TypeOK'
    BY <2>5 DEF WorkerDies, fail_running_run, Goto, Ended, Idle, Steps
  <2>6. ASSUME NEW w \in Workers, NEW r \in Runs, Deliver(w, r) PROVE TypeOK'
    BY <2>6 DEF Deliver, Steps
  <2>7. CASE Reconcile
    <3>1. row' \in [Runs -> {"none", "queued", "running", "deleted"} \union Terminal]
      BY <2>7 DEF Reconcile
    <3> QED BY <2>7, <3>1 DEF Reconcile
  <2>8. CASE Crash
    BY <2>8 DEF Crash, Idle, Steps
  <2> QED BY <2>1, <2>2, <2>3, <2>4, <2>5, <2>6, <2>7, <2>8 DEF Next
<1> QED BY <1>1, <1>2, PTL DEF Spec
-------------------------------------------------------------------------------
(* The row invariant, action by action.                                     *)

LEMMA ApiKeepsRows ==
  ASSUME TypeOK, RowInvariant, NEW r \in Runs, Api(r)
  PROVE  RowInvariant'
<1> USE DEF TypeOK, world, Terminal, Present, RowInvariant, OwnedRowTaken, ClaimExclusive,
      CompletedHasResults, ResultsMatchStatus, VerdictMatchesRun, HealthyCall, HealthyStrategy,
      Owns, Alive, Claimed
<1>1. CASE create_run(r)
  BY <1>1 DEF create_run
<1>2. CASE delete_unclaimed_run(r)
  BY <1>2 DEF delete_unclaimed_run
<1>3. CASE fail_unclaimed_run(r)
  BY <1>3 DEF fail_unclaimed_run
<1>4. CASE request_cancel(r)
  BY <1>4 DEF request_cancel
<1>5. CASE delete_run(r)
  BY <1>5 DEF delete_run
<1> QED BY <1>1, <1>2, <1>3, <1>4, <1>5 DEF Api

LEMMA CallKeepsRows ==
  ASSUME TypeOK, RowInvariant, NEW w \in Workers, run_job(w)
  PROVE  RowInvariant'
<1> USE RunsAssumption DEF TypeOK, world, rowVars, Terminal, Present, RowInvariant, OwnedRowTaken,
      ClaimExclusive, CompletedHasResults, ResultsMatchStatus, VerdictMatchesRun, HealthyCall,
      HealthyStrategy, Owns, Alive, Claimed
<1>1. CASE Claim(w)
  BY <1>1, SMTT(30) DEF Claim, Goto, Idle
<1>2. CASE ClaimRaises(w)
  BY <1>2, SMTT(30) DEF ClaimRaises, Goto
<1>3. CASE Load(w)
  <2>1. CASE Goto(w, "engine")
    BY <1>3, <2>1, SMTT(30) DEF Load, Goto
  <2>2. CASE Goto(w, "fail")
    BY <1>3, <2>2, SMTT(30) DEF Load, Goto
  <2> QED BY <1>3, <2>1, <2>2 DEF Load
<1>4. CASE EngineReturns(w)
  <2>1. CASE Goto(w, "persist")
    BY <1>4, <2>1, SMTT(30) DEF EngineReturns, Goto
  <2>2. CASE Goto(w, "fail")
    BY <1>4, <2>2, SMTT(30) DEF EngineReturns, Goto
  <2> QED BY <1>4, <2>1, <2>2 DEF EngineReturns
<1>5. CASE Beat(w)
  BY <1>5, SMTT(30) DEF Beat
<1>6. CASE Persist(w)
  <2>1. CASE Ended(w, "completed") /\ UNCHANGED <<world, cancel, stale, strategy, settling>>
    BY <1>6, <2>1, SMTT(30) DEF Persist, Goto, Ended
  <2>2. CASE Goto(w, "fail") /\ UNCHANGED <<row, results>>
    BY <1>6, <2>2, SMTT(30) DEF Persist, Goto
  <2> QED BY <1>6, <2>1, <2>2 DEF Persist
<1>7. CASE Fail(w)
  BY <1>7, SMTT(30) DEF Fail, Ended
<1>8. CASE Verdict(w)
  BY <1>8, SMTT(30) DEF Verdict, ApplyOutcome, Idle
<1> QED BY <1>1, <1>2, <1>3, <1>4, <1>5, <1>6, <1>7, <1>8 DEF run_job

LEMMA RepairKeepsRows ==
  ASSUME TypeOK, RowInvariant,
         \/ \E r \in Runs : GoesStale(r) \/ SettleInterrupted(r)
         \/ \E w \in Workers : WorkerDies(w) \/ fail_running_run(w)
         \/ \E w \in Workers, r \in Runs : Deliver(w, r)
         \/ Reconcile \/ Crash
  PROVE  RowInvariant'
<1> USE RunsAssumption DEF TypeOK, world, rowVars, Terminal, Present, RowInvariant, OwnedRowTaken,
      ClaimExclusive, CompletedHasResults, ResultsMatchStatus, VerdictMatchesRun, HealthyCall,
      HealthyStrategy, Owns, Alive, Claimed
<1>1. ASSUME NEW r \in Runs, GoesStale(r) PROVE RowInvariant'
  BY <1>1, SMTT(30) DEF GoesStale
<1>2. ASSUME NEW r \in Runs, SettleInterrupted(r) PROVE RowInvariant'
  BY <1>2, SMTT(30) DEF SettleInterrupted, ApplyOutcome
<1>3. ASSUME NEW w \in Workers, WorkerDies(w) PROVE RowInvariant'
  BY <1>3, SMTT(30) DEF WorkerDies, Goto
<1>4. ASSUME NEW w \in Workers, fail_running_run(w) PROVE RowInvariant'
  BY <1>4, SMTT(30) DEF fail_running_run, Ended, Idle
<1>5. ASSUME NEW w \in Workers, NEW r \in Runs, Deliver(w, r) PROVE RowInvariant'
  BY <1>5, SMTT(30) DEF Deliver, Idle
<1>6. CASE Reconcile
  BY <1>6, SMTT(30) DEF Reconcile, Interrupted
<1>7. CASE Crash
  BY <1>7, SMTT(30) DEF Crash, Idle
<1> QED BY <1>1, <1>2, <1>3, <1>4, <1>5, <1>6, <1>7

\* RowInvariant is inductive together with the type invariant: however calls,
\* deaths, boots and the API's statements interleave, a run has one owner, and
\* without faults the writers of its row and of its verdict agree.
THEOREM RowInvariantHolds == Spec => []RowInvariant
<1>1. Init => RowInvariant
  BY RunsAssumption DEF Init, Idle, Terminal, Present, RowInvariant, OwnedRowTaken, ClaimExclusive,
     CompletedHasResults, ResultsMatchStatus, VerdictMatchesRun, HealthyCall, HealthyStrategy,
     Owns, Alive, Claimed
<1>2. TypeOK /\ RowInvariant /\ [Next]_vars => RowInvariant'
  <2> SUFFICES ASSUME TypeOK, RowInvariant, [Next]_vars PROVE RowInvariant'
    OBVIOUS
  <2>1. CASE UNCHANGED vars
    BY <2>1 DEF vars, world, rowVars, Terminal, Present, RowInvariant, OwnedRowTaken,
       ClaimExclusive, CompletedHasResults, ResultsMatchStatus, VerdictMatchesRun, HealthyCall,
       HealthyStrategy, Owns, Alive, Claimed
  <2>2. CASE Next
    BY <2>2, ApiKeepsRows, CallKeepsRows, RepairKeepsRows DEF Next
  <2> QED BY <2>1, <2>2
<1> QED BY <1>1, <1>2, TypeCorrect, PTL DEF Spec

\* The conditional UPDATE of _claim gives a run to one call of run_job, for any
\* number of calls and whatever goes wrong.
THEOREM OneCallExecutes == Spec => []ClaimExclusive
<1>1. RowInvariant => ClaimExclusive
  BY DEF RowInvariant
<1> QED BY <1>1, RowInvariantHolds, PTL

\* Whatever goes wrong, a row says completed only over stored results
\* (_persist_success, delete_run).
THEOREM CompletedRunsHaveResults == Spec => []CompletedHasResults
<1>1. RowInvariant => CompletedHasResults
  BY DEF RowInvariant
<1> QED BY <1>1, RowInvariantHolds, PTL

\* Without faults nobody deletes, fails or reconciles the row of a call that still
\* executes it (delete_unclaimed_run, fail_running_run, reconcile_interrupted_runs).
THEOREM ExecutedRowsStayRunning == Spec => []WorkerKeepsRow
<1>1. RowInvariant => WorkerKeepsRow
  BY DEF RowInvariant, HealthyCall, Alive, WorkerKeepsRow
<1> QED BY <1>1, RowInvariantHolds, PTL

\* Without faults the worker, the submitting process and the reconciler reach the
\* same verdict about a strategy (apply_validation_outcome).
THEOREM VerdictsAgree == Spec => []VerdictMatchesRun
<1>1. RowInvariant => VerdictMatchesRun
  BY DEF RowInvariant
<1> QED BY <1>1, RowInvariantHolds, PTL

\* Without faults a run that ended is deleted or stays as it ended, although _fail
\* and _persist_success write the row without looking at its status.
THEOREM EndedRunsStayEnded == Spec => HealthyRunsStayEnded
<1> DEFINE Stays == faults = {} => \A r \in Runs : StaysEnded(r)
<1>1. TypeOK /\ RowInvariant /\ [Next]_vars => [Stays]_vars
  <2> SUFFICES ASSUME TypeOK, RowInvariant, Next, faults = {}, NEW r \in Runs PROVE StaysEnded(r)
    BY DEF vars
  <2> USE DEF TypeOK, Terminal, StaysEnded
  <2>1. \A w \in Workers : Alive(w, r) => row[r] = "running"
    BY DEF RowInvariant, HealthyCall
  <2>2. ASSUME NEW s \in Runs, Api(s) PROVE StaysEnded(r)
    BY <2>2 DEF Api, create_run, delete_unclaimed_run, fail_unclaimed_run, request_cancel,
       delete_run
  <2>3. ASSUME NEW s \in Runs, GoesStale(s) \/ SettleInterrupted(s) PROVE StaysEnded(r)
    BY <2>3 DEF GoesStale, SettleInterrupted, rowVars
  <2>4. ASSUME NEW w \in Workers, run_job(w) PROVE StaysEnded(r)
    BY <2>1, <2>4 DEF run_job, Claim, ClaimRaises, Load, EngineReturns, Beat, Persist, Fail,
       Verdict, rowVars, Alive, Owns
  <2>5. ASSUME NEW w \in Workers, WorkerDies(w) \/ fail_running_run(w) PROVE StaysEnded(r)
    BY <2>5 DEF WorkerDies, fail_running_run, rowVars
  <2>6. ASSUME NEW w \in Workers, NEW s \in Runs, Deliver(w, s) PROVE StaysEnded(r)
    BY <2>6 DEF Deliver, rowVars
  <2>7. CASE Reconcile \/ Crash
    BY <2>7 DEF Reconcile, Interrupted, Crash, rowVars
  <2> QED BY <2>2, <2>3, <2>4, <2>5, <2>6, <2>7 DEF Next
<1> QED BY <1>1, TypeCorrect, RowInvariantHolds, PTL DEF Spec, HealthyRunsStayEnded
===============================================================================
