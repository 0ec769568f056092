--------------------------- MODULE JobManagerProofs ---------------------------
(***************************************************************************)
(* Proofs about JobManager for every set of jobs, every split of them into *)
(* user and validation runs and every number of workers.                   *)
(***************************************************************************)
EXTENDS JobManager, TLAPS

(* Record updates the handlers share keep a job a job.                      *)

LEMMA NewJobType == /\ NewJob \in JobRecord
                    /\ [NewJob EXCEPT !.status = "queued"] \in JobRecord
  BY DEF NewJob, JobRecord, Futures, Statuses

LEMMA FailedType ==
  ASSUME NEW r \in JobRecord
  PROVE  /\ Failed(r) \in JobRecord
         /\ [Failed(r) EXCEPT !.cancel = TRUE] \in JobRecord
         /\ [Failed(r) EXCEPT !.callback = "over"] \in JobRecord
         /\ [Failed(r) EXCEPT !.cancel = TRUE, !.future = "cancelled", !.callback = "over"]
              \in JobRecord
  BY DEF Failed, JobRecord, Futures, Statuses

LEMMA CompletedType ==
  ASSUME NEW r \in JobRecord
  PROVE  /\ [Completed(r) EXCEPT !.saved = TRUE] \in JobRecord
         /\ [Completed(r) EXCEPT !.detail = "completed"] \in JobRecord
  BY DEF Completed, JobRecord, Futures, Statuses

LEMMA SettleType ==
  ASSUME TypeOK, NEW j \in Jobs, NEW passed \in BOOLEAN, Settle(j, passed)
  PROVE  /\ row' \in [Validation -> Rows]
         /\ attached' \subseteq Validation
         /\ unsettled' \subseteq Validation
  BY DEF TypeOK, Settle, WriteVerdict, LoseVerdict, rowVars, Rows

(* The type invariant, action by action.                                    *)

LEMMA RequestType ==
  ASSUME TypeOK, NEW j \in Jobs, Request(j)
  PROVE  TypeOK'
<1> USE DEF TypeOK, Advance, mgrVars, dbVars, rowVars, reportVars
<1>1. CASE CreateStrategy(j)
  BY <1>1 DEF CreateStrategy, Requests, Rows
<1>2. CASE Register(j)
  BY <1>2, NewJobType DEF Register, Pruned, Requests
<1>3. CASE RegisterRefused(j)
  BY <1>3 DEF RegisterRefused, Requests
<1>4. CASE SubmitLookup(j)
  BY <1>4 DEF SubmitLookup, Pruned, Requests
<1>5. CASE SubmitAccepted(j)
  BY <1>5 DEF SubmitAccepted, Requests, JobRecord, Futures
<1>6. CASE SubmitRaised(j)
  BY <1>6, FailedType, SettleType DEF SubmitRaised, Requests
<1>7. CASE SubmitFinished(j)
  BY <1>7 DEF SubmitFinished, Requests
<1>8. CASE Attach(j)
  BY <1>8 DEF Attach, Requests
<1>9. CASE MarkUnstarted(j)
  BY <1>9 DEF MarkUnstarted, LoseVerdict, Requests, Rows
<1> QED BY <1>1, <1>2, <1>3, <1>4, <1>5, <1>6, <1>7, <1>8, <1>9 DEF Request

LEMMA ClientType ==
  ASSUME TypeOK, NEW j \in Jobs, Client(j)
  PROVE  TypeOK'
<1> USE DEF TypeOK, mgrVars, dbVars, rowVars, reportVars
<1>1. CASE Cancel(j)
  <2>1. CASE CancelUnfinished(j) /\ CancelUnsubmitted(j)
    BY <1>1, <2>1, FailedType DEF Cancel, CancelUnfinished, CancelUnsubmitted, Pruned
  <2>2. CASE CancelUnfinished(j) /\ CancelPending(j)
    BY <1>1, <2>2, FailedType, SettleType DEF Cancel, CancelUnfinished, CancelPending, Pruned
  <2>3. CASE CancelUnfinished(j) /\ CancelStarted(j)
    <3>1. job' \in [Jobs -> JobRecord]
      BY <2>3 DEF CancelStarted, JobRecord
    <3> QED BY <1>1, <2>3, <3>1 DEF Cancel, CancelUnfinished, CancelStarted, Pruned
  <2>4. CASE CancelFinished(j)
    BY <1>1, <2>4 DEF Cancel, CancelFinished, Pruned
  <2> QED BY <1>1, <2>1, <2>2, <2>3, <2>4 DEF Cancel, CancelUnfinished
<1>2. CASE RemoveReport(j)
  BY <1>2 DEF RemoveReport, Pruned
<1>3. CASE DeleteStrategy(j)
  BY <1>3 DEF DeleteStrategy, Rows
<1>4. CASE Expire(j)
  BY <1>4 DEF Expire, JobRecord
<1> QED BY <1>1, <1>2, <1>3, <1>4 DEF Client

LEMMA ReturnType ==
  ASSUME TypeOK, NEW j \in Jobs, NEW result, Return(j, result)
  PROVE  job' \in [Jobs -> JobRecord]
<1>1. [job[j] EXCEPT !.future = IF @ = "running" THEN "result" ELSE @] \in JobRecord
  BY DEF TypeOK, JobRecord, Futures
<1> QED BY <1>1 DEF TypeOK, Return

LEMMA PoolType ==
  ASSUME TypeOK, NEW j \in Jobs, PoolStep(j)
  PROVE  TypeOK'
<1> USE DEF TypeOK, mgrVars, dbVars, rowVars, reportVars
<1>1. CASE PoolTake(j)
  <2>1. [job[j] EXCEPT !.future = "running"] \in JobRecord
    BY DEF JobRecord, Futures
  <2> QED BY <1>1, <2>1 DEF PoolTake, Workers
<1>2. CASE WorkerBegin(j)
  <2>1. worker' \in [Jobs -> Workers]
    BY <1>2 DEF WorkerBegin, Return, Workers
  <2>2. CASE Return(j, "error")
    BY <1>2, <2>1, <2>2, ReturnType DEF WorkerBegin
  <2>3. CASE job' = [job EXCEPT ![j].status = "running"]
    <3>1. job' \in [Jobs -> JobRecord]
      BY <2>3 DEF JobRecord, Statuses
    <3> QED BY <1>2, <2>1, <3>1 DEF WorkerBegin
  <2> QED BY <1>2, <2>2, <2>3 DEF WorkerBegin
<1>3. CASE WorkerEnd(j)
  <2>1. worker' \in [Jobs -> Workers]
    BY <1>3 DEF WorkerEnd, Return, Workers
  <2> QED BY <1>3, <2>1, ReturnType DEF WorkerEnd
<1>4. CASE WorkerDies(j)
  <2>1. \A k \in Jobs :
          [job[k] EXCEPT !.future = IF @ \in {"pending", "running"} THEN "broken" ELSE @]
            \in JobRecord
    BY DEF JobRecord, Futures
  <2>2. job' \in [Jobs -> JobRecord]
    BY <1>4, <2>1 DEF WorkerDies
  <2> QED BY <1>4, <2>2 DEF WorkerDies, Workers
<1>5. CASE WorkerKilled(j)
  BY <1>5 DEF WorkerKilled, Workers
<1>6. CASE PoolCancels(j)
  <2>1. [job[j] EXCEPT !.future = "cancelled"] \in JobRecord
    BY DEF JobRecord, Futures
  <2> QED BY <1>6, <2>1 DEF PoolCancels
<1> QED BY <1>1, <1>2, <1>3, <1>4, <1>5, <1>6 DEF PoolStep

LEMMA OnDoneType ==
  ASSUME TypeOK, NEW j \in Jobs, OnDone(j)
  PROVE  TypeOK'
<1> USE DEF TypeOK, mgrVars, dbVars, rowVars, reportVars
<1>1. CASE OnDoneRejected(j)
  BY <1>1, FailedType, SettleType DEF OnDoneRejected
<1>2. CASE OnDoneSave(j)
  BY <1>2 DEF OnDoneSave, JobRecord
<1>3. CASE OnDoneSaveRaised(j)
  BY <1>3, FailedType, SettleType DEF OnDoneSaveRaised
<1>4. CASE OnDoneSaved(j)
  BY <1>4, CompletedType, SettleType DEF OnDoneSaved
<1>5. CASE OnDoneUnowned(j)
  BY <1>5, CompletedType, SettleType DEF OnDoneUnowned
<1> QED BY <1>1, <1>2, <1>3, <1>4, <1>5 DEF OnDone

LEMMA ProcessType ==
  ASSUME TypeOK, Shutdown \/ Lookup \/ Crash \/ Boot
  PROVE  TypeOK'
<1> USE DEF TypeOK, mgrVars, dbVars, rowVars, reportVars
<1>1. CASE ShutdownClose
  BY <1>1 DEF ShutdownClose
<1>2. CASE ShutdownSnapshot
  BY <1>2 DEF ShutdownSnapshot
<1>3. CASE ShutdownPool
  BY <1>3 DEF ShutdownPool
<1>4. CASE CloseIpc
  BY <1>4 DEF CloseIpc
<1>5. ASSUME NEW j \in Jobs, ShutdownVisit(j)
      PROVE  TypeOK'
  <2>1. CASE ~Unfinished(j)
    BY <1>5, <2>1 DEF ShutdownVisit
  <2>2. CASE Unfinished(j) /\ job[j].future # "none"
    <3>1. job' = [job EXCEPT ![j].cancel = TRUE]
      BY <1>5, <2>2 DEF ShutdownVisit
    <3>2. job' \in [Jobs -> JobRecord]
      BY <3>1 DEF JobRecord
    <3> QED BY <1>5, <2>2, <3>2 DEF ShutdownVisit
  <2>3. CASE Unfinished(j) /\ job[j].future = "none"
    <3>1. /\ job' = [job EXCEPT ![j] = [Failed(@) EXCEPT !.cancel = TRUE]]
          /\ Settle(j, FALSE)
      BY <1>5, <2>3 DEF ShutdownVisit
    <3>2. job' \in [Jobs -> JobRecord]
      BY <3>1, FailedType
    <3> QED BY <1>5, <3>1, <3>2, SettleType DEF ShutdownVisit
  <2> QED BY <2>1, <2>2, <2>3
<1>6. CASE Lookup
  BY <1>6 DEF Lookup, Pruned
<1>7. CASE Crash
  BY <1>7, NewJobType DEF Crash, Workers, Requests
<1>8. CASE Boot
  BY <1>8 DEF Boot, Recover, Rows
<1> QED BY <1>1, <1>2, <1>3, <1>4, <1>5, <1>6, <1>7, <1>8 DEF Shutdown

\* Every state of the manager, the pool and the two tables is well formed,
\* whatever interleaving of requests, callbacks, shutdown and crashes led to it.
THEOREM TypeCorrect == Spec => []TypeOK
<1>1. Init => TypeOK
  BY NewJobType DEF Init, Down, TypeOK, Workers, Requests, Rows
<1>2. TypeOK /\ [Next]_vars => TypeOK'
  <2> SUFFICES ASSUME TypeOK, [Next]_vars PROVE TypeOK'
    OBVIOUS
  <2>1. CASE UNCHANGED vars
    BY <2>1 DEF vars, mgrVars, dbVars, rowVars, reportVars, TypeOK
  <2> QED BY <2>1, RequestType, ClientType, PoolType, OnDoneType, ProcessType DEF Next
<1> QED BY <1>1, <1>2, PTL DEF Spec

(* The inductive invariant.  A step changes the record of one job, except for *)
(* a worker's death and a crash; the other jobs keep theirs.                  *)

LEMMA Frame ==
  ASSUME NEW k \in Jobs, JobOK(k), job'[k] = job[k], req'[k] = req[k],
         k \in reg' => k \in reg, k \in reports' => k \in reports,
         k \in unsure => k \in unsure', k \in acked' <=> k \in acked
  PROVE  JobOK(k)'
  BY DEF JobOK, Unfinished, LockFree

\* The fields that the shared record updates set and keep.
LEMMA FailedFields ==
  ASSUME NEW r \in JobRecord
  PROVE  /\ Failed(r).future = r.future /\ Failed(r).callback = r.callback
         /\ Failed(r).cancel = r.cancel /\ Failed(r).saved = r.saved
         /\ Failed(r).finished = "yes" /\ Failed(r).detail = "failed"
  BY DEF Failed, JobRecord

LEMMA RequestJobOK ==
  ASSUME TypeOK, JobInvariant, NEW j \in Jobs, Request(j)
  PROVE  JobInvariant'
<1> SUFFICES ASSUME NEW k \in Jobs PROVE JobOK(k)'
  BY DEF JobInvariant
<1> JobOK(k) /\ JobOK(j)
  BY DEF JobInvariant
<1> USE DEF Advance, mgrVars, dbVars, rowVars, reportVars
<1>1. CASE CreateStrategy(j)
  BY <1>1 DEF CreateStrategy, JobOK, Unfinished, LockFree, TypeOK
<1>2. CASE Register(j)
  <2>1. CASE k # j
    BY <1>2, <2>1, Frame DEF Register, Pruned, TypeOK
  <2>2. CASE k = j
    BY <1>2, <2>2 DEF Register, Pruned, NewJob, JobOK, Unfinished, LockFree, TypeOK
  <2> QED BY <2>1, <2>2
<1>3. CASE RegisterRefused(j)
  BY <1>3 DEF RegisterRefused, JobOK, Unfinished, LockFree, TypeOK
<1>4. CASE SubmitLookup(j)
  BY <1>4 DEF SubmitLookup, Pruned, JobOK, Unfinished, LockFree, TypeOK
<1>5. CASE SubmitAccepted(j)
  <2>1. CASE k # j
    BY <1>5, <2>1, Frame DEF SubmitAccepted, TypeOK
  <2>2. CASE k = j
    BY <1>5, <2>2 DEF SubmitAccepted, JobOK, Unfinished, LockFree, TypeOK, JobRecord
  <2> QED BY <2>1, <2>2
<1>6. CASE SubmitRaised(j)
  <2>1. CASE k # j
    BY <1>6, <2>1, Frame DEF SubmitRaised, TypeOK
  <2>2. CASE k = j
    BY <1>6, <2>2, FailedFields DEF SubmitRaised, JobOK, Unfinished, LockFree, TypeOK
  <2> QED BY <2>1, <2>2
<1>7. CASE SubmitFinished(j)
  BY <1>7 DEF SubmitFinished, JobOK, Unfinished, LockFree, TypeOK
<1>8. CASE Attach(j)
  BY <1>8 DEF Attach, JobOK, Unfinished, LockFree, TypeOK
<1>9. CASE MarkUnstarted(j)
  BY <1>9 DEF MarkUnstarted, JobOK, Unfinished, LockFree, TypeOK
<1> QED BY <1>1, <1>2, <1>3, <1>4, <1>5, <1>6, <1>7, <1>8, <1>9 DEF Request

LEMMA ClientJobOK ==
  ASSUME TypeOK, JobInvariant, NEW j \in Jobs, Client(j)
  PROVE  JobInvariant'
<1> SUFFICES ASSUME NEW k \in Jobs PROVE JobOK(k)'
  BY DEF JobInvariant
<1> JobOK(k) /\ JobOK(j)
  BY DEF JobInvariant
<1> USE DEF mgrVars, dbVars, rowVars, reportVars
<1>1. CASE Cancel(j)
  <2>1. CASE k # j
    <3>1. job'[k] = job[k] /\ (k \in reg' => k \in reg) /\ (k \in acked' <=> k \in acked)
      BY <1>1, <2>1 DEF Cancel, CancelUnfinished, CancelUnsubmitted, CancelPending,
                        CancelStarted, CancelFinished, Pruned, TypeOK
    <3> QED BY <1>1, <3>1, Frame DEF Cancel
  <2>2. CASE k = j /\ CancelUnfinished(j) /\ CancelUnsubmitted(j)
    <3>1. job'[j] = [Failed(job[j]) EXCEPT !.cancel = TRUE]
      BY <2>2 DEF CancelUnsubmitted, TypeOK
    <3>2. /\ job'[j].future = "none" /\ job'[j].callback = job[j].callback
          /\ job'[j].cancel /\ job'[j].finished = "yes"
      BY <2>2, <3>1 DEF CancelUnsubmitted, Failed, TypeOK, JobRecord
    <3>3. /\ j \in reg /\ LockFree(j) /\ Unfinished(j) /\ acked' = acked \union {j}
          /\ UNCHANGED <<req, reports, unsure>>
      BY <1>1, <2>2 DEF Cancel, CancelUnfinished, Pruned
    <3>4. j \notin reports /\ job[j].future = "none"
      BY <2>2, <3>3 DEF CancelUnsubmitted, JobOK
    <3> QED BY <2>2, <3>2, <3>3, <3>4 DEF JobOK, Unfinished, LockFree
  <2>3. CASE k = j /\ CancelUnfinished(j) /\ CancelPending(j)
    <3>1. job'[j] = [Failed(job[j]) EXCEPT !.cancel = TRUE, !.future = "cancelled",
                                           !.callback = "over"]
      BY <2>3 DEF CancelPending, TypeOK
    <3>2. /\ job'[j].future = "cancelled" /\ job'[j].callback = "over"
          /\ job'[j].cancel /\ job'[j].finished = "yes"
      BY <2>3, <3>1 DEF Failed, TypeOK, JobRecord
    <3> QED BY <1>1, <2>3, <3>2 DEF Cancel, CancelUnfinished, CancelPending, Pruned,
                                    JobOK, Unfinished, LockFree
  <2>4. CASE k = j /\ CancelUnfinished(j) /\ CancelStarted(j)
    <3>1. job'[j] = [job[j] EXCEPT !.cancel = TRUE]
      BY <2>4 DEF CancelStarted, TypeOK
    <3>2. /\ job'[j].future = job[j].future /\ job'[j].callback = job[j].callback
          /\ job'[j].cancel /\ job'[j].finished = job[j].finished
          /\ job'[j].detail = job[j].detail /\ job'[j].saved = job[j].saved
      BY <3>1 DEF TypeOK, JobRecord
    <3>3. /\ j \in reg /\ LockFree(j) /\ Unfinished(j) /\ acked' = acked \union {j}
          /\ UNCHANGED <<req, reports, unsure>>
      BY <1>1, <2>4 DEF Cancel, CancelUnfinished, Pruned
    <3> QED BY <2>4, <3>2, <3>3 DEF JobOK, Unfinished, LockFree
  <2>5. CASE k = j /\ CancelFinished(j)
    BY <1>1, <2>5, Frame DEF Cancel, CancelFinished, Pruned
  <2> QED BY <1>1, <2>1, <2>2, <2>3, <2>4, <2>5 DEF Cancel, CancelUnfinished
<1>2. CASE RemoveReport(j)
  BY <1>2, Frame DEF RemoveReport, Pruned
<1>3. CASE DeleteStrategy(j)
  BY <1>3, Frame DEF DeleteStrategy
<1>4. CASE Expire(j)
  <2>1. CASE k # j
    BY <1>4, <2>1, Frame DEF Expire, TypeOK
  <2>2. CASE k = j
    BY <1>4, <2>2 DEF Expire, JobOK, Unfinished, LockFree, TypeOK, JobRecord
  <2> QED BY <2>1, <2>2
<1> QED BY <1>1, <1>2, <1>3, <1>4 DEF Client

\* A pool step moves futures forward and touches nothing else of a job.
LEMMA PoolFrame ==
  ASSUME NEW k \in Jobs, JobOK(k), req'[k] = req[k], UNCHANGED <<reg, reports, unsure, acked>>,
         \/ job'[k].future = job[k].future
         \/ /\ job[k].future \in {"pending", "running"}
            /\ job'[k].future \in {"running", "cancelled", "result", "broken"},
         job'[k].callback = job[k].callback, job'[k].cancel = job[k].cancel,
         job'[k].finished = job[k].finished, job'[k].detail = job[k].detail,
         job'[k].saved = job[k].saved
  PROVE  JobOK(k)'
  BY DEF JobOK, Unfinished, LockFree

LEMMA PoolJobOK ==
  ASSUME TypeOK, JobInvariant, NEW j \in Jobs, PoolStep(j)
  PROVE  JobInvariant'
<1> SUFFICES ASSUME NEW k \in Jobs PROVE JobOK(k)'
  BY DEF JobInvariant
<1> JobOK(k) /\ JobOK(j)
  BY DEF JobInvariant
<1> USE DEF mgrVars, dbVars, rowVars, reportVars
<1>1. CASE PoolTake(j)
  BY <1>1, PoolFrame DEF PoolTake, TypeOK, JobRecord
<1>2. CASE WorkerBegin(j)
  <2>1. CASE Return(j, "error")
    BY <1>2, <2>1, PoolFrame DEF WorkerBegin, Return, TypeOK, JobRecord
  <2>2. CASE job' = [job EXCEPT ![j].status = "running"]
    BY <1>2, <2>2, PoolFrame DEF WorkerBegin, TypeOK, JobRecord
  <2> QED BY <1>2, <2>1, <2>2 DEF WorkerBegin
<1>3. CASE WorkerEnd(j)
  BY <1>3, PoolFrame DEF WorkerEnd, Return, TypeOK, JobRecord
<1>4. CASE WorkerDies(j)
  <2>1. job'[k] = [job[k] EXCEPT !.future = IF @ \in {"pending", "running"} THEN "broken" ELSE @]
    BY <1>4 DEF WorkerDies
  <2>2. /\ job'[k].future = IF job[k].future \in {"pending", "running"} THEN "broken"
                            ELSE job[k].future
        /\ job'[k].callback = job[k].callback /\ job'[k].cancel = job[k].cancel
        /\ job'[k].finished = job[k].finished /\ job'[k].detail = job[k].detail
        /\ job'[k].saved = job[k].saved
    BY <2>1 DEF TypeOK, JobRecord
  <2> QED BY <1>4, <2>2, PoolFrame DEF WorkerDies
<1>5. CASE WorkerKilled(j)
  BY <1>5, Frame DEF WorkerKilled
<1>6. CASE PoolCancels(j)
  BY <1>6, PoolFrame DEF PoolCancels, TypeOK, JobRecord
<1> QED BY <1>1, <1>2, <1>3, <1>4, <1>5, <1>6 DEF PoolStep

LEMMA OnDoneJobOK ==
  ASSUME TypeOK, JobInvariant, NEW j \in Jobs, OnDone(j)
  PROVE  JobInvariant'
<1> SUFFICES ASSUME NEW k \in Jobs PROVE JobOK(k)'
  BY DEF JobInvariant
<1> JobOK(k) /\ JobOK(j)
  BY DEF JobInvariant
<1> USE DEF mgrVars, dbVars, rowVars, reportVars
<1>1. CASE k # j
  <2>1. job'[k] = job[k]
    BY <1>1 DEF OnDone, OnDoneRejected, OnDoneSave, OnDoneSaveRaised, OnDoneSaved,
                OnDoneUnowned, TypeOK
  <2>2. (k \in reports' <=> k \in reports) /\ (k \in unsure => k \in unsure')
    BY <1>1 DEF OnDone, OnDoneRejected, OnDoneSave, OnDoneSaveRaised, OnDoneSaved, OnDoneUnowned
  <2>3. UNCHANGED <<reg, req, acked>>
    BY DEF OnDone, OnDoneRejected, OnDoneSave, OnDoneSaveRaised, OnDoneSaved, OnDoneUnowned
  <2> QED BY <2>1, <2>2, <2>3, Frame
<1>2. CASE k = j /\ OnDoneRejected(j)
  <2>1. job'[j] = [Failed(job[j]) EXCEPT !.callback = "over"]
    BY <1>2 DEF OnDoneRejected, TypeOK
  <2>2. /\ job'[j].future = job[j].future /\ job'[j].callback = "over"
        /\ job'[j].cancel = job[j].cancel /\ job'[j].finished = "yes"
    BY <2>1 DEF Failed, TypeOK, JobRecord
  <2> QED BY <1>2, <2>2 DEF OnDoneRejected, CallbackDue, JobOK, Unfinished, LockFree
<1>3. CASE k = j /\ OnDoneSave(j)
  <2>1. /\ job'[j].future = job[j].future /\ job'[j].callback = "committed"
        /\ job'[j].cancel = job[j].cancel /\ job'[j].finished = job[j].finished
        /\ job'[j].detail = job[j].detail /\ job'[j].saved = job[j].saved
    BY <1>3 DEF OnDoneSave, TypeOK, JobRecord
  <2> QED BY <1>3, <2>1 DEF OnDoneSave, CallbackDue, HasReport, JobOK, Unfinished, LockFree
<1>4. CASE k = j /\ OnDoneSaveRaised(j)
  <2>1. job'[j] = [Failed(job[j]) EXCEPT !.callback = "over"]
    BY <1>4 DEF OnDoneSaveRaised, TypeOK
  <2>2. /\ job'[j].future = job[j].future /\ job'[j].callback = "over"
        /\ job'[j].cancel = job[j].cancel /\ job'[j].finished = "yes"
    BY <2>1 DEF Failed, TypeOK, JobRecord
  <2> QED BY <1>4, <2>2 DEF OnDoneSaveRaised, CallbackDue, HasReport, JobOK, Unfinished, LockFree
<1>5. CASE k = j /\ OnDoneSaved(j)
  <2>1. job'[j] = [Completed(job[j]) EXCEPT !.saved = TRUE]
    BY <1>5 DEF OnDoneSaved, TypeOK
  <2>2. /\ job'[j].future = job[j].future /\ job'[j].callback = "over"
        /\ job'[j].cancel = job[j].cancel /\ job'[j].finished = "yes"
        /\ job'[j].detail = job[j].detail /\ job'[j].saved = TRUE
    BY <2>1 DEF Completed, TypeOK, JobRecord
  <2> QED BY <1>5, <2>2 DEF OnDoneSaved, JobOK, Unfinished, LockFree
<1>6. CASE k = j /\ OnDoneUnowned(j)
  <2>1. job'[j] = [Completed(job[j]) EXCEPT !.detail = "completed"]
    BY <1>6 DEF OnDoneUnowned, TypeOK
  <2>2. /\ job'[j].future = job[j].future /\ job'[j].callback = "over"
        /\ job'[j].cancel = job[j].cancel /\ job'[j].finished = "yes"
    BY <2>1 DEF Completed, TypeOK, JobRecord
  <2> QED BY <1>6, <2>2 DEF OnDoneUnowned, CallbackDue, JobOK, Unfinished, LockFree
<1> QED BY <1>1, <1>2, <1>3, <1>4, <1>5, <1>6 DEF OnDone

LEMMA ProcessJobOK ==
  ASSUME TypeOK, JobInvariant, Shutdown \/ Lookup \/ Crash \/ Boot
  PROVE  JobInvariant'
<1> SUFFICES ASSUME NEW k \in Jobs PROVE JobOK(k)'
  BY DEF JobInvariant
<1> JobOK(k)
  BY DEF JobInvariant
<1> USE DEF mgrVars, dbVars, rowVars, reportVars
<1>1. CASE ShutdownClose \/ ShutdownSnapshot \/ ShutdownPool \/ CloseIpc
  BY <1>1, Frame DEF ShutdownClose, ShutdownSnapshot, ShutdownPool, CloseIpc
<1>2. ASSUME NEW j \in Jobs, ShutdownVisit(j)
      PROVE  JobOK(k)'
  <2>1. UNCHANGED <<reg, req, reports, unsure, acked>>
    BY <1>2 DEF ShutdownVisit
  <2>2. CASE UNCHANGED job \/ k # j
    <3>1. job'[k] = job[k]
      BY <1>2, <2>2 DEF ShutdownVisit, TypeOK
    <3> QED BY <2>1, <3>1, Frame
  <2>3. CASE k = j /\ Unfinished(j) /\ job[j].future # "none"
    <3>1. job'[j] = [job[j] EXCEPT !.cancel = TRUE]
      BY <1>2, <2>3 DEF ShutdownVisit, TypeOK
    <3>2. /\ job'[j].future = job[j].future /\ job'[j].callback = job[j].callback
          /\ job'[j].cancel /\ job'[j].finished = job[j].finished
          /\ job'[j].detail = job[j].detail /\ job'[j].saved = job[j].saved
      BY <3>1 DEF TypeOK, JobRecord
    <3> QED BY <2>1, <2>3, <3>2 DEF JobOK, Unfinished, LockFree
  <2>4. CASE k = j /\ Unfinished(j) /\ job[j].future = "none"
    <3>1. job'[j] = [Failed(job[j]) EXCEPT !.cancel = TRUE]
      BY <1>2, <2>4 DEF ShutdownVisit, TypeOK
    <3>2. /\ job'[j].future = "none" /\ job'[j].callback = job[j].callback
          /\ job'[j].cancel /\ job'[j].finished = "yes"
      BY <2>4, <3>1 DEF Failed, TypeOK, JobRecord
    <3> QED BY <1>2, <2>1, <2>4, <3>2 DEF ShutdownVisit, JobOK, Unfinished, LockFree
  <2> QED BY <1>2, <2>2, <2>3, <2>4 DEF ShutdownVisit
<1>3. CASE Lookup
  BY <1>3, Frame DEF Lookup, Pruned
<1>4. CASE Crash
  BY <1>4 DEF Crash, NewJob, JobOK, Unfinished, LockFree
<1>5. CASE Boot
  BY <1>5, Frame DEF Boot
<1> QED BY <1>1, <1>2, <1>3, <1>4, <1>5 DEF Shutdown

\* JobInvariant is inductive together with the type invariant: no interleaving of
\* requests, cancels, callbacks, pool failures, shutdown, crashes and restarts
\* breaks what submit, cancel and _on_done assume of a job.
THEOREM JobInvariantHolds == Spec => []JobInvariant
<1>1. Init => JobInvariant
  BY DEF Init, NewJob, JobInvariant, JobOK, Unfinished, LockFree
<1>2. TypeOK /\ JobInvariant /\ [Next]_vars => JobInvariant'
  <2> SUFFICES ASSUME TypeOK, JobInvariant, [Next]_vars PROVE JobInvariant'
    OBVIOUS
  <2>1. CASE UNCHANGED vars
    BY <2>1, Frame DEF vars, mgrVars, dbVars, rowVars, reportVars, JobInvariant
  <2> QED BY <2>1, RequestJobOK, ClientJobOK, PoolJobOK, OnDoneJobOK, ProcessJobOK DEF Next
<1> QED BY <1>1, <1>2, TypeCorrect, PTL DEF Spec

\* An accepted cancellation excludes the report of the run (cancel and the save
\* in _on_done take the same lock), for any number of jobs and workers.
THEOREM CancelExcludesSave == Spec => []CancelPreventsSave
<1>1. TypeOK /\ JobInvariant => CancelPreventsSave
  BY DEF TypeOK, JobInvariant, JobOK, CancelPreventsSave
<1> QED BY <1>1, TypeCorrect, JobInvariantHolds, PTL

\* A finished job is neither waiting in the pool nor executing in it.
THEOREM FinishedStaysFinished == Spec => []FinishedNeverExecutes
<1>1. TypeOK /\ JobInvariant => FinishedNeverExecutes
  BY DEF TypeOK, JobRecord, JobInvariant, JobOK, FinishedNeverExecutes, Unfinished
<1> QED BY <1>1, TypeCorrect, JobInvariantHolds, PTL

\* A run in saved history is not also shown live or failed from memory, unless
\* the acknowledgement of its commit was lost.
THEOREM AnsweredFromOnePlace == Spec => []RunInOnePlace
<1>1. TypeOK /\ JobInvariant => RunInOnePlace
  BY DEF TypeOK, JobInvariant, JobOK, RunInOnePlace, Live
<1> QED BY <1>1, TypeCorrect, JobInvariantHolds, PTL

-------------------------------------------------------------------------------
(* What becomes of a run: no job is orphaned, the IPC manager outlives every  *)
(* callback, a strategy's verdict matches its report, no upload stays         *)
(* validating.                                                                *)

(* The inductive invariant.                                                 *)

\* The manager: the IPC manager is there exactly from start to the end of
\* shutdown, and nothing is registered behind the sweep's snapshot.
ManagerOK ==
    /\ ipc = "none" => pool = "none"
    /\ pool = "none" => (ipc = "none" /\ stop = "no") \/ stop = "pool_off"
    /\ stop = "pool_off" => pool = "none"
    /\ stop \in {"sweeping", "pool_off"} => reg \subseteq snap
    /\ Down => reg = {}

\* A job: the manager holds it while it is unfinished; a request that is over left
\* it dispatched or finished; only its callback saves its report, and once.
RunOK(j) ==
    /\ j \notin reg /\ Unfinished(j) =>
          job[j].future = "none" /\ req[j] \notin {"registered", "looked_up"}
    /\ req[j] = "dispatched" => job[j].future # "none"
    /\ running /\ j \in reg /\ req[j] \in {"refused", "done"} /\ job[j].future = "none" =>
          ~Unfinished(j)
    /\ ipc = "none" /\ Unfinished(j) => job[j].future = "none" /\ j \notin reg
    /\ req[j] \in {"idle", "row"} => Unfinished(j) /\ job[j].callback = "idle"
    /\ Down => /\ Unfinished(j) /\ job[j].callback = "idle"
               /\ job[j].future = "none" /\ req[j] \in {"idle", "done"}
    /\ j \in todo /\ Unfinished(j) => j \in reg
    /\ job[j].callback = "committed" => j \in reports
    /\ j \in reports =>
          /\ req[j] \in {"dispatched", "done"}
          /\ job[j].future # "none" => job[j].callback # "idle"

\* An upload: its row is there before its run; a row that was failed has a run
\* that will not save; a row that stays validating has a run under way.
UploadOK(j) ==
    /\ req[j] = "idle" => row[j] = "absent"
    /\ row[j] = "absent" => j \notin attached
    /\ row[j] = "failed_validation" =>
          \/ job[j].callback = "over"
          \/ job[j].future = "none" /\ (req[j] \in {"refused", "done"} \/ ~Unfinished(j))
    /\ j \notin Unowned =>
          /\ row[j] = "active" => j \in reports \union removed
          /\ row[j] = "failed_validation" => j \notin reports \/ j \in unsure
    /\ running /\ row[j] = "validating" /\ (j \in attached \/ job[j].future # "none") =>
          (j \in reg /\ Unfinished(j)) \/ j \in unsettled

OutcomeInvariant ==
    /\ ManagerOK
    /\ \A j \in Jobs : RunOK(j)
    /\ \A j \in Validation : UploadOK(j)

-------------------------------------------------------------------------------
(* What a step leaves alone.                                                *)

\* The shared record updates in terms of their fields.
LEMMA FailedViews ==
  ASSUME NEW r \in JobRecord,
         NEW s \in {[Failed(r) EXCEPT !.cancel = TRUE], [Failed(r) EXCEPT !.callback = "over"]}
  PROVE  /\ s.finished = "yes" /\ s.detail = "failed" /\ s.status = "failed"
         /\ s.future = r.future /\ s.saved = r.saved
         /\ s.callback \in {r.callback, "over"}
  BY DEF Failed, JobRecord

LEMMA CompletedViews ==
  ASSUME NEW r \in JobRecord,
         NEW s \in {[Completed(r) EXCEPT !.saved = TRUE],
                    [Completed(r) EXCEPT !.detail = "completed"]}
  PROVE  /\ s.finished = "yes" /\ s.future = r.future /\ s.callback = "over"
         /\ s.status = "completed"
  BY DEF Completed, JobRecord

\* A verdict or its loss concerns one row.
LEMMA SettleOthers ==
  ASSUME TypeOK, NEW j \in Jobs, NEW passed \in BOOLEAN, Settle(j, passed),
         NEW k \in Validation, k # j
  PROVE  /\ row'[k] = row[k]
         /\ k \in attached' <=> k \in attached
         /\ k \in unsettled' <=> k \in unsettled
  BY DEF TypeOK, Settle, WriteVerdict, LoseVerdict, rowVars

\* After a verdict the row is gone, or carries it, or the write was refused.
LEMMA SettleSelf ==
  ASSUME TypeOK, NEW j \in Validation, NEW passed \in BOOLEAN, Settle(j, passed)
  PROVE  \/ /\ row'[j] = row[j] /\ (j \in attached' <=> j \in attached)
            /\ j \in unsettled' \/ row[j] = "absent"
         \/ /\ row[j] # "absent" /\ j \in attached'
            /\ row'[j] = IF passed THEN "active" ELSE "failed_validation"
  BY DEF TypeOK, Settle, WriteVerdict, LoseVerdict, rowVars

\* Nothing of job k moves; it may be pruned when it is finished.
Untouched(k) ==
    /\ job'[k] = job[k] /\ req'[k] = req[k]
    /\ k \in reports' <=> k \in reports
    /\ k \in removed' <=> k \in removed
    /\ k \in unsure' <=> k \in unsure
    /\ k \in acked' <=> k \in acked
    /\ k \in reg' => k \in reg
    /\ k \in reg /\ Unfinished(k) => k \in reg'

SameRow(k) ==
    /\ row'[k] = row[k]
    /\ k \in attached' <=> k \in attached
    /\ k \in unsettled' <=> k \in unsettled

\* A request, a client's call, a callback and a visit of the sweep concern one job
\* and leave the manager alone.
LEMMA OneJobMoves ==
  ASSUME TypeOK, NEW j \in Jobs, NEW k \in Jobs, k # j,
         Request(j) \/ Client(j) \/ OnDone(j) \/ ShutdownVisit(j)
  PROVE  Untouched(k) /\ (k \in Validation => SameRow(k))
<1> USE DEF TypeOK, Untouched, SameRow, Pruned, Unfinished, Advance, mgrVars, dbVars, rowVars,
            reportVars
<1>1. CASE Request(j)
  <2>1. CASE CreateStrategy(j) \/ Register(j) \/ RegisterRefused(j) \/ SubmitLookup(j)
    BY <2>1 DEF CreateStrategy, Register, RegisterRefused, SubmitLookup
  <2>2. CASE SubmitAccepted(j) \/ SubmitFinished(j) \/ Attach(j)
    BY <2>2 DEF SubmitAccepted, SubmitFinished, Attach
  <2>3. CASE SubmitRaised(j)
    BY <2>3, SettleOthers DEF SubmitRaised
  <2>4. CASE MarkUnstarted(j)
    BY <2>4 DEF MarkUnstarted, LoseVerdict
  <2> QED BY <1>1, <2>1, <2>2, <2>3, <2>4 DEF Request
<1>2. CASE Client(j)
  <2>1. CASE Cancel(j)
    <3>1. CASE CancelUnfinished(j) /\ CancelPending(j)
      BY <2>1, <3>1, SettleOthers DEF Cancel, CancelUnfinished, CancelPending
    <3>2. CASE CancelUnfinished(j) /\ (CancelUnsubmitted(j) \/ CancelStarted(j))
      BY <2>1, <3>2 DEF Cancel, CancelUnfinished, CancelUnsubmitted, CancelStarted
    <3>3. CASE CancelFinished(j)
      BY <2>1, <3>3 DEF Cancel, CancelFinished
    <3> QED BY <2>1, <3>1, <3>2, <3>3 DEF Cancel, CancelUnfinished
  <2>2. CASE RemoveReport(j) \/ DeleteStrategy(j) \/ Expire(j)
    BY <2>2 DEF RemoveReport, DeleteStrategy, Expire
  <2> QED BY <1>2, <2>1, <2>2 DEF Client
<1>3. CASE OnDone(j)
  <2>1. CASE OnDoneRejected(j) \/ OnDoneSaveRaised(j)
    BY <2>1, SettleOthers DEF OnDoneRejected, OnDoneSaveRaised
  <2>2. CASE OnDoneSave(j)
    BY <2>2 DEF OnDoneSave
  <2>3. CASE OnDoneSaved(j) \/ OnDoneUnowned(j)
    BY <2>3, SettleOthers DEF OnDoneSaved, OnDoneUnowned
  <2> QED BY <1>3, <2>1, <2>2, <2>3 DEF OnDone
<1>4. CASE ShutdownVisit(j)
  BY <1>4, SettleOthers DEF ShutdownVisit
<1> QED BY <1>1, <1>2, <1>3, <1>4

-------------------------------------------------------------------------------
(* The manager.                                                             *)

LEMMA ManagerKept ==
  ASSUME OutcomeInvariant, [Next]_vars
  PROVE  ManagerOK'
<1> ManagerOK
  BY DEF OutcomeInvariant
<1> USE DEF ManagerOK, Down, running, closed, mgrVars
<1>1. CASE reg' \subseteq reg /\ UNCHANGED <<pool, ipc, stop, snap>>
  BY <1>1
<1>2. ASSUME NEW j \in Jobs, Request(j)
      PROVE  ManagerOK'
  <2>1. CASE Register(j)
    BY <2>1 DEF Register, Pruned
  <2>2. CASE ~Register(j)
    BY <1>1, <1>2, <2>2 DEF Request, CreateStrategy, RegisterRefused, SubmitLookup, SubmitAccepted,
       SubmitRaised, SubmitFinished, Attach, MarkUnstarted, Pruned
  <2> QED BY <2>1, <2>2
<1>3. ASSUME NEW j \in Jobs, Client(j)
      PROVE  ManagerOK'
  BY <1>1, <1>3 DEF Client, Cancel, CancelUnfinished, CancelFinished, RemoveReport,
     DeleteStrategy, Expire, Pruned
<1>4. ASSUME NEW j \in Jobs, PoolStep(j)
      PROVE  ManagerOK'
  BY <1>4 DEF PoolStep, PoolTake, WorkerBegin, WorkerEnd, WorkerDies, WorkerKilled, PoolCancels
<1>5. ASSUME NEW j \in Jobs, OnDone(j)
      PROVE  ManagerOK'
  BY <1>1, <1>5 DEF OnDone, OnDoneRejected, OnDoneSave, OnDoneSaveRaised, OnDoneSaved,
     OnDoneUnowned
<1>6. CASE Shutdown
  BY <1>6 DEF Shutdown, ShutdownClose, ShutdownSnapshot, ShutdownPool, CloseIpc, ShutdownVisit
<1>7. CASE Lookup \/ Crash \/ Boot
  BY <1>7 DEF Lookup, Crash, Boot, Pruned
<1>8. CASE UNCHANGED vars
  BY <1>1, <1>8 DEF vars
<1> QED BY <1>2, <1>3, <1>4, <1>5, <1>6, <1>7, <1>8 DEF Next

-------------------------------------------------------------------------------
(* A run.                                                                   *)

\* What RunOK and UploadOK read of a job record does not change.
SameStage(k) ==
    /\ job'[k].future = "none" <=> job[k].future = "none"
    /\ job'[k].callback = job[k].callback
    /\ job'[k].finished = "no" <=> job[k].finished = "no"
    /\ req'[k] = req[k]

LEMMA RunFrame ==
  ASSUME NEW k \in Jobs, RunOK(k), SameStage(k),
         ipc' = ipc, stop' = stop, pool' = "none" <=> pool = "none",
         todo' \subseteq todo,
         k \in reg' => k \in reg, k \in reg /\ Unfinished(k) => k \in reg',
         k \in reports' => k \in reports,
         k \in reports /\ ~LockFree(k) => k \in reports'
  PROVE  RunOK(k)'
  BY DEF RunOK, SameStage, Unfinished, LockFree, Down, running, closed

LEMMA UploadFrame ==
  ASSUME NEW k \in Validation, UploadOK(k), SameStage(k), SameRow(k),
         stop' = stop, pool' = "none" <=> pool = "none",
         k \in reg /\ Unfinished(k) => k \in reg',
         k \in reports' => k \in reports,
         k \in reports \union removed => k \in reports' \union removed',
         k \in unsure => k \in unsure'
  PROVE  UploadOK(k)'
  BY DEF UploadOK, SameStage, SameRow, Unfinished, running, closed

LEMMA OthersKept ==
  ASSUME TypeOK, OutcomeInvariant, NEW j \in Jobs, NEW k \in Jobs, k # j,
         Request(j) \/ Client(j) \/ OnDone(j) \/ ShutdownVisit(j)
  PROVE  RunOK(k)' /\ (k \in Validation => UploadOK(k)')
<1>1. Untouched(k) /\ (k \in Validation => SameRow(k))
  BY OneJobMoves
<1>2. UNCHANGED <<pool, ipc, stop>> /\ todo' \subseteq todo
  BY DEF Request, CreateStrategy, Register, RegisterRefused, SubmitLookup, SubmitAccepted,
     SubmitRaised, SubmitFinished, Attach, MarkUnstarted, Client, Cancel, RemoveReport,
     DeleteStrategy, Expire, OnDone, OnDoneRejected, OnDoneSave, OnDoneSaveRaised, OnDoneSaved,
     OnDoneUnowned, ShutdownVisit, mgrVars
<1>3. SameStage(k)
  BY <1>1 DEF Untouched, SameStage
<1>4. RunOK(k)'
  BY <1>1, <1>2, <1>3, RunFrame DEF OutcomeInvariant, Untouched
<1>5. k \in Validation => UploadOK(k)'
  BY <1>1, <1>2, <1>3, UploadFrame DEF OutcomeInvariant, Untouched
<1> QED BY <1>4, <1>5

\* What each action makes of its own run.
LEMMA RequestRun ==
  ASSUME TypeOK, JobInvariant, OutcomeInvariant, NEW j \in Jobs, Request(j)
  PROVE  RunOK(j)'
<1> RunOK(j) /\ JobOK(j) /\ ManagerOK
  BY DEF OutcomeInvariant, JobInvariant
<1> USE DEF RunOK, JobOK, ManagerOK, Unfinished, LockFree, Down, running, closed, Advance,
            mgrVars, dbVars, rowVars, reportVars
<1>1. CASE CreateStrategy(j)
  BY <1>1 DEF CreateStrategy, TypeOK
<1>2. CASE Register(j)
  BY <1>2 DEF Register, Pruned, NewJob, TypeOK
<1>3. CASE RegisterRefused(j)
  BY <1>3 DEF RegisterRefused, TypeOK
<1>4. CASE SubmitLookup(j)
  BY <1>4 DEF SubmitLookup, Pruned, TypeOK
<1>5. CASE SubmitAccepted(j)
  BY <1>5 DEF SubmitAccepted, TypeOK, JobRecord
<1>6. CASE SubmitRaised(j)
  BY <1>6, FailedFields DEF SubmitRaised, TypeOK
<1>7. CASE SubmitFinished(j)
  BY <1>7 DEF SubmitFinished, TypeOK
<1>8. CASE Attach(j)
  BY <1>8 DEF Attach, TypeOK
<1>9. CASE MarkUnstarted(j)
  BY <1>9 DEF MarkUnstarted, TypeOK
<1> QED BY <1>1, <1>2, <1>3, <1>4, <1>5, <1>6, <1>7, <1>8, <1>9 DEF Request

LEMMA ClientRun ==
  ASSUME TypeOK, JobInvariant, OutcomeInvariant, NEW j \in Jobs, Client(j)
  PROVE  RunOK(j)'
<1> RunOK(j) /\ JobOK(j)
  BY DEF OutcomeInvariant, JobInvariant
<1> USE DEF mgrVars, dbVars, rowVars, reportVars
<1>1. CASE Cancel(j)
  <2> USE DEF RunOK, JobOK, Unfinished, LockFree, Down, running, closed
  <2>1. CASE CancelUnfinished(j) /\ CancelUnsubmitted(j)
    <3>1. job'[j] = [Failed(job[j]) EXCEPT !.cancel = TRUE]
      BY <2>1 DEF CancelUnsubmitted, TypeOK
    <3>2. /\ job'[j].finished = "yes" /\ job'[j].future = job[j].future
          /\ job'[j].callback \in {job[j].callback, "over"}
      BY <3>1, FailedViews DEF TypeOK
    <3> QED BY <1>1, <2>1, <3>2 DEF Cancel, CancelUnfinished, CancelUnsubmitted, Pruned
  <2>2. CASE CancelUnfinished(j) /\ CancelPending(j)
    <3>1. job'[j] = [Failed(job[j]) EXCEPT !.cancel = TRUE, !.future = "cancelled",
                                           !.callback = "over"]
      BY <2>2 DEF CancelPending, TypeOK
    <3>2. job'[j].finished = "yes" /\ job'[j].future = "cancelled" /\ job'[j].callback = "over"
      BY <3>1 DEF Failed, TypeOK, JobRecord
    <3> QED BY <1>1, <2>2, <3>2 DEF Cancel, CancelUnfinished, CancelPending, Pruned
  <2>3. CASE CancelUnfinished(j) /\ CancelStarted(j)
    <3>1. job'[j].future = job[j].future /\ job'[j].callback = job[j].callback
          /\ job'[j].finished = job[j].finished
      BY <2>3 DEF CancelStarted, TypeOK, JobRecord
    <3> QED BY <1>1, <2>3, <3>1 DEF Cancel, CancelUnfinished, Pruned
  <2>4. CASE CancelFinished(j)
    BY <1>1, <2>4 DEF Cancel, CancelFinished, Pruned
  <2> QED BY <1>1, <2>1, <2>2, <2>3, <2>4 DEF Cancel, CancelUnfinished
<1>2. CASE RemoveReport(j)
  BY <1>2, RunFrame DEF RemoveReport, Pruned, SameStage, Unfinished
<1>3. CASE DeleteStrategy(j)
  BY <1>3, RunFrame DEF DeleteStrategy, SameStage
<1>4. CASE Expire(j)
  <2>1. SameStage(j)
    BY <1>4 DEF Expire, SameStage, TypeOK, JobRecord
  <2> QED BY <1>4, <2>1, RunFrame DEF Expire
<1> QED BY <1>1, <1>2, <1>3, <1>4 DEF Client

\* The pool moves futures that are there and touches no callback.
LEMMA PoolStage ==
  ASSUME TypeOK, JobInvariant, NEW j \in Jobs, PoolStep(j), NEW k \in Jobs
  PROVE  SameStage(k)
<1> USE DEF SameStage, TypeOK, JobRecord
<1>1. CASE PoolTake(j)
  BY <1>1 DEF PoolTake
<1>2. CASE WorkerBegin(j)
  BY <1>2 DEF WorkerBegin, Return
<1>3. CASE WorkerEnd(j)
  BY <1>3 DEF WorkerEnd, Return
<1>4. CASE WorkerDies(j)
  BY <1>4 DEF WorkerDies
<1>5. CASE WorkerKilled(j)
  BY <1>5 DEF WorkerKilled
<1>6. CASE PoolCancels(j)
  BY <1>6 DEF PoolCancels
<1> QED BY <1>1, <1>2, <1>3, <1>4, <1>5, <1>6 DEF PoolStep

LEMMA PoolKept ==
  ASSUME TypeOK, JobInvariant, OutcomeInvariant, NEW j \in Jobs, PoolStep(j), NEW k \in Jobs
  PROVE  RunOK(k)' /\ (k \in Validation => UploadOK(k)')
<1>1. SameStage(k)
  BY PoolStage
<1>2. /\ UNCHANGED <<ipc, stop, todo, reg, reports, removed, unsure, row, attached, unsettled>>
      /\ pool' = "none" <=> pool = "none"
  BY DEF PoolStep, PoolTake, WorkerBegin, WorkerEnd, WorkerDies, WorkerKilled, PoolCancels,
         mgrVars, dbVars, rowVars, reportVars
<1> QED BY <1>1, <1>2, RunFrame, UploadFrame DEF OutcomeInvariant, SameRow

LEMMA OnDoneRun ==
  ASSUME TypeOK, JobInvariant, OutcomeInvariant, NEW j \in Jobs, OnDone(j)
  PROVE  RunOK(j)'
<1> RunOK(j) /\ JobOK(j)
  BY DEF OutcomeInvariant, JobInvariant
<1> USE DEF RunOK, JobOK, Unfinished, LockFree, Down, running, closed,
            mgrVars, dbVars, rowVars, reportVars
<1>1. CASE OnDoneRejected(j) \/ OnDoneSaveRaised(j)
  <2>1. job'[j] = [Failed(job[j]) EXCEPT !.callback = "over"]
    BY <1>1 DEF OnDoneRejected, OnDoneSaveRaised, TypeOK
  <2>2. job'[j].finished = "yes" /\ job'[j].future = job[j].future /\ job'[j].callback = "over"
    BY <2>1 DEF Failed, TypeOK, JobRecord
  <2> QED BY <1>1, <2>2 DEF OnDoneRejected, OnDoneSaveRaised, CallbackDue
<1>2. CASE OnDoneSave(j)
  <2>1. job'[j].finished = job[j].finished /\ job'[j].future = job[j].future
        /\ job'[j].callback = "committed"
    BY <1>2 DEF OnDoneSave, TypeOK, JobRecord
  <2> QED BY <1>2, <2>1 DEF OnDoneSave, CallbackDue
<1>3. CASE OnDoneSaved(j) \/ OnDoneUnowned(j)
  <2>1. \/ job'[j] = [Completed(job[j]) EXCEPT !.saved = TRUE]
        \/ job'[j] = [Completed(job[j]) EXCEPT !.detail = "completed"]
    BY <1>3 DEF OnDoneSaved, OnDoneUnowned, TypeOK
  <2>2. job[j] \in JobRecord
    BY DEF TypeOK
  <2>3. job'[j].finished = "yes" /\ job'[j].future = job[j].future /\ job'[j].callback = "over"
    BY ONLY <2>1, <2>2, CompletedViews
  <2> QED BY <1>3, <2>3 DEF OnDoneSaved, OnDoneUnowned, CallbackDue
<1> QED BY <1>1, <1>2, <1>3 DEF OnDone

\* A visit that ends nothing: the job is finished, or its callback will end it.
LEMMA VisitStage ==
  ASSUME TypeOK, NEW j \in Jobs, ShutdownVisit(j), ~Unfinished(j) \/ job[j].future # "none"
  PROVE  SameStage(j) /\ UNCHANGED rowVars
<1>1. CASE ~Unfinished(j)
  BY <1>1 DEF ShutdownVisit, SameStage
<1>2. CASE Unfinished(j) /\ job[j].future # "none"
  <2>1. job' = [job EXCEPT ![j].cancel = TRUE] /\ UNCHANGED rowVars /\ req' = req
    BY <1>2 DEF ShutdownVisit
  <2> QED BY <2>1 DEF SameStage, TypeOK, JobRecord
<1> QED BY <1>1, <1>2

LEMMA VisitRun ==
  ASSUME TypeOK, JobInvariant, OutcomeInvariant, NEW j \in Jobs, ShutdownVisit(j)
  PROVE  RunOK(j)'
<1> RunOK(j) /\ JobOK(j)
  BY DEF OutcomeInvariant, JobInvariant
<1>1. CASE ~Unfinished(j) \/ job[j].future # "none"
  <2>1. SameStage(j)
    BY <1>1, VisitStage
  <2> QED BY <2>1, RunFrame DEF ShutdownVisit, dbVars, rowVars, reportVars
<1>2. CASE Unfinished(j) /\ job[j].future = "none"
  <2>1. job'[j] = [Failed(job[j]) EXCEPT !.cancel = TRUE]
    BY <1>2 DEF ShutdownVisit, TypeOK
  <2>2. job[j] \in JobRecord
    BY DEF TypeOK
  <2>3. /\ job'[j].finished = "yes" /\ job'[j].future = job[j].future
        /\ job'[j].callback \in {job[j].callback, "over"}
    BY ONLY <2>1, <2>2, FailedViews
  <2> QED BY <1>2, <2>3 DEF ShutdownVisit, RunOK, JobOK, Unfinished, Down, running, closed,
                            dbVars, reportVars
<1> QED BY <1>1, <1>2

\* The process: the manager's state changes, the jobs only when it ends.
LEMMA ProcessRun ==
  ASSUME TypeOK, JobInvariant, OutcomeInvariant, NEW k \in Jobs,
         ShutdownClose \/ ShutdownSnapshot \/ ShutdownPool \/ CloseIpc \/ Lookup \/ Crash \/ Boot
  PROVE  RunOK(k)'
<1> RunOK(k) /\ JobOK(k) /\ ManagerOK
  BY DEF OutcomeInvariant, JobInvariant
<1> USE DEF RunOK, Unfinished, Down, running, closed, mgrVars, dbVars, reportVars
<1>1. CASE ShutdownClose
  BY <1>1 DEF ShutdownClose
<1>2. CASE ShutdownSnapshot
  BY <1>2 DEF ShutdownSnapshot, ManagerOK
<1>3. CASE ShutdownPool
  BY <1>3 DEF ShutdownPool
<1>4. CASE CloseIpc
  BY <1>4 DEF CloseIpc, ManagerOK
<1>5. CASE Lookup
  BY <1>5 DEF Lookup, Pruned
<1>6. CASE Crash
  BY <1>6 DEF Crash, NewJob, JobOK
<1>7. CASE Boot
  BY <1>7 DEF Boot, ManagerOK
<1> QED BY <1>1, <1>2, <1>3, <1>4, <1>5, <1>6, <1>7

-------------------------------------------------------------------------------
(* An upload.                                                               *)

LEMMA RequestUpload ==
  ASSUME TypeOK, JobInvariant, OutcomeInvariant, NEW j \in Validation, Request(j)
  PROVE  UploadOK(j)'
<1> j \in Jobs
  BY JobsAssumption
<1> RunOK(j) /\ JobOK(j) /\ UploadOK(j)
  BY DEF OutcomeInvariant, JobInvariant
<1> USE DEF UploadOK, Unfinished, running, closed, Advance, mgrVars, dbVars, rowVars, reportVars
<1>1. CASE CreateStrategy(j)
  BY <1>1 DEF CreateStrategy, RunOK, JobOK, TypeOK
<1>2. CASE Register(j)
  BY <1>2 DEF Register, RunOK, NewJob, TypeOK
<1>3. CASE RegisterRefused(j)
  BY <1>3 DEF RegisterRefused, TypeOK
<1>4. CASE SubmitLookup(j)
  BY <1>4 DEF SubmitLookup, Pruned, TypeOK
<1>5. CASE SubmitAccepted(j)
  BY <1>5 DEF SubmitAccepted, RunOK, JobOK, TypeOK, JobRecord
<1>6. CASE SubmitRaised(j)
  <2>1. j \notin reports /\ UNCHANGED <<reports, removed, unsure>>
    BY <1>6 DEF SubmitRaised, RunOK
  <2>2. job'[j].future = "none" /\ job'[j].finished = "yes" /\ req'[j] = "refused"
    BY <1>6, FailedFields DEF SubmitRaised, JobOK, TypeOK
  <2> QED BY <1>6, <2>1, <2>2, SettleSelf DEF SubmitRaised
<1>7. CASE SubmitFinished(j)
  BY <1>7 DEF SubmitFinished, TypeOK
<1>8. CASE Attach(j)
  BY <1>8 DEF Attach, RunOK, TypeOK
<1>9. CASE MarkUnstarted(j)
  BY <1>9 DEF MarkUnstarted, LoseVerdict, RunOK, JobOK, TypeOK
<1> QED BY <1>1, <1>2, <1>3, <1>4, <1>5, <1>6, <1>7, <1>8, <1>9 DEF Request

LEMMA ClientUpload ==
  ASSUME TypeOK, JobInvariant, OutcomeInvariant, NEW j \in Validation, Client(j)
  PROVE  UploadOK(j)'
<1> j \in Jobs
  BY JobsAssumption
<1> RunOK(j) /\ JobOK(j) /\ UploadOK(j)
  BY DEF OutcomeInvariant, JobInvariant
<1> USE DEF mgrVars, dbVars, rowVars, reportVars
<1>1. CASE Cancel(j)
  <2> USE DEF UploadOK, Unfinished, running, closed
  <2>1. CASE CancelUnfinished(j) /\ CancelUnsubmitted(j)
    <3>1. job'[j] = [Failed(job[j]) EXCEPT !.cancel = TRUE]
      BY <2>1 DEF CancelUnsubmitted, TypeOK
    <3>2. job[j] \in JobRecord
      BY DEF TypeOK
    <3>3. job'[j].finished = "yes" /\ job'[j].future = job[j].future
      BY ONLY <3>1, <3>2, FailedViews
    <3>4. ~running
      BY <1>1, <2>1 DEF Cancel, CancelUnfinished, CancelUnsubmitted, Pruned, RunOK
    <3> QED BY <1>1, <2>1, <3>3, <3>4 DEF Cancel, CancelUnfinished, CancelUnsubmitted, JobOK
  <2>2. CASE CancelUnfinished(j) /\ CancelPending(j)
    <3>1. job'[j] = [Failed(job[j]) EXCEPT !.cancel = TRUE, !.future = "cancelled",
                                           !.callback = "over"]
      BY <2>2 DEF CancelPending, TypeOK
    <3>2. job'[j].finished = "yes" /\ job'[j].future = "cancelled" /\ job'[j].callback = "over"
      BY <3>1 DEF Failed, TypeOK, JobRecord
    <3>3. j \notin reports /\ UNCHANGED <<req, reports, removed, unsure>>
      BY <1>1, <2>2 DEF Cancel, CancelPending, RunOK, JobOK
    <3> QED BY <2>2, <3>2, <3>3, SettleSelf DEF CancelPending
  <2>3. CASE CancelUnfinished(j) /\ CancelStarted(j)
    <3>1. SameStage(j)
      BY <1>1, <2>3 DEF Cancel, CancelStarted, SameStage, TypeOK, JobRecord
    <3> QED BY <1>1, <2>3, <3>1, UploadFrame DEF Cancel, CancelUnfinished, CancelStarted, SameRow,
                                                 Pruned
  <2>4. CASE CancelFinished(j)
    BY <1>1, <2>4 DEF Cancel, CancelFinished, Pruned
  <2> QED BY <1>1, <2>1, <2>2, <2>3, <2>4 DEF Cancel, CancelUnfinished
<1>2. CASE RemoveReport(j)
  BY <1>2, UploadFrame DEF RemoveReport, Pruned, SameStage, SameRow, Unfinished
<1>3. CASE DeleteStrategy(j)
  BY <1>3 DEF DeleteStrategy, UploadOK, Unfinished, running, closed, TypeOK
<1>4. CASE Expire(j)
  <2>1. SameStage(j)
    BY <1>4 DEF Expire, SameStage, TypeOK, JobRecord
  <2> QED BY <1>4, <2>1, UploadFrame DEF Expire, SameRow
<1> QED BY <1>1, <1>2, <1>3, <1>4 DEF Client

LEMMA OnDoneUpload ==
  ASSUME TypeOK, JobInvariant, OutcomeInvariant, NEW j \in Validation, OnDone(j)
  PROVE  UploadOK(j)'
<1> j \in Jobs
  BY JobsAssumption
<1> RunOK(j) /\ JobOK(j) /\ UploadOK(j)
  BY DEF OutcomeInvariant, JobInvariant
<1> USE DEF UploadOK, Unfinished, running, closed, mgrVars, dbVars, rowVars, reportVars
<1>1. CASE OnDoneRejected(j) \/ OnDoneSaveRaised(j)
  <2>1. job'[j] = [Failed(job[j]) EXCEPT !.callback = "over"]
    BY <1>1 DEF OnDoneRejected, OnDoneSaveRaised, TypeOK
  <2>2. job'[j].finished = "yes" /\ job'[j].future = job[j].future /\ job'[j].callback = "over"
    BY <2>1 DEF Failed, TypeOK, JobRecord
  <2>3. /\ j \notin reports /\ job[j].future # "none" /\ Settle(j, FALSE)
        /\ j \in reports' => j \in unsure'
        /\ UNCHANGED <<stop, pool, req, removed>>
    BY <1>1 DEF OnDoneRejected, OnDoneSaveRaised, CallbackDue, RunOK
  <2> QED BY <2>2, <2>3, SettleSelf
<1>2. CASE OnDoneSave(j)
  <2>1. job'[j].finished = job[j].finished /\ job'[j].future = job[j].future
        /\ job'[j].callback = "committed"
    BY <1>2 DEF OnDoneSave, TypeOK, JobRecord
  <2>2. row[j] # "failed_validation"
    BY <1>2 DEF OnDoneSave, CallbackDue
  <2> QED BY <1>2, <2>1, <2>2 DEF OnDoneSave
<1>3. CASE OnDoneSaved(j) \/ OnDoneUnowned(j)
  <2>1. \/ job'[j] = [Completed(job[j]) EXCEPT !.saved = TRUE]
        \/ job'[j] = [Completed(job[j]) EXCEPT !.detail = "completed"]
    BY <1>3 DEF OnDoneSaved, OnDoneUnowned, TypeOK
  <2>2. job[j] \in JobRecord
    BY DEF TypeOK
  <2>3. job'[j].finished = "yes" /\ job'[j].future = job[j].future /\ job'[j].callback = "over"
    BY ONLY <2>1, <2>2, CompletedViews
  <2>4. /\ Settle(j, TRUE) /\ UNCHANGED <<stop, pool, req, reports, removed, unsure>>
        /\ j \in reports \/ j \in Unowned
    BY <1>3 DEF OnDoneSaved, OnDoneUnowned, RunOK
  <2> QED BY <2>3, <2>4, SettleSelf
<1> QED BY <1>1, <1>2, <1>3 DEF OnDone

LEMMA ProcessUpload ==
  ASSUME TypeOK, JobInvariant, OutcomeInvariant, NEW k \in Validation,
         ShutdownClose \/ ShutdownSnapshot \/ ShutdownPool \/ CloseIpc \/ Lookup \/ Crash \/ Boot
  PROVE  UploadOK(k)'
<1> k \in Jobs
  BY JobsAssumption
<1> RunOK(k) /\ JobOK(k) /\ UploadOK(k)
  BY DEF OutcomeInvariant, JobInvariant
<1> USE DEF UploadOK, Unfinished, running, closed, mgrVars, dbVars, rowVars, reportVars
<1>1. CASE ShutdownClose \/ ShutdownSnapshot \/ ShutdownPool \/ CloseIpc
  BY <1>1 DEF ShutdownClose, ShutdownSnapshot, ShutdownPool, CloseIpc
<1>2. CASE Lookup
  BY <1>2 DEF Lookup, Pruned
<1>3. CASE Crash
  BY <1>3 DEF Crash, NewJob
<1>4. CASE Boot
  <2>1. Unfinished(k) /\ job[k].callback = "idle" /\ job[k].future = "none"
        /\ req[k] \in {"idle", "done"}
    BY <1>4 DEF Boot, RunOK
  <2>2. CASE Recover
    BY <1>4, <2>1, <2>2 DEF Boot, Recover
  <2>3. CASE unsettled' = {j \in Validation : row[j] = "validating"} /\ UNCHANGED row
    BY <1>4, <2>1, <2>3 DEF Boot
  <2> QED BY <1>4, <2>2, <2>3 DEF Boot
<1> QED BY <1>1, <1>2, <1>3, <1>4

LEMMA VisitUpload ==
  ASSUME TypeOK, JobInvariant, OutcomeInvariant, NEW j \in Validation, ShutdownVisit(j)
  PROVE  UploadOK(j)'
<1> j \in Jobs
  BY JobsAssumption
<1> RunOK(j) /\ JobOK(j) /\ UploadOK(j)
  BY DEF OutcomeInvariant, JobInvariant
<1>1. CASE ~Unfinished(j) \/ job[j].future # "none"
  <2>1. SameStage(j) /\ UNCHANGED rowVars
    BY <1>1, VisitStage
  <2> QED BY <2>1, UploadFrame DEF ShutdownVisit, SameRow, dbVars, rowVars, reportVars
<1>2. CASE Unfinished(j) /\ job[j].future = "none"
  <2>1. job'[j] = [Failed(job[j]) EXCEPT !.cancel = TRUE]
    BY <1>2 DEF ShutdownVisit, TypeOK
  <2>2. job[j] \in JobRecord
    BY DEF TypeOK
  <2>3. job'[j].finished = "yes" /\ job'[j].future = job[j].future
    BY ONLY <2>1, <2>2, FailedViews
  <2>4. /\ Settle(j, FALSE) /\ ~running /\ j \notin reports
        /\ UNCHANGED <<stop, pool, req, reports, removed, unsure>>
    BY <1>2 DEF ShutdownVisit, RunOK, JobOK, running, closed, LockFree, dbVars, reportVars
  <2> QED BY <1>2, <2>3, <2>4, SettleSelf DEF UploadOK, Unfinished, running, closed
<1> QED BY <1>1, <1>2

-------------------------------------------------------------------------------

LEMMA OutcomeKept ==
  ASSUME TypeOK, JobInvariant, OutcomeInvariant, [Next]_vars
  PROVE  OutcomeInvariant'
<1>1. ManagerOK'
  BY ManagerKept
<1>2. ASSUME NEW k \in Jobs
      PROVE  RunOK(k)' /\ (k \in Validation => UploadOK(k)')
  <2>1. ASSUME NEW j \in Jobs, Request(j) \/ Client(j) \/ OnDone(j) \/ ShutdownVisit(j)
        PROVE  RunOK(k)' /\ (k \in Validation => UploadOK(k)')
    <3>1. CASE k # j
      BY <2>1, <3>1, OthersKept
    <3>2. CASE k = j
      BY <2>1, <3>2, RequestRun, ClientRun, OnDoneRun, VisitRun,
         RequestUpload, ClientUpload, OnDoneUpload, VisitUpload
    <3> QED BY <3>1, <3>2
  <2>2. ASSUME NEW j \in Jobs, PoolStep(j)
        PROVE  RunOK(k)' /\ (k \in Validation => UploadOK(k)')
    BY <2>2, PoolKept
  <2>3. CASE \/ ShutdownClose \/ ShutdownSnapshot \/ ShutdownPool \/ CloseIpc
             \/ Lookup \/ Crash \/ Boot
    BY <2>3, ProcessRun, ProcessUpload
  <2>4. CASE UNCHANGED vars
    <3>1. SameStage(k) /\ SameRow(k)
      BY <2>4 DEF SameStage, SameRow, vars, dbVars, rowVars
    <3> QED BY <2>4, <3>1, RunFrame, UploadFrame
            DEF OutcomeInvariant, vars, mgrVars, dbVars, reportVars
  <2> QED BY <2>1, <2>2, <2>3, <2>4 DEF Next, Shutdown
<1> QED BY <1>1, <1>2, JobsAssumption DEF OutcomeInvariant

\* The inductive invariant of the outcomes: the manager keeps every unfinished job
\* until its callback or the sweep ended it, and an upload's row follows its run.
THEOREM OutcomeInvariantHolds == Spec => []OutcomeInvariant
<1>1. Init => OutcomeInvariant
  BY JobsAssumption DEF Init, Down, NewJob, OutcomeInvariant, ManagerOK, RunOK, UploadOK,
     Unfinished, running, closed
<1> QED BY <1>1, OutcomeKept, TypeCorrect, JobInvariantHolds, PTL DEF Spec

\* No request that is over leaves a job that is queued and was never dispatched
\* (create_backtest_run, submit, _begin_validation).
THEOREM NoJobIsOrphaned == Spec => []NoOrphanedJob
<1>1. TypeOK /\ OutcomeInvariant => NoOrphanedJob
  BY DEF TypeOK, OutcomeInvariant, RunOK, NoOrphanedJob
<1> QED BY <1>1, TypeCorrect, OutcomeInvariantHolds, PTL

\* _close_when_finished closes the IPC manager only after the last state write of
\* every callback, whatever was registered, submitted or cancelled during shutdown.
THEOREM IpcIsOpenForCallbacks == Spec => []IpcOutlivesCallbacks
<1>1. TypeOK /\ JobInvariant /\ OutcomeInvariant => IpcOutlivesCallbacks
  BY DEF TypeOK, JobInvariant, JobOK, OutcomeInvariant, RunOK, IpcOutlivesCallbacks, CallbackDue,
         LockFree
<1> QED BY <1>1, TypeCorrect, JobInvariantHolds, OutcomeInvariantHolds, PTL

\* The callback, the request, shutdown and the next boot's recovery write an
\* upload's verdict; none of them contradicts its saved report.
THEOREM VerdictsMatchReports == Spec => []VerdictMatchesReport
<1>1. OutcomeInvariant => VerdictMatchesReport
  BY DEF OutcomeInvariant, UploadOK, VerdictMatchesReport
<1> QED BY <1>1, OutcomeInvariantHolds, PTL

\* An upload that is still shown as validating has a run under way, unless the
\* database refused its verdict (_settle_validation, _recover_validation_outcomes).
THEOREM ValidationIsUnderWay == Spec => []NoStaleValidation
<1>1. OutcomeInvariant => NoStaleValidation
  BY DEF OutcomeInvariant, UploadOK, NoStaleValidation
<1> QED BY <1>1, OutcomeInvariantHolds, PTL

-------------------------------------------------------------------------------
(* The four things that can happen to a job record, and what goes with them. *)

Continues(k) ==
    /\ job'[k].finished = "no" <=> job[k].finished = "no"
    /\ job'[k].detail = job[k].detail /\ job'[k].saved = job[k].saved
    /\ job'[k].status \in {job[k].status, "running"}

Ends(k) ==
    /\ job[k].finished = "no" /\ job'[k].finished = "yes"
    /\ \/ job'[k].detail = "failed" /\ job'[k].saved = job[k].saved
       \/ job'[k].detail = "completed" /\ job'[k].saved = job[k].saved
       \/ job'[k].detail = job[k].detail /\ job'[k].saved /\ k \in reports
    /\ job'[k].status \in {"failed", "completed"}

Starts(k) ==
    /\ req[k] \in {"idle", "row"} /\ req'[k] = "registered" /\ k \in reg'
    /\ job'[k] = [NewJob EXCEPT !.status = "queued"]

Forgotten(k) == reg' = {} /\ job'[k] = NewJob /\ req'[k] \in {"idle", "done"}

\* The tables, the key and the request of a run move only with its record.
Moves(k) ==
    /\ Continues(k) \/ Ends(k) \/ Starts(k) \/ Forgotten(k)
    /\ k \in reg' /\ k \notin reg => Starts(k)
    /\ k \in reg /\ k \notin reg' => ~Unfinished(k) \/ Forgotten(k)
    /\ k \in reports' /\ k \notin reports => CallbackDue(k)
    /\ k \in reports /\ k \notin reports' =>
          LockFree(k) /\ Continues(k) /\ (k \in reg' => k \in reg /\ job[k].saved)
    /\ k \in unsure => k \in unsure'
    /\ k \in acked => k \in acked'
    /\ k \in acked' /\ k \notin acked => k \in reg /\ Unfinished(k) /\ LockFree(k)
    /\ req[k] \notin {"idle", "row"} => req'[k] \notin {"idle", "row"}

LEMMA RecordMoves ==
  ASSUME TypeOK, JobInvariant, OutcomeInvariant, NEW j \in Jobs,
         Request(j) \/ Client(j) \/ OnDone(j) \/ ShutdownVisit(j)
  PROVE  Continues(j) \/ Ends(j) \/ (Register(j) /\ Starts(j))
<1> job[j] \in JobRecord /\ DOMAIN job = Jobs
  BY DEF TypeOK
<1> USE DEF Unfinished, mgrVars, dbVars, rowVars, reportVars
<1> DEFINE Fails == job'[j] \in {[Failed(job[j]) EXCEPT !.cancel = TRUE],
                                 [Failed(job[j]) EXCEPT !.callback = "over"]}
<1>1. CASE job' = job
  BY <1>1 DEF Continues
<1>2. CASE Unfinished(j) /\ Fails
  <2>1. /\ job'[j].finished = "yes" /\ job'[j].detail = "failed" /\ job'[j].status = "failed"
        /\ job'[j].saved = job[j].saved
    BY ONLY <1>2, job[j] \in JobRecord, FailedViews
  <2> QED BY <1>2, <2>1 DEF Ends
<1>3. CASE Request(j)
  <2>1. CASE Register(j)
    BY <2>1 DEF Register, Starts, TypeOK
  <2>2. CASE SubmitAccepted(j)
    BY <2>2 DEF SubmitAccepted, Continues, JobRecord
  <2>3. CASE SubmitRaised(j)
    BY <2>3 DEF SubmitRaised, Ends, Failed, JobRecord
  <2> QED BY <1>1, <1>3, <2>1, <2>2, <2>3 DEF Request, CreateStrategy, RegisterRefused,
             SubmitLookup, SubmitFinished, Attach, MarkUnstarted
<1>4. CASE Client(j)
  <2>1. CASE Cancel(j) /\ CancelUnfinished(j) /\ CancelUnsubmitted(j)
    BY <1>2, <2>1 DEF CancelUnfinished, CancelUnsubmitted
  <2>2. CASE Cancel(j) /\ CancelUnfinished(j) /\ CancelPending(j)
    <3>1. job'[j] = [Failed(job[j]) EXCEPT !.cancel = TRUE, !.future = "cancelled",
                                           !.callback = "over"]
      BY <2>2 DEF CancelPending
    <3> QED BY <2>2, <3>1 DEF CancelUnfinished, Ends, Failed, JobRecord
  <2>3. CASE Cancel(j) /\ CancelUnfinished(j) /\ CancelStarted(j)
    BY <2>3 DEF CancelStarted, Continues, JobRecord
  <2>4. CASE Expire(j)
    BY <2>4 DEF Expire, Continues, JobRecord
  <2> QED BY <1>1, <1>4, <2>1, <2>2, <2>3, <2>4 DEF Client, Cancel, CancelUnfinished,
             CancelFinished, RemoveReport, DeleteStrategy
<1>5. CASE OnDone(j)
  <2>1. JobOK(j) /\ RunOK(j)
    BY DEF JobInvariant, OutcomeInvariant
  <2>2. CASE OnDoneRejected(j) \/ OnDoneSaveRaised(j)
    <3>1. Unfinished(j)
      BY <2>1, <2>2 DEF OnDoneRejected, OnDoneSaveRaised, CallbackDue, JobOK
    <3> QED BY <1>2, <2>2, <3>1 DEF OnDoneRejected, OnDoneSaveRaised
  <2>3. CASE OnDoneSave(j)
    BY <2>3 DEF OnDoneSave, Continues, JobRecord
  <2>4. CASE OnDoneSaved(j)
    <3>1. Unfinished(j) /\ j \in reports
      BY <2>1, <2>4 DEF OnDoneSaved, JobOK, RunOK
    <3> QED BY <2>4, <3>1 DEF OnDoneSaved, Completed, Ends, JobRecord
  <2>5. CASE OnDoneUnowned(j)
    <3>1. Unfinished(j)
      BY <2>1, <2>5 DEF OnDoneUnowned, CallbackDue, JobOK
    <3> QED BY <2>5, <3>1 DEF OnDoneUnowned, Completed, Ends, JobRecord
  <2> QED BY <1>5, <2>2, <2>3, <2>4, <2>5 DEF OnDone
<1>6. CASE ShutdownVisit(j)
  <2>1. CASE ~Unfinished(j)
    BY <1>1, <1>6, <2>1 DEF ShutdownVisit
  <2>2. CASE Unfinished(j) /\ job[j].future # "none"
    <3>1. job' = [job EXCEPT ![j].cancel = TRUE]
      BY <1>6, <2>2 DEF ShutdownVisit
    <3> QED BY <3>1 DEF Continues, JobRecord
  <2>3. CASE Unfinished(j) /\ job[j].future = "none"
    BY <1>2, <1>6, <2>3 DEF ShutdownVisit
  <2> QED BY <2>1, <2>2, <2>3
<1> QED BY <1>3, <1>4, <1>5, <1>6

LEMMA PoolContinues ==
  ASSUME TypeOK, NEW j \in Jobs, PoolStep(j), NEW k \in Jobs
  PROVE  Continues(k)
<1> USE DEF Continues, TypeOK, JobRecord
<1>1. CASE PoolTake(j)
  BY <1>1 DEF PoolTake
<1>2. CASE WorkerBegin(j)
  BY <1>2 DEF WorkerBegin, Return
<1>3. CASE WorkerEnd(j)
  BY <1>3 DEF WorkerEnd, Return
<1>4. CASE WorkerDies(j)
  BY <1>4 DEF WorkerDies
<1>5. CASE WorkerKilled(j)
  BY <1>5 DEF WorkerKilled, mgrVars
<1>6. CASE PoolCancels(j)
  BY <1>6 DEF PoolCancels
<1> QED BY <1>1, <1>2, <1>3, <1>4, <1>5, <1>6 DEF PoolStep

LEMMA EveryStepMoves ==
  ASSUME TypeOK, JobInvariant, OutcomeInvariant, [Next]_vars, NEW k \in Jobs
  PROVE  Moves(k)
<1> JobOK(k) /\ RunOK(k)
  BY DEF JobInvariant, OutcomeInvariant
<1> USE DEF Unfinished, mgrVars, dbVars, rowVars, reportVars
<1>1. ASSUME NEW j \in Jobs, Request(j) \/ Client(j) \/ OnDone(j) \/ ShutdownVisit(j)
      PROVE  Moves(k)
  <2>1. CASE k # j
    BY <1>1, <2>1, OneJobMoves DEF Untouched, Continues, Moves
  <2>2. CASE k = j
    <3>1. Continues(k) \/ Ends(k) \/ (Register(k) /\ Starts(k))
      BY <1>1, <2>2, RecordMoves
    <3>2. CASE Request(k)
      <4>1. CASE Register(k)
        <5>1. Starts(k)
          BY <4>1 DEF Register, Starts, TypeOK
        <5> QED BY <4>1, <5>1 DEF Register, Pruned, Moves, Starts
      <4>2. CASE ~Register(k)
        <5>1. reg' \subseteq reg /\ (k \in reg /\ Unfinished(k) => k \in reg')
          BY <3>2, <4>2 DEF Request, CreateStrategy, RegisterRefused, SubmitLookup,
             SubmitAccepted, SubmitRaised, SubmitFinished, Attach, MarkUnstarted, Pruned
        <5>2. UNCHANGED <<reports, unsure, acked>>
          BY <3>2, <4>2 DEF Request, CreateStrategy, RegisterRefused, SubmitLookup,
             SubmitAccepted, SubmitRaised, SubmitFinished, Attach, MarkUnstarted
        <5>3. req[k] \notin {"idle", "row"} => req'[k] \notin {"idle", "row"}
          BY <3>2, <4>2 DEF Request, CreateStrategy, RegisterRefused, SubmitLookup,
             SubmitAccepted, SubmitRaised, SubmitFinished, Attach, MarkUnstarted, Advance, TypeOK
        <5> QED BY <3>1, <4>2, <5>1, <5>2, <5>3 DEF Moves
      <4> QED BY <4>1, <4>2
    <3>3. CASE Client(k)
      <4>1. CASE Cancel(k)
        BY <3>1, <4>1 DEF Cancel, CancelUnfinished, CancelFinished, Pruned, Moves, LockFree, Starts
      <4>2. CASE RemoveReport(k)
        BY <4>2 DEF RemoveReport, Pruned, Moves, Continues
      <4>3. CASE DeleteStrategy(k) \/ Expire(k)
        BY <3>1, <4>3 DEF DeleteStrategy, Expire, Moves, Starts
      <4> QED BY <3>3, <4>1, <4>2, <4>3 DEF Client
    <3>4. CASE OnDone(k) \/ ShutdownVisit(k)
      BY <3>1, <3>4 DEF OnDone, OnDoneRejected, OnDoneSave, OnDoneSaveRaised, OnDoneSaved,
         OnDoneUnowned, ShutdownVisit, Moves, Starts
    <3> QED BY <1>1, <2>2, <3>2, <3>3, <3>4
  <2> QED BY <2>1, <2>2
<1>2. ASSUME NEW j \in Jobs, PoolStep(j)
      PROVE  Moves(k)
  <2>1. Continues(k)
    BY <1>2, PoolContinues
  <2>2. UNCHANGED <<reg, req, reports, unsure, acked>>
    BY <1>2 DEF PoolStep, PoolTake, WorkerBegin, WorkerEnd, WorkerDies, WorkerKilled, PoolCancels
  <2> QED BY <2>1, <2>2 DEF Moves
<1>3. CASE ShutdownClose \/ ShutdownSnapshot \/ ShutdownPool \/ CloseIpc \/ Boot
  BY <1>3 DEF ShutdownClose, ShutdownSnapshot, ShutdownPool, CloseIpc, Boot, Moves, Continues
<1>4. CASE Lookup
  BY <1>4 DEF Lookup, Pruned, Moves, Continues
<1>5. CASE Crash
  BY <1>5 DEF Crash, Moves, Forgotten, TypeOK
<1>6. CASE UNCHANGED vars
  BY <1>6 DEF vars, Moves, Continues
<1> QED BY <1>1, <1>2, <1>3, <1>4, <1>5, <1>6 DEF Next, Shutdown

\* A finished run has an answer, and only a finished one has a final status.
AnswerOK(j) ==
    /\ ~Unfinished(j) => job[j].saved \/ job[j].detail \in {"failed", "completed"}
    /\ Unfinished(j) => job[j].status \notin {"failed", "completed"}

LEMMA AnswersHold == Spec => [](\A j \in Jobs : AnswerOK(j))
<1>1. Init => \A j \in Jobs : AnswerOK(j)
  BY DEF Init, NewJob, AnswerOK, Unfinished
<1>2. TypeOK /\ JobInvariant /\ OutcomeInvariant /\ (\A j \in Jobs : AnswerOK(j)) /\ [Next]_vars
        => (\A j \in Jobs : AnswerOK(j))'
  <2> SUFFICES ASSUME TypeOK, JobInvariant, OutcomeInvariant, \A j \in Jobs : AnswerOK(j),
                      [Next]_vars, NEW k \in Jobs
               PROVE  AnswerOK(k)'
    OBVIOUS
  <2>1. AnswerOK(k) /\ (Continues(k) \/ Ends(k) \/ Starts(k) \/ Forgotten(k))
    BY EveryStepMoves DEF Moves
  <2> QED BY <2>1 DEF AnswerOK, Unfinished, Continues, Ends, Starts, Forgotten, NewJob
<1> QED BY <1>1, <1>2, TypeCorrect, JobInvariantHolds, OutcomeInvariantHolds, PTL DEF Spec

\* An answer never goes back: a failed or completed run keeps its answer until it
\* is forgotten, and a running one is never queued again (get_detail, _prune, the
\* report table), save when the acknowledgement of its commit was lost.
THEOREM PollsMoveForward == Spec => PollMovesForward
<1>1. TypeOK /\ JobInvariant /\ OutcomeInvariant /\ (\A j \in Jobs : AnswerOK(j)) /\ [Next]_vars
        => [\A j \in Jobs :
              /\ Poll(j) \in {"completed", "failed"} =>
                     Poll(j)' \in {Poll(j), "absent"} \/ j \in unsure'
              /\ Poll(j) = "running" => Poll(j)' # "queued"]_vars
  <2> SUFFICES ASSUME TypeOK, JobInvariant, OutcomeInvariant, \A j \in Jobs : AnswerOK(j),
                      [Next]_vars, NEW k \in Jobs
               PROVE  /\ Poll(k) \in {"completed", "failed"} =>
                             Poll(k)' \in {Poll(k), "absent"} \/ k \in unsure'
                      /\ Poll(k) = "running" => Poll(k)' # "queued"
    OBVIOUS
  <2> USE DEF Poll, Unfinished, LockFree
  <2>1. Moves(k) /\ JobOK(k) /\ RunOK(k) /\ AnswerOK(k)
    BY EveryStepMoves DEF JobInvariant, OutcomeInvariant
  <2>2. ASSUME k \in reg, ~job[k].saved, Poll(k) \in {"completed", "failed"}
        PROVE  Poll(k)' \in {Poll(k), "absent"} \/ k \in unsure'
    <3>1. ~Unfinished(k) /\ Poll(k) = job[k].detail
      BY <2>1, <2>2 DEF JobOK, AnswerOK
    <3>2. k \in reports' => k \in reports
      BY <2>1, <3>1 DEF Moves, CallbackDue, JobOK
    <3>3. k \in reports => k \in unsure'
      BY <2>1, <2>2, <3>1 DEF JobOK, Moves
    <3>4. k \in reg' /\ ~job'[k].saved => Poll(k)' = Poll(k)
      BY <2>1, <2>2, <3>1 DEF Moves, Continues, Ends, Starts, Forgotten, JobOK, AnswerOK
    <3> QED BY <3>2, <3>3, <3>4
  <2>3. ASSUME k \notin reg \/ job[k].saved, k \in reports
        PROVE  Poll(k)' \in {"completed", "absent"}
    <3>1. k \in reg' => job'[k].saved
      BY <2>1, <2>3 DEF Moves, Continues, Ends, Starts, Forgotten, JobOK
    <3> QED BY <3>1
  <2>4. Poll(k) = "running" => Poll(k)' # "queued"
    <3>1. job[k].detail \notin {"queued", "running"}
      BY DEF TypeOK, JobRecord
    <3>2. job'[k].detail # "queued"
      BY <2>1, <3>1 DEF Moves, Continues, Ends, Starts, Forgotten, NewJob
    <3>3. Poll(k)' = "queued" => k \in reg' /\ job'[k].status = "queued"
      BY <3>2
    <3>4. Poll(k) = "running" => k \in reg /\ job[k].status = "running"
      BY <3>1
    <3>5. ASSUME k \in reg, job[k].status = "running"
          PROVE  job'[k].status # "queued"
      <4>1. ~Starts(k)
        BY <2>1, <3>5 DEF Starts, JobOK
      <4>2. Continues(k) \/ Ends(k) \/ Forgotten(k)
        BY <2>1, <4>1 DEF Moves
      <4> QED BY <3>5, <4>2 DEF Continues, Ends, Forgotten, NewJob
    <3> QED BY <3>3, <3>4, <3>5
  <2>5. ASSUME Poll(k) \in {"completed", "failed"}
        PROVE  Poll(k)' \in {Poll(k), "absent"} \/ k \in unsure'
    <3>1. CASE k \in reg /\ ~job[k].saved
      BY <2>2, <2>5, <3>1
    <3>2. CASE k \notin reg \/ job[k].saved
      <4>1. k \in reports /\ Poll(k) = "completed"
        BY <2>5, <3>2
      <4> QED BY <2>3, <3>2, <4>1
    <3> QED BY <3>1, <3>2
  <2> HIDE DEF Poll
  <2> QED BY <2>4, <2>5
<1> QED BY <1>1, TypeCorrect, JobInvariantHolds, OutcomeInvariantHolds, AnswersHold, PTL
        DEF Spec, PollMovesForward

-------------------------------------------------------------------------------
(* The manager implements the life cycle a client relies on.                *)

\* No step resurrects a run or skips the commit: the phase its owner sees moves
\* along the life cycle.
LEMMA PhaseMoves ==
  ASSUME TypeOK, JobInvariant, JobInvariant', OutcomeInvariant, [Next]_vars, NEW k \in Jobs
  PROVE  /\ PhaseOf(k)' # PhaseOf(k) => <<PhaseOf(k), PhaseOf(k)'>> \in Lifecycle!Moves
         /\ PhaseOf(k)' = "saved" => k \notin acked'
         /\ k \in acked' \ acked => PhaseOf(k) = "live"
<1>1. Moves(k) /\ JobOK(k) /\ RunOK(k) /\ JobOK(k)'
  BY EveryStepMoves DEF JobInvariant, OutcomeInvariant
<1> HIDE DEF Lifecycle!Moves
<1> USE DEF PhaseOf, Unfinished, LockFree
<1>2. CallbackDue(k) => k \in reg /\ Unfinished(k)
  BY <1>1 DEF CallbackDue, JobOK, RunOK
<1>3. PhaseOf(k)' = "saved" => k \notin acked'
  BY <1>1 DEF JobOK
<1>4. k \in acked' \ acked => PhaseOf(k) = "live"
  BY <1>1 DEF Moves, JobOK
<1>5. CASE PhaseOf(k) = "new"
  <2>1. k \notin reg /\ k \notin reports /\ req[k] \in {"idle", "row"}
    BY <1>5
  <2>2. k \notin reports'
    BY <1>1, <1>2, <2>1 DEF Moves
  <2>3. k \in reg' => PhaseOf(k)' = "live"
    BY <1>1, <2>1, <2>2 DEF Moves, Starts, NewJob
  <2>4. k \notin reg' => PhaseOf(k)' \in {"new", "gone"}
    BY <2>2
  <2> QED BY <1>3, <1>4, <1>5, <2>3, <2>4 DEF Lifecycle!Moves
<1>6. CASE PhaseOf(k) = "live"
  <2>1. k \in reg /\ k \notin reports /\ Unfinished(k)
    BY <1>6
  <2>2. req[k] \notin {"idle", "row"} /\ req'[k] \notin {"idle", "row"} /\ ~Starts(k)
    BY <1>1, <2>1 DEF JobOK, Moves, Starts
  <2>3. k \in reports' => PhaseOf(k)' = "saved"
    OBVIOUS
  <2>4. k \notin reports' /\ k \in reg' => PhaseOf(k)' \in {"live", "ended"}
    BY <1>1, <2>1, <2>2 DEF Moves, Continues, Ends, Forgotten, JobOK
  <2>5. k \notin reports' /\ k \notin reg' => PhaseOf(k)' = "gone"
    BY <2>2
  <2> QED BY <1>3, <1>4, <1>6, <2>3, <2>4, <2>5 DEF Lifecycle!Moves
<1>7. CASE PhaseOf(k) = "ended"
  <2>1. k \in reg /\ k \notin reports /\ ~Unfinished(k) /\ ~job[k].saved
    BY <1>7
  <2>2. req'[k] \notin {"idle", "row"} /\ ~Starts(k) /\ k \notin reports'
    BY <1>1, <1>2, <2>1 DEF JobOK, Moves, Starts
  <2>3. k \in reg' => PhaseOf(k)' = "ended"
    BY <1>1, <2>1, <2>2 DEF Moves, Continues, Ends, Forgotten
  <2>4. k \notin reg' => PhaseOf(k)' = "gone"
    BY <2>2
  <2> QED BY <1>3, <1>4, <1>7, <2>3, <2>4 DEF Lifecycle!Moves
<1>8. CASE PhaseOf(k) = "saved"
  <2>1. k \in reports
    BY <1>8
  <2>2. req'[k] \notin {"idle", "row"}
    BY <1>1, <2>1 DEF JobOK, Moves
  <2>3. k \in reports' => PhaseOf(k)' = "saved"
    OBVIOUS
  <2>4. k \notin reports' /\ k \in reg' => PhaseOf(k)' = "gone"
    BY <1>1, <2>1 DEF Moves, Continues, JobOK
  <2>5. k \notin reports' /\ k \notin reg' => PhaseOf(k)' = "gone"
    BY <2>2
  <2> QED BY <1>3, <1>4, <1>8, <2>3, <2>4, <2>5 DEF Lifecycle!Moves
<1>9. CASE PhaseOf(k) = "gone"
  <2>1. /\ k \notin reports /\ (k \in reg => ~Unfinished(k) /\ job[k].saved)
        /\ req[k] \notin {"idle", "row"}
    BY <1>1, <1>9 DEF JobOK
  <2>2. req'[k] \notin {"idle", "row"} /\ ~Starts(k) /\ k \notin reports'
    BY <1>1, <1>2, <2>1 DEF Moves, Starts
  <2>3. k \in reg' => k \in reg /\ Continues(k)
    BY <1>1, <2>1, <2>2 DEF Moves, Ends, Forgotten
  <2> QED BY <1>3, <1>4, <1>9, <2>1, <2>2, <2>3 DEF Continues
<1> QED BY <1>5, <1>6, <1>7, <1>8, <1>9

\* The manager with its two tables implements RunLifecycle: a client that polls,
\* cancels and deletes sees a run that is live, then saved or ended, then gone, and
\* never a save after an accepted cancellation, across prunes, shutdown and crashes.
THEOREM ManagerImplementsLifecycle == Spec => RefinesLifecycle
<1>1. Init => Lifecycle!Init
  BY DEF Init, Lifecycle!Init, PhaseOf
<1>2. TypeOK /\ TypeOK' /\ JobInvariant /\ JobInvariant' /\ OutcomeInvariant /\ [Next]_vars
        => [Lifecycle!Next]_<<[j \in Jobs |-> PhaseOf(j)], acked>>
  <2> SUFFICES ASSUME TypeOK, TypeOK', JobInvariant, JobInvariant', OutcomeInvariant, [Next]_vars
               PROVE  Lifecycle!Next
    OBVIOUS
  <2>1. [j \in Jobs |-> PhaseOf(j)]' \in [Jobs -> Lifecycle!Phases]
    BY DEF PhaseOf, Lifecycle!Phases
  <2>2. acked \subseteq acked' /\ acked' \subseteq Jobs
    BY EveryStepMoves DEF Moves, TypeOK
  <2>3. \A j \in Jobs : Lifecycle!Move(j)
    BY PhaseMoves DEF Lifecycle!Move
  <2> QED BY <2>1, <2>2, <2>3 DEF Lifecycle!Next
<1> QED BY <1>1, <1>2, TypeCorrect, JobInvariantHolds, OutcomeInvariantHolds, PTL
        DEF Spec, RefinesLifecycle, Lifecycle!Spec
===============================================================================
