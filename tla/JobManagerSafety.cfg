\* One user run and one owned upload on one worker: every interleaving of the
\* requests, the pool, the callbacks, shutdown, crashes and restarts.
CONSTANTS
    u1 = u1
    u2 = u2
    v1 = v1
    n1 = n1
    Jobs = {u1, v1}
    Validation = {v1}
    Unowned = {}
    Hangs = {}
    MaxWorkers = 1
SPECIFICATION Spec
INVARIANTS
    CancelPreventsSave
    FinishedNeverExecutes
    NoOrphanedJob
    IpcOutlivesCallbacks
    RunInOnePlace
    VerdictMatchesReport
    NoStaleValidation
PROPERTIES
    PollMovesForward
    RefinesLifecycle
