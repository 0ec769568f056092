\* A user run stuck in strategy code and an internal upload on two workers: the
\* upload's run ends and settles its row, and so does a shutdown.
CONSTANTS
    u1 = u1
    u2 = u2
    v1 = v1
    n1 = n1
    Jobs = {u2, n1}
    Validation = {n1}
    Unowned = {n1}
    Hangs = {u2}
    MaxWorkers = 2
SPECIFICATION FairSpec

CONSTRAINT LeftAlone
PROPERTIES DispatchedJobsEnd ShutdownEnds UploadSettles
