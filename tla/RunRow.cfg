\* A user run and a validation run, two calls of run_job, deaths, restarts and
\* every combination of faults.
CONSTANTS
    u = u
    v = v
    a = a
    b = b
    Runs = {u, v}
    Validation = {v}
    Workers = {a, b}
    Faults = {"claim_raises", "dies_early", "missed_beats"}
SPECIFICATION Spec
SYMMETRY Symmetry
INVARIANTS
    ClaimExclusive
    WorkerKeepsRow
    VerdictMatchesRun
PROPERTY
    HealthyRunsStayEnded
