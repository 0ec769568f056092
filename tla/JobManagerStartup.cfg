\* One owned upload: what a restart leaves validating.
CONSTANTS
    u1 = u1
    u2 = u2
    v1 = v1
    n1 = n1
    Jobs = {v1}
    Validation = {v1}
    Unowned = {}
    Hangs = {}
    MaxWorkers = 1
SPECIFICATION Spec
INVARIANTS ReconciledAtStartup

