\* Two requests, an upload and a staged row, one loading worker, crashes, the
\* cutover to S3 and the publication of a built-in.
CONSTANTS
    u = u
    u2 = u2
    s = s
    r1 = r1
    r2 = r2
    w = w
    Requests = {r1, r2}
    Workers = {w}
    Uploads = {u, u2}
    Staged = {s}
    Rejected = {}
    NoKey = NoKey
    Free = Free
SPECIFICATION Spec
SYMMETRY Symmetry
CONSTRAINT Separate
INVARIANTS
    RowHasPackage
    LoadedWhole
    FailedUploadLeavesNothing
PROPERTY
    StoredNeverReplaced
