\* Three first requests for an identity that is new, or has a row from before
\* the marker with any of the earlier reports.
CONSTANTS
    Identities = {i}
    Requests = {a, b, c}
    NoOne = NoOne
SPECIFICATION Spec
INVARIANTS
    FlushNeverCollides
    OneOwnerPerIdentity
PROPERTY
    StarterReportsComeOnce
