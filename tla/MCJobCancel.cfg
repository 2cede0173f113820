\* A cancellation beside the start of its job; no write fails, no restart.
SPECIFICATION Spec
CONSTANTS
    Request = {fetch}
    Acquiring = {fetch}
    Principal = {p1}
    Key = {}
    NoKey = NoKey
    Canceller = {c1}
    MaxJobs = 1
    PageLimit = 1
    MaxFailures = 0
    MaxRestarts = 0
    None = None
INVARIANTS
    CancelledPublishedNothing
CHECK_DEADLOCK FALSE
