\* Idempotency keys: two principals that may use the same two keys, up to two
\* jobs of two archive walks, one failing write and two restarts, at any write of
\* a submission.  Acquisitions and cancellations are in MCJobStore.cfg.
SPECIFICATION Spec
CONSTANTS
    Request = {walk, other}
    Acquiring = {}
    Principal = {p1, p2}
    Key = {k1, k2}
    NoKey = NoKey
    Canceller = {}
    MaxJobs = 2
    PageLimit = 1
    MaxFailures = 1
    MaxRestarts = 2
    None = None
SYMMETRY Symmetry
INVARIANTS
    RecordsIndexed
    AnswersHold
CHECK_DEADLOCK FALSE
