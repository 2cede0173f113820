\* Threads, cancellations and restarts: an acquisition and an archive walk, two
\* jobs, one cancellation, one failing write and one restart; keys are
\* in MCJobKeys.cfg.  The program stops when every identifier is drawn and every
\* job has ended.
SPECIFICATION FairSpec
CONSTANTS
    Request = {fetch, walk}
    Acquiring = {fetch}
    Principal = {p1}
    Key = {}
    NoKey = NoKey
    Canceller = {c1}
    MaxJobs = 2
    PageLimit = 1
    MaxFailures = 1
    MaxRestarts = 1
    None = None
INVARIANTS
    TypeOK
    OneActivePerRequest
PROPERTIES
    TerminalIsFinal
    StartupEndsEveryJob
    EveryJobEnds
CHECK_DEADLOCK FALSE
