\* Two processes, one pull-through each of the same files, one fault; the
\* revision may be half removed.  Everything may have ended.
SPECIFICATION FairSpec
CONSTANTS
    Request = {w1, w2}
    Dir = {d1, d2, d3}
    All = all
    Selection = {all}
    Operation = {"pull_through"}
    Blocked = TRUE
    None = None
    Lease = 2
    MaxAdmitted = 1
    MaxFaults = 1
INVARIANTS
    RenewedIsOwned
PROPERTIES
    EveryRetryAdmitted
CHECK_DEADLOCK FALSE
