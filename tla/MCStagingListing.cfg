\* Two processes, one acquisition each, two directories, two faults of any
\* kind (a death, a fetch that fails, a heartbeat that misses, a removal), a
\* revision that may be half removed.  Everything may have ended.
SPECIFICATION SpecListing
CONSTANTS
    Request = {w1, w2}
    Dir = {d1, d2}
    All = all
    Selection = {all, part}
    Operation = {"pull_through", "refresh"}
    Blocked = TRUE
    None = None
    Lease = 2
    MaxAdmitted = 1
    MaxFaults = 2
SYMMETRY Symmetry
INVARIANTS
    TypeOK
    LeaseProtects
    ListingTells
PROPERTIES
    CommittedKept
CHECK_DEADLOCK FALSE
