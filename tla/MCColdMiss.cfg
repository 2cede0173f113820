\* A client with a deadline, which asks again, and a job without one; two
\* flights, helpers that write up to two lines.  Everything may have been
\* answered.
SPECIFICATION FairSpec
CONSTANTS
    Waiter = {client, job}
    Bounded = {client}
    MaxFlights = 2
    MaxLines = 2
    Class = {gone, denied}
    None = None
INVARIANTS
    TypeOK
    OneFlight
    ToldTheEnd
    NoOrphan
    ReasonIsTold
PROPERTIES
    EveryWaitEnds
CHECK_DEADLOCK FALSE
