\* Two slots, three repositories, five acquisitions: queues of up to three
\* tickets behind two transfers, with several tickets of one repository.  No
\* symmetry, which liveness would not survive.
\* The program stops when every acquisition has drawn a ticket and ended.
SPECIFICATION FairSpec
CONSTANTS
    Repository = {r1, r2, r3}
    NoRepository = NoRepository
    Limit = 2
    MaxTickets = 5
INVARIANTS
    TypeOK
    SlotsAccounted
    NoStrandedWaiter
    PromoteIsTheLoop
PROPERTIES
    NoOvertaking
    EveryWaitEnds
CHECK_DEADLOCK FALSE
