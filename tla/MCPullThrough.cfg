\* Two callers with any two requests of a day, two commits, of which upstream
\* reaches the second at any moment, one mishap: upstream fails, a flight is
\* cancelled or a client's deadline passes.
\* Everything may have been answered.
SPECIFICATION FairSpec
CONSTANTS
    a = a
    b = b
    p = p
    q = q
    r = r
    Caller = {a, b}
    Path = {p, q, r}
    Files <- TwoCommits
    Wishes <- DayPairs
    Main = main
    None = None
    MaxMishaps = 1
INVARIANTS
    TypeOK
    AskedIsArchived
    WaitedTransfersTheRest
    NameIsLearned
PROPERTIES
    CancelledChangesNothing
    EveryCallerAnswered
CHECK_DEADLOCK FALSE
