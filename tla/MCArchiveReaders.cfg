\* A reader of any kind against two acquisitions and a remover on two commits of
\* two paths: two operations of the store, one of which may die, and one loss of
\* power.  Everything may have ended.
SPECIFICATION SpecReaders
CONSTANTS
    c1 = c1
    c2 = c2
    main = main
    p1 = p1
    p2 = p2
    f1 = f1
    f2 = f2
    m1 = m1
    r1 = r1
    Commit = {c1, c2}
    Ref = {main}
    Path = {p1, p2}
    Writer = {f1, f2}
    Fetching = {f1, f2}
    Remover = {m1}
    MaxOperations = 2
    MaxStops = 1
    MaxLosses = 1
    Torn = Torn
    None = None
    Reader = {r1}
    Operation = {"get", "describe", "list", "verify", "audit", "check"}
SYMMETRY Symmetry
INVARIANTS
    ReadersTypeOK
    HeldIsServed
    VerifyTells
    ReportIsTrue
CHECK_DEADLOCK FALSE
