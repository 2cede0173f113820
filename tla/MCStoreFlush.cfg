\* One acquisition and a loss of power.
SPECIFICATION Spec
CONSTANTS
    c1 = c1
    c2 = c2
    main = main
    p1 = p1
    p2 = p2
    f1 = f1
    f2 = f2
    i1 = i1
    m1 = m1
    Commit = {c1}
    Ref = {main}
    Path = {p1}
    Writer = {f1}
    Fetching = {f1}
    Remover = {}
    MaxOperations = 3
    MaxStops = 0
    MaxLosses = 1
    Torn = Torn
    None = None
INVARIANTS
    PublishedIsFlushed
CHECK_DEADLOCK FALSE
