\* An acquisition, an import and a remover on two commits of two paths, three
\* operations, one of which may die, and one loss of power.  Everything may have
\* ended.
SPECIFICATION Spec
CONSTANTS
    c1 = c1
    c2 = c2
    main = main
    p1 = p1
    p2 = p2
    f1 = f1
    f2 = f2
    i1 = i1
    m1 = m1
    Commit = {c1, c2}
    Ref = {main}
    Path = {p1, p2}
    Writer = {f1, f2, i1}
    Fetching = {f1, f2}
    Remover = {m1}
    MaxOperations = 3
    MaxStops = 1
    MaxLosses = 1
    Torn = Torn
    None = None
SYMMETRY Symmetry
INVARIANTS
    TypeOK
    ListedIsIntact
    OwnWorkIsKept
    SettledVerifies
PROPERTIES
    ImplementsArchive
CHECK_DEADLOCK FALSE
