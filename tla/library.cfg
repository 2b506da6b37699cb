SPECIFICATION Spec
CONSTANTS
    i1 = i1
    i2 = i2
    r1 = r1
    r2 = r2
    r3 = r3
    f1 = f1
    f2 = f2
    n1 = n1
    n2 = n2
    d1 = d1
    d2 = d2
    x1 = x1
    x2 = x2
    q1 = q1
    q2 = q2
    p1 = p1
    p2 = p2
    Items = {i1, i2}
    Grown = {f1, f2}
    Requests = {r1, r2, r3}
    Unfiled = Unfiled
    LastPeriod = 2
    MaxDepth = 2
    Notes = {n1, n2}
    Removals = {d1, d2}
    MaxReceives = 2
    Readers = {x1, x2}
    Devices = {dev1, dev2}
    PushReceives = 2
    Followers = {q1, q2}
    Polls = {p1, p2}
    Guids = {g1}
    Listings = 2
    PollReceives = 2
    Loads <- MCLoads
SYMMETRY Symmetry
INVARIANTS
    FoldersFormATree
    SearchForgets
    DigestIsTold
    ItemRoutedOnce
PROPERTIES
    QuietAfterSignOut
CHECK_DEADLOCK FALSE
