SPECIFICATION CacheSpec
CONSTANTS
    n1 = n1
    n2 = n2
    T1 = T1
    T2 = T2
    a = a
    b = b
    x = x
    y = y
    v0 = v0
    v1 = v1
    v2 = v2
    c1 = c1
    c2 = c2
    Nil = Nil
    Node = {n1, n2}
    DefaultNode = n2
    ResponseType = {T1}
    Type = {T1, T2}
    Name = {a, b}
    Content = {x, y}
    Version = {v0, v1, v2}
    NoVersion = v0
    ADS = FALSE
    Caller = {c1, c2}
    Chan = {h1, h2, h3, h4}
    MaxWatches = 3
    Snapshots <- MCSnapshots
    Requests <- MCRequests
SYMMETRY MCSymmetry
INVARIANTS
    CacheInv
    ChannelsNeverBlock
    OpenWatchesCurrent
    CancelIsOwn
    NoEmptyUpdate
PROPERTIES
    FetchAgrees
    SetSnapshotAnswers
    NeverDropped
