SPECIFICATION XdsSpec
CONSTANTS
    n1 = n1
    T1 = T1
    T2 = T2
    T3 = T3
    a = a
    x = x
    bad = bad
    v0 = v0
    v1 = v1
    v2 = v2
    s1 = s1
    Nil = Nil
    AnyType = AnyType
    Node = {n1}
    DefaultNode = n1
    ResponseType = {T1, T2}
    Type = {T1, T2, T3}
    Name = {a}
    Content = {x, bad}
    BadContent = {bad}
    Version = {v0, v1, v2}
    NoVersion = v0
    ADS = FALSE
    Chan = {h1, h2, h3}
    MaxWatches = 2
    Stream = {s1}
    MaxNonce = 2
    Callbacks = TRUE
    StreamType <- MCAdsStream
    CancelOrder <- MCOrder
    Caller <- MCCaller
    Messages <- MCMessages
    Snapshots <- MCSnapshots
    Requests <- MCRequests
INVARIANTS
    StreamInv
    NoOrphanWatch
    RequestNotLost
    NothingUnasked
    NoncesIdentify
PROPERTIES
    StreamCleanedUp
    ReadyIsSent
