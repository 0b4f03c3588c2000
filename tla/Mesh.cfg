SPECIFICATION MeshSpec
\* When the bounded updates are used up, a quiet stream waits for ever.
CHECK_DEADLOCK FALSE
CONSTANTS
    n1 = n1
    T1 = T1
    T2 = T2
    a = a
    b = b
    x = x
    y = y
    v0 = v0
    v1 = v1
    v2 = v2
    Nil = Nil
    AnyType = AnyType
    Node = {n1}
    DefaultNode = n1
    Sidecar = n1
    ResponseType = {T1}
    Type = {T1, T2}
    Name = {a, b}
    Content = {x, y}
    BadContent = {}
    Version = {v0, v1, v2}
    NoVersion = v0
    ADS = FALSE
    Chan = {h1, h2, h3}
    MaxWatches = 100
    Stream = {s1, s2}
    MaxNonce = 100
    Callbacks = FALSE
    MaxUpdates = 1
    MaxEvents = 2
    StreamType <- MCEdsStream
    CancelOrder <- MCOrder1
    Caller <- MCCaller
    Messages <- MCMessages
    Snapshots <- MCSnapshots
    Requests <- MCRequests
    InitialWant <- MCWantOne
INVARIANTS
    QuietMeansCurrent
    MeshInv
PROPERTY SidecarConverges
