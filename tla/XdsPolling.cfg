SPECIFICATION PollingSpec
CONSTANTS
    n1 = n1
    T1 = T1
    T2 = T2
    T3 = T3
    a = a
    b = b
    x = x
    y = y
    bad = bad
    v0 = v0
    v1 = v1
    v2 = v2
    p1 = p1
    p2 = p2
    Nil = Nil
    Node = {n1}
    DefaultNode = n1
    ResponseType = {T1, T2}
    Type = {T1, T2, T3}
    Name = {a, b}
    Content = {x, y, bad}
    BadContent = {bad}
    Version = {v0, v1, v2}
    NoVersion = v0
    ADS = FALSE
    Caller = {}
    Chan = {}
    Requests = {}
    MaxWatches = 0
    Callbacks = TRUE
    Poller = {p1, p2}
    PollType <- MCPollType
    PollNames <- MCPollNames
    PollNode <- MCPollNode
    Snapshots <- MCSnapshots
INVARIANTS
    PolledTogether
PROPERTY PollersConverge
