SPECIFICATION FargateSpec
\* A panic ends the control plane.
CHECK_DEADLOCK FALSE
CONSTANTS
    c1 = c1
    c2 = c2
    d1 = d1
    d2 = d2
    app = app
    proxy = proxy
    svcA = svcA
    svcB = svcB
    ip1 = ip1
    ip2 = ip2
    ip3 = ip3
    id1 = id1
    id2 = id2
    id3 = id3
    Nil = Nil
    UInt32Size = 4096
    WindowSize = 1
    Cluster = {c1, c2}
    Task <- MCTwoTasks
    Definition <- MCDefinition
INVARIANT DefinitionFailureTolerated
