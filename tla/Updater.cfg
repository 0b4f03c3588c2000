SPECIFICATION UpdaterSpec
\* A panic ends the control plane.
CHECK_DEADLOCK FALSE
CONSTANTS
    alpha = alpha
    beta = beta
    svcA = svcA
    svcB = svcB
    ip1 = ip1
    ip2 = ip2
    ip3 = ip3
    Nil = Nil
    Ingress = ingress
    UInt32Size = 1024
    IngressPort = 4100
    MaxChanges = 1
    ProviderNode = {alpha, beta}
    Providers <- MCProviders
INVARIANTS
    MeshComplete
    OneVHostPerService
    RoutesResolve
    ExposingConsistent
    FiltersOrdered
    WeightsValid
    EndpointsDelivered
    UpdaterInv
PROPERTY Converges
