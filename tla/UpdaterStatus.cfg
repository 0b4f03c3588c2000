SPECIFICATION UpdaterSpec
CONSTANTS
    alpha = alpha
    beta = beta
    svcA = svcA
    svcB = svcB
    ip1 = ip1
    ip2 = ip2
    ip3 = ip3
    Nil = Nil
    Ingress = ingress
    UInt32Size = 1024
    IngressPort = 4100
    MaxChanges = 1
    ProviderNode = {alpha, beta}
    Providers <- MCStatusProviders
INVARIANTS
    StatusHonoured
