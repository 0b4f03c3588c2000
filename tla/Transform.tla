----------------------------- MODULE Transform -----------------------------
(***************************************************************************)
(* transform of pkg/provider/updater.go, with the Node and Listener        *)
(* builders of node.go and listener.go: from the clusters a provider       *)
(* reports per node to the Envoy resources of every node.                  *)
(*                                                                         *)
(* Go iterates over maps in a random order, so an operator that depends on *)
(* it takes the order as a parameter: a sequence of the map's keys.  The   *)
(* names "beta.svc" and "local_beta.svc" of Envoy clusters are the records *)
(* Global("beta.svc") and Local("beta.svc").                               *)
(***************************************************************************)
EXTENDS Annotations, FiniteSets

CONSTANTS
    IngressPort,   \* defaultIngressTrafficPort
    Ingress        \* the name "ingress" of the front proxy's node

Global(service) == [scope |-> "global", service |-> service]
Local(service) == [scope |-> "local", service |-> service]

-----------------------------------------------------------------------------
(* makeEgressEndpoints keeping the port of the service.                    *)
keepEndpoints(eps) == eps

(* Endpoints of other nodes are reached through their sidecar.             *)
makeEgressEndpoints(eps) ==
    [i \in DOMAIN eps |-> [eps[i] EXCEPT !.port = IngressPort]]

makeEgressClusters(clusters) ==
    [i \in DOMAIN clusters |->
        [name      |-> Global(clusters[i].name),
         endpoints |-> makeEgressEndpoints(clusters[i].endpoints)]]

(* The local cluster without its prefix.                                   *)
unprefixedCluster(cluster) ==
    [name |-> Global(cluster.name), endpoints |-> cluster.endpoints]

(* The cluster behind a node's own ingress route.                          *)
localCluster(cluster) ==
    [name |-> Local(cluster.name), endpoints |-> cluster.endpoints]

createEnvoyVHost(hostname, cluster) == [host |-> hostname, cluster |-> cluster]

createEnvoyEndpoint(eps) ==
    [i \in DOMAIN eps |->
        [address |-> eps[i].address, port |-> eps[i].port, weight |-> weightOf(eps[i])]]

createEnvoyCluster(cluster) ==
    LET cfg == ClusterConfig(cluster)
    IN  [circuitBreaker |-> cfg.circuitBreaker, healthCheck |-> cfg.healthCheck]

-----------------------------------------------------------------------------
(* What AddCluster makes of a sequence of clusters: the first cluster of a *)
(* name gives the configuration, and all of them give their endpoints.     *)
firstNamed(clusters, name) ==
    CHOOSE i \in DOMAIN clusters :
        /\ clusters[i].name = name
        /\ \A j \in DOMAIN clusters : clusters[j].name = name => i <= j

clusterMap(clusters) ==
    [name \in {clusters[i].name : i \in DOMAIN clusters} |->
        createEnvoyCluster(clusters[firstNamed(clusters, name)])]

endpointMap(clusters) ==
    [name \in {clusters[i].name : i \in DOMAIN clusters} |->
        FlattenSeq([i \in DOMAIN clusters |->
            IF clusters[i].name = name THEN createEnvoyEndpoint(clusters[i].endpoints)
            ELSE <<>>])]

(* AddRoute without the vhostExists test.                                  *)
addAllVHosts(vhosts, new) == vhosts \o new

(* AddRoute: a virtual host whose name the route has is left out.          *)
addVHosts(vhosts, new) ==
    LET added[k \in 0..Len(new)] ==
            IF k = 0 THEN vhosts
            ELSE IF \E i \in DOMAIN added[k - 1] : added[k - 1][i].host = new[k].host
                 THEN added[k - 1]
                 ELSE Append(added[k - 1], new[k])
    IN  added[Len(new)]

-----------------------------------------------------------------------------
(* A listener's HTTP filters: each Inject prepends one.                    *)
routerFilter == <<[filter |-> "router", config |-> <<>>]>>

InjectHealthCheckCache(filters, cfg) ==
    <<[filter |-> "health_check",
       config |-> <<<<cfg.healthCheck.cacheDuration>>, cfg.healthCheck.path>>]>> \o filters

(* InjectFault appending instead of prepending.                            *)
appendFault(filters, cfg) ==
    IF ~ cfg.enabled THEN filters
    ELSE filters \o <<[filter |-> "fault", config |-> <<>>]>>

InjectFault(filters, cfg) ==
    IF ~ cfg.enabled THEN filters ELSE
    <<[filter |-> "fault",
       config |-> <<IF cfg.abortChance > 0 /\ cfg.abortCode > 0
                    THEN <<cfg.abortCode, cfg.abortChance>> ELSE <<>>,
                    IF cfg.delayChance > 0 /\ cfg.delayDuration > 0
                    THEN <<cfg.delayDuration, cfg.delayChance>> ELSE <<>>>>]>>
    \o filters

InjectAuthz(filters) == <<[filter |-> "ext_authz", config |-> <<>>]>> \o filters

(* NewListener ignoring its TargetRoute.                                   *)
egressListener(name, route, filters) ==
    [name |-> name, route |-> "egress_route", filters |-> filters]

NewListener(name, route, filters) == [name |-> name, route |-> route, filters |-> filters]

(* The ingress listener of a node collects the filters of its clusters.    *)
ingressFilters(clusters) ==
    LET injected[k \in 0..Len(clusters)] ==
            IF k = 0 THEN routerFilter
            ELSE LET cfg == ClusterConfig(clusters[k])
                 IN  InjectFault(InjectHealthCheckCache(injected[k - 1], cfg), cfg.fault)
    IN  injected[Len(clusters)]

-----------------------------------------------------------------------------
(* The two global lists, in the order the provider's map is walked.        *)
globalCluster(provider, order) ==
    FlattenSeq([i \in DOMAIN order |-> makeEgressClusters(provider[order[i]])])

globalVHosts(provider, order) ==
    LET clusters == globalCluster(provider, order)
    IN  [i \in DOMAIN clusters |->
            createEnvoyVHost(clusters[i].name.service, clusters[i].name)]

(* Parsing the annotations of a cluster panics: so does transform, which   *)
(* parses those of every cluster at least once.                            *)
transformPanics(provider) ==
    \E n \in DOMAIN provider : \E i \in DOMAIN provider[n] :
        ClusterConfig(provider[n][i]) = Panic

(* The Node of a node that the provider reports.                           *)
transformNode(provider, order, n) ==
    LET own      == provider[n]
        clusters == globalCluster(provider, order)
                      \o [i \in DOMAIN own |-> localCluster(own[i])]
        egress   == addVHosts(<<>>, globalVHosts(provider, order))
        ingress  == addVHosts(<<>>, [i \in DOMAIN own |->
                       createEnvoyVHost(own[i].name, Local(own[i].name))])
    IN  [name      |-> n,
         clusters  |-> clusterMap(clusters),
         endpoints |-> endpointMap(clusters),
         routes    |-> IF own = <<>> THEN [egress_route |-> egress]
                       ELSE [egress_route |-> egress, ingress_route |-> ingress],
         listeners |-> <<NewListener("default-ingress", "ingress_route", ingressFilters(own)),
                         NewListener("default-egress", "egress_route", routerFilter)>>]

(* The Node of the front proxy.                                            *)
transformIngress(provider, order) ==
    LET clusters == globalCluster(provider, order)
    IN  [name      |-> Ingress,
         clusters  |-> clusterMap(clusters),
         endpoints |-> endpointMap(clusters),
         routes    |-> [ingress_route |-> addVHosts(<<>>, globalVHosts(provider, order))],
         listeners |-> <<NewListener("", "ingress_route", InjectAuthz(routerFilter))>>]

(* All nodes, the front proxy last.                                        *)
transform(provider, order, nodeOrder) ==
    [i \in DOMAIN nodeOrder |-> transformNode(provider, order, nodeOrder[i])]
      \o <<transformIngress(provider, order)>>

-----------------------------------------------------------------------------
(* A version made of the names of the endpoint groups only.                *)
versionOfNames(endpoints, order) == [i \in DOMAIN order |-> <<order[i], <<>>>>]

(* computeVersion hashes the endpoint groups in the order that walking the *)
(* map gives them; the hash is taken to be injective.                      *)
computeVersion(endpoints, order) ==
    [i \in DOMAIN order |-> <<order[i], endpoints[order[i]]>>]

(* Every resource carries its name.                                        *)
GetResourceName(res) == res.name

(* Of the resources of one name the map keeps the last.                    *)
IndexResourcesByName(resources) ==
    [name \in {GetResourceName(resources[i]) : i \in DOMAIN resources} |->
        resources[CHOOSE i \in DOMAIN resources :
                     /\ GetResourceName(resources[i]) = name
                     /\ \A j \in DOMAIN resources :
                           GetResourceName(resources[j]) = name => j <= i]]

(* NewSnapshot gives all its groups the one version.  A Node keeps its     *)
(* other resources in maps, so their names are distinct.                   *)
NewSnapshot(version, node) ==
    [version   |-> version,
     endpoints |-> node.endpoints,
     clusters  |-> node.clusters,
     routes    |-> node.routes,
     listeners |-> IndexResourcesByName(node.listeners)]

(* GetResourceReferences: a cluster, always of type EDS, refers to the     *)
(* load assignment of its name, and a listener to the route of its HTTP    *)
(* connection manager.                                                     *)
GetResourceReferences(type, resources) ==
    IF type = "clusters" THEN DOMAIN resources
    ELSE {resources[name].route : name \in DOMAIN resources}

(* Snapshot.Consistent: the EDS groups are those the clusters refer to, by *)
(* number and by name, and the routes those the listeners refer to.        *)
Consistent(snapshot) ==
    LET endpointRefs == GetResourceReferences("clusters", snapshot.clusters)
        routeRefs    == GetResourceReferences("listeners", snapshot.listeners)
    IN  /\ Cardinality(endpointRefs) = Cardinality(DOMAIN snapshot.endpoints)
        /\ DOMAIN snapshot.endpoints \subseteq endpointRefs
        /\ Cardinality(routeRefs) = Cardinality(DOMAIN snapshot.routes)
        /\ DOMAIN snapshot.routes \subseteq routeRefs
=============================================================================
