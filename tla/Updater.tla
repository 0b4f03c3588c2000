------------------------------ MODULE Updater ------------------------------
(***************************************************************************)
(* Updater.Run of pkg/provider/updater.go: poll the provider, transform    *)
(* what it reports, and set one snapshot per node, every ten seconds.      *)
(*                                                                         *)
(* Each node also has a sidecar that keeps a watch open and acknowledges   *)
(* what it receives.  What such a watcher gets is what SnapshotCache       *)
(* promises it: the new snapshot, if its version is another one.           *)
(***************************************************************************)
EXTENDS Transform

CONSTANTS
    ProviderNode,   \* the nodes a provider may report
    Providers,      \* what GetClusters may return
    MaxChanges,     \* bound: how often the provider's report changes
    Nil

(* The types Endpoint and Cluster of the provider package, and the map     *)
(* from node IDs to slices of clusters that GetClusters returns.           *)
IsSlice(s) == s \in Seq(ToSet(s))

IsEndpoint(ep) ==
    /\ ep = [address |-> ep.address, port |-> ep.port, annotations |-> ep.annotations]
    /\ \A key \in DOMAIN ep.annotations : ep.annotations[key] \in Value

IsCluster(cluster) ==
    IsSlice(cluster.endpoints) /\ \A ep \in ToSet(cluster.endpoints) : IsEndpoint(ep)

IsReport(p) ==
    /\ DOMAIN p \subseteq ProviderNode /\ IsFiniteSet(DOMAIN p)
    /\ \A n \in DOMAIN p : IsSlice(p[n]) /\ \A cluster \in ToSet(p[n]) : IsCluster(cluster)

ASSUME UpdaterAssumption ==
    /\ Ingress \notin ProviderNode
    /\ \A p \in Providers : IsReport(p)
    /\ MaxChanges \in Nat

VARIABLES
    provider,   \* what the provider would report now
    changes,    \* bound: how often that has changed
    pc,         \* where Run is
    polled,     \* what it reported at the last poll that succeeded
    todo,       \* the nodes of that poll that have no snapshot yet
    served,     \* the snapshot of every node in the cache
    received    \* the snapshot the sidecar of every node received last

updaterVars == <<provider, changes, pc, polled, todo, served, received>>

AnyNode == ProviderNode \cup {Ingress}

UpdaterInit ==
    /\ provider \in Providers
    /\ changes = 0
    /\ pc = "poll"
    /\ polled = Nil
    /\ todo = <<>>
    /\ served = [n \in AnyNode |-> Nil]
    /\ received = [n \in AnyNode |-> Nil]

(* Tasks start and stop, or the configuration file is edited.              *)
ProviderChanges ==
    /\ changes < MaxChanges
    /\ changes' = changes + 1
    /\ provider' \in Providers \ {provider}
    /\ UNCHANGED <<pc, polled, todo, served, received>>

(* GetClusters returns an error: everything stays as it is.                *)
PollFails ==
    /\ pc = "poll"
    /\ pc' = "wait"
    /\ UNCHANGED <<provider, changes, polled, todo, served, received>>

(* GetClusters succeeds and transform walks its maps in some order.        *)
Poll ==
    /\ pc = "poll"
    /\ ~ transformPanics(provider)
    /\ pc' = "publish"
    /\ polled' = provider
    /\ \E order, nodeOrder \in SetToSeqs(DOMAIN provider) :
          todo' = transform(provider, order, nodeOrder)
    /\ UNCHANGED <<provider, changes, served, received>>

(* A panic in the goroutine of Run ends the control plane.                 *)
PollPanics ==
    /\ pc = "poll"
    /\ transformPanics(provider)
    /\ pc' = "panicked"
    /\ polled' = provider
    /\ UNCHANGED <<provider, changes, todo, served, received>>

(* SetSnapshot for the next node, and the sidecar's share of it.           *)
Publish ==
    LET node == Head(todo)
    IN  /\ pc = "publish" /\ todo # <<>>
        /\ \E order \in SetToSeqs(DOMAIN node.endpoints) :
              LET snapshot == NewSnapshot(computeVersion(node.endpoints, order), node)
                  last     == received[node.name]
              IN  /\ served' = [served EXCEPT ![node.name] = snapshot]
                  /\ received' = [received EXCEPT ![node.name] =
                        IF last # Nil /\ last.version = snapshot.version
                        THEN last ELSE snapshot]
        /\ todo' = Tail(todo)
        /\ UNCHANGED <<provider, changes, pc, polled>>

(* The last node is done.                                                  *)
RoundEnds ==
    /\ pc = "publish" /\ todo = <<>>
    /\ pc' = "wait"
    /\ UNCHANGED <<provider, changes, polled, todo, served, received>>

(* Ten seconds later.                                                      *)
WaitEnds ==
    /\ pc = "wait"
    /\ pc' = "poll"
    /\ UNCHANGED <<provider, changes, polled, todo, served, received>>

UpdaterNext ==
    \/ ProviderChanges
    \/ PollFails
    \/ Poll
    \/ PollPanics
    \/ Publish
    \/ RoundEnds
    \/ WaitEnds

(* GetClusters returns no error: the control part of Poll and PollPanics,  *)
(* one of which is always possible when Run polls.                         *)
PollAnswered == pc = "poll" /\ pc' \in {"publish", "panicked"}

(* Run never blocks for ever, and a provider that is polled for ever       *)
(* answers sometimes.                                                      *)
UpdaterFairness ==
    /\ WF_updaterVars(Publish \/ RoundEnds \/ WaitEnds)
    /\ SF_pc(PollAnswered)

UpdaterSpec == UpdaterInit /\ [][UpdaterNext]_updaterVars /\ UpdaterFairness

-----------------------------------------------------------------------------
(* What a provider's report means, stated without transform.               *)
ServicesOf(p, n) == {p[n][i].name : i \in DOMAIN p[n]}

Services(p) == UNION {ServicesOf(p, n) : n \in DOMAIN p}

(* The endpoints of a service on the given nodes.                          *)
EndpointsOn(p, nodes, service) ==
    UNION {UNION {ToSet(p[n][i].endpoints) :
                     i \in {j \in DOMAIN p[n] : p[n][j].name = service}} : n \in nodes}

Reachable(ep, port) == [address |-> ep.address, port |-> port, weight |-> weightOf(ep)]

(* The load assignment node n should have for an Envoy cluster.            *)
Expected(p, n, name) ==
    IF name.scope = "global"
    THEN {Reachable(ep, IngressPort) : ep \in EndpointsOn(p, DOMAIN p, name.service)}
    ELSE {Reachable(ep, ep.port) : ep \in EndpointsOn(p, {n}, name.service)}

ExpectedNames(p, n) ==
    {Global(s) : s \in Services(p)}
      \cup {Local(s) : s \in IF n = Ingress THEN {} ELSE ServicesOf(p, n)}

AssignmentsMatch(snapshot, p, n) ==
    /\ DOMAIN snapshot.endpoints = ExpectedNames(p, n)
    /\ \A name \in DOMAIN snapshot.endpoints :
          ToSet(snapshot.endpoints[name]) = Expected(p, n, name)

Targets(p) == DOMAIN p \cup {Ingress}

-----------------------------------------------------------------------------
(* After a round every node that was reported, and the front proxy, can    *)
(* reach every service: all its endpoints, and no other, through the       *)
(* ingress port of their sidecars, and its own ones directly.              *)
MeshComplete ==
    pc = "wait" /\ polled # Nil =>
        \A n \in Targets(polled) : AssignmentsMatch(served[n], polled, n)

(* The egress route of a node, and the front proxy's only route, have      *)
(* exactly one virtual host per service.                                   *)
UniqueVHosts(n, snapshot) ==
    LET vhosts == snapshot.routes[IF n = Ingress THEN "ingress_route" ELSE "egress_route"]
    IN  /\ \A i, j \in DOMAIN vhosts : vhosts[i].host = vhosts[j].host => i = j
        /\ {Global(vhosts[i].host) : i \in DOMAIN vhosts}
             = {name \in DOMAIN snapshot.clusters : name.scope = "global"}

(* Every virtual host leads to a cluster of the snapshot, a local one if   *)
(* it is in the ingress route of a sidecar.                                *)
ResolvedRoutes(n, snapshot) ==
    \A r \in DOMAIN snapshot.routes : \A i \in DOMAIN snapshot.routes[r] :
        LET target == snapshot.routes[r][i].cluster
        IN  /\ target \in DOMAIN snapshot.clusters
            /\ target.scope = (IF n # Ingress /\ r = "ingress_route"
                               THEN "local" ELSE "global")

(* The snapshot of the front proxy or a node with a service is consistent. *)
ConsistentIfExposing(n, snapshot) ==
    n = Ingress \/ (\E name \in DOMAIN snapshot.clusters : name.scope = "local") =>
        Consistent(snapshot)

(* The router is the last filter of a listener and the only one of its     *)
(* kind, and the front proxy authorizes first.                             *)
OrderedFilters(n, snapshot) ==
    \A l \in DOMAIN snapshot.listeners :
        LET filters == snapshot.listeners[l].filters
        IN  /\ \A i \in DOMAIN filters :
                  filters[i].filter = "router" <=> i = Len(filters)
            /\ n = Ingress => filters[1].filter = "ext_authz"

ValidWeights(snapshot) ==
    \A name \in DOMAIN snapshot.endpoints :
        \A ep \in ToSet(snapshot.endpoints[name]) : ep.weight \in 1..128

(* "Envoy has ALL THE ROUTES of all other services", and "a vhost is       *)
(* unique per route": no service is missing and none has two virtual       *)
(* hosts, however many nodes expose it.                                    *)
OneVHostPerService == \A n \in AnyNode : served[n] # Nil => UniqueVHosts(n, served[n])

(* Every virtual host of every route leads to a cluster of the same        *)
(* snapshot, and requests that enter a sidecar never leave it again: its   *)
(* ingress route only leads to local clusters.                             *)
RoutesResolve == \A n \in AnyNode : served[n] # Nil => ResolvedRoutes(n, served[n])

(* A node that exposes a service, and the front proxy, get a snapshot that *)
(* Snapshot.Consistent accepts.                                            *)
ExposingConsistent == \A n \in AnyNode : served[n] # Nil => ConsistentIfExposing(n, served[n])

(* "order matters!": whatever the clusters of a node inject, the router    *)
(* stays last and authorization first.                                     *)
FiltersOrdered == \A n \in AnyNode : served[n] # Nil => OrderedFilters(n, served[n])

(* Envoy accepts the weight of every endpoint: 0 < weight <= 128, also     *)
(* when an annotation does not fit into 32 bits.                           *)
WeightsValid == \A n \in AnyNode : served[n] # Nil => ValidWeights(served[n])

(* A sidecar that keeps its watch open has the endpoints its node is       *)
(* served: no change of an address, a port or a weight goes unnoticed.     *)
EndpointsDelivered ==
    \A n \in AnyNode :
        served[n] # Nil => received[n] # Nil /\ received[n].endpoints = served[n].endpoints

UpdaterTypeOK ==
    /\ provider \in Providers
    /\ changes \in 0..MaxChanges
    /\ pc \in {"poll", "publish", "wait", "panicked"}
    /\ polled \in Providers \cup {Nil} /\ (pc = "publish" => polled \in Providers)
    /\ IsSlice(todo) /\ (pc # "publish" => todo = <<>>)
    /\ DOMAIN served = AnyNode /\ DOMAIN received = AnyNode

(* What Envoy can work with.                                               *)
Usable(n, snapshot) ==
    /\ UniqueVHosts(n, snapshot)
    /\ ResolvedRoutes(n, snapshot)
    /\ ConsistentIfExposing(n, snapshot)
    /\ OrderedFilters(n, snapshot)
    /\ ValidWeights(snapshot)

(* The load assignments are a map with finitely many keys.                 *)
IsMap(f) == f = [x \in DOMAIN f |-> f[x]] /\ IsFiniteSet(DOMAIN f)

(* A Node of the round, which its snapshot will make usable and complete.  *)
Prepared(node, p) ==
    /\ node.name \in Targets(p)
    /\ IsMap(node.endpoints)
    /\ Usable(node.name, NewSnapshot(<<>>, node))
    /\ AssignmentsMatch(node, p, node.name)

(* The version of a snapshot is the hash of its load assignments.          *)
Versioned(snapshot) ==
    /\ IsMap(snapshot.endpoints)
    /\ \E order \in SetToSeqs(DOMAIN snapshot.endpoints) :
          snapshot.version = computeVersion(snapshot.endpoints, order)

(* A round at any point: every node of the last poll is served what it     *)
(* reported or is still to be, what is served can be used, a sidecar that  *)
(* skipped a snapshot has its endpoints already.                           *)
UpdaterInv ==
    /\ UpdaterTypeOK
    /\ \A i \in DOMAIN todo : Prepared(todo[i], polled)
    /\ polled # Nil /\ pc # "panicked" =>
          \A n \in Targets(polled) : \/ \E i \in DOMAIN todo : todo[i].name = n
                                     \/ AssignmentsMatch(served[n], polled, n)
    /\ \A n \in AnyNode :
          /\ served[n] # Nil => Usable(n, served[n])
          /\ received[n] # Nil => Versioned(received[n])
    /\ EndpointsDelivered

(* If the provider stops changing and nothing it reports makes the parser  *)
(* panic, every node it reports ends up with, and keeps, the endpoints it  *)
(* reports.                                                                *)
Converges ==
    <>[](pc # "panicked") /\ <>[][UNCHANGED provider]_updaterVars =>
        <>[](\A n \in Targets(provider) :
                received[n] # Nil /\ AssignmentsMatch(received[n], provider, n))

-----------------------------------------------------------------------------
(* README.md: "Just change the annotations in the `config.yaml`. They are  *)
(* reloaded at runtime."  After a round a sidecar has the listeners and    *)
(* clusters that its node is served, not only the endpoints.               *)
AnnotationsReloaded ==
    pc = "wait" /\ polled # Nil =>
        \A n \in Targets(polled) :
            /\ received[n].listeners = served[n].listeners
            /\ received[n].clusters = served[n].clusters

(* snapshot.go: "Snapshot is an internally consistent snapshot of xDS      *)
(* resources."                                                             *)
AlwaysConsistent == \A n \in AnyNode : served[n] # Nil => Consistent(served[n])

(* provider.go: "AnnotationHealthExpectedStatus specifies the accepted     *)
(* status codes": a round that read the annotation "lo-hi" serves health   *)
(* checks that accept lo to hi.                                            *)
StatusHonoured ==
    polled # Nil /\ pc \in {"wait", "panicked"} =>
        \A n \in DOMAIN polled : \A i \in DOMAIN polled[n] :
            LET ann == mergeAnnotations(polled[n][i])
                key == "healthcheck.expected-status"
            IN  key \in DOMAIN ann /\ Len(ann[key]) = 2 =>
                   /\ pc # "panicked"
                   /\ served[n].clusters[Local(polled[n][i].name)].healthCheck.status
                        = [lower |-> ann[key][1], upper |-> ann[key][2]]
=============================================================================
