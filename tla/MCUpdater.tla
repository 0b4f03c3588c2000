----------------------------- MODULE MCUpdater -----------------------------
(* Small instances of Updater for TLC: two services, up to two nodes.       *)
EXTENDS Updater

CONSTANTS alpha, beta, svcA, svcB, ip1, ip2, ip3

MCEndpoint(address, annotations) ==
    [address |-> address, port |-> 3000, annotations |-> annotations]

MCCluster(service, endpoints) == [name |-> service, endpoints |-> endpoints]

Weight(w) == "endpoint.weight" :> <<w>>

(* A service that accepts the statuses 200 to 299.                          *)
MCStatusProviders ==
    {alpha :> <<MCCluster(svcA, <<MCEndpoint(ip1,
                   "healthcheck.expected-status" :> <<200, 299>>)>>)>>}

(* Nothing at all; both nodes expose svcA, one of them with an endpoint     *)
(* whose weight wraps to zero; alpha alone exposes svcA, in two groups and  *)
(* with a fault; svcA moves to beta and alpha takes over svcB; alpha has an *)
(* annotation that makes the parser panic.                                  *)
MCProviders ==
    {<<>>,
     alpha :> <<MCCluster(svcA, <<MCEndpoint(ip1, <<>>),
                                  MCEndpoint(ip2, Weight(UInt32Size))>>)>>
       @@ beta :> <<MCCluster(svcA, <<MCEndpoint(ip3, Weight(5))>>)>>,
     alpha :> <<MCCluster(svcA, <<MCEndpoint(ip1, "fault.inject" :> <<Empty>>)>>),
                MCCluster(svcA, <<MCEndpoint(ip2, Weight(95))>>)>>,
     alpha :> <<MCCluster(svcB, <<MCEndpoint(ip1, Weight(6))>>)>>
       @@ beta :> <<MCCluster(svcA, <<MCEndpoint(ip3, <<>>)>>)>>}
    \cup MCStatusProviders

(* One service with and without fault injection: a change of the report     *)
(* switches it on or off, and nothing else.                                 *)
MCFaultProviders ==
    {alpha :> <<MCCluster(svcA, <<MCEndpoint(ip1, ann)>>)>> :
        ann \in {<<>>, "fault.inject" :> <<Empty>> @@ "fault.abort.percent" :> <<15>>}}

(* "alpha node does not expose endpoints" (example/compose/config.yaml).    *)
MCEmptyNode ==
    {alpha :> <<>> @@ beta :> <<MCCluster(svcA, <<MCEndpoint(ip1, <<>>)>>)>>}
=============================================================================
