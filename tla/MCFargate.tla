----------------------------- MODULE MCFargate -----------------------------
(* Small instances of FargateProvider for TLC.                              *)
EXTENDS FargateProvider

CONSTANTS c1, c2, d1, d2, app, proxy, svcA, svcB, ip1, ip2, ip3, id1, id2, id3

Target(container, port) == [parts |-> <<container, port>>, text |-> <<Text>>]

Annotation(value) == [parts |-> <<value>>, text |-> <<value>>]

(* d1: the proxy carries the labels of two services of the app container,   *)
(* one with an annotation and one with a port that does not fit 32 bits,    *)
(* and labels that name no port.  d2: both containers point to svcA, and an *)
(* annotation looks like a target.                                          *)
MCDefinition ==
    d1 :> (proxy :> (<<svcA>> :> Target(app, 3000)
                       @@ <<svcA, "endpoint.weight">> :> Annotation(5)
                       @@ <<svcB>> :> Target(app, UInt32Size + 80)
                       @@ <<>> :> Target(app, 9))
            @@ app :> (<<svcB>> :> Target(app, Nil)))
    @@ d2 :> (app :> (<<svcA>> :> Target(app, 3000))
               @@ proxy :> (<<svcA>> :> Target(app, 3000)
                              @@ <<svcA, "healthcheck.path">> :> Target(app, 7)))

MCTask(arn, c, def, address) ==
    [arn |-> arn, cluster |-> c, def |-> def,
     containers |-> app :> {address} @@ proxy :> {}]

(* Three tasks in one cluster, a full window and a shorter one, and a task  *)
(* in another cluster.  The third task has no address: a poll that finds it *)
(* panics, and one that listed it before it stopped need not.               *)
MCTasks ==
    {MCTask(<<Nil, <<c1, id1>>>>, c1, d1, ip1),
     MCTask(<<Nil, <<c1, id2>>>>, c1, d2, ip2),
     MCTask(<<Nil, <<c1, id3>>>>, c1, d2, Nil),
     MCTask(<<Nil, <<c2, id1>>>>, c2, d2, ip1)}

(* A task in each of the two clusters.                                      *)
MCTwoTasks ==
    {MCTask(<<Nil, <<c1, id1>>>>, c1, d1, ip1),
     MCTask(<<Nil, <<c2, id2>>>>, c2, d2, ip2)}
=============================================================================
