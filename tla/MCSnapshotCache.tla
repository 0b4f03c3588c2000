--------------------------- MODULE MCSnapshotCache ---------------------------
(* A small instance of SnapshotCache for TLC: two nodes, two callers, two   *)
(* resource types of which the snapshots populate one fully, two names.     *)
EXTENDS SnapshotCache, TLC

CONSTANTS n1, n2, T1, T2, a, b, x, y, v0, v1, v2, c1, c2

(* Both types move from v1 to v2; the second snapshot adds a resource.      *)
MCSnapshots ==
    {[t \in ResponseType |->
        [version |-> v,
         items   |-> [n \in Name |-> IF n = a THEN x
                                     ELSE IF v = v2 THEN y ELSE Nil]]] : v \in {v1, v2}}

(* A first request by name, a wildcard request that acknowledges v1, one    *)
(* without a node, and one for a type the snapshot does not know.           *)
MCRequests ==
    {[node |-> n1,  type |-> T1, version |-> v0, names |-> {a}],
     [node |-> n1,  type |-> T1, version |-> v1, names |-> {}],
     [node |-> Nil, type |-> T1, version |-> v0, names |-> {}],
     [node |-> n1,  type |-> T2, version |-> v1, names |-> {}]}

MCSymmetry == Permutations(Chan) \cup Permutations(Caller)
==============================================================================
