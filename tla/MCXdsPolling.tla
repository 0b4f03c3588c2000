---------------------------- MODULE MCXdsPolling ----------------------------
(* A small instance of XdsPolling for TLC: one client asks for everything   *)
(* of one type, another one for one resource of another type, without a     *)
(* node ID.                                                                 *)
EXTENDS XdsPolling, TLC

CONSTANTS n1, T1, T2, T3, a, b, x, y, bad, v0, v1, v2, p1, p2

(* The types differ in their contents, v2 of T2 does not encode, and two    *)
(* snapshots have different resources of T2 at the version v1.              *)
MCSnapshots ==
    {[t \in ResponseType |->
        [version |-> v1, items |-> [n \in Name |-> IF t = T1 THEN x ELSE other]]] :
            other \in {x, y}}
    \cup
    {[t \in ResponseType |->
        [version |-> v2, items |-> [n \in Name |->
            IF t = T1 THEN (IF n = a THEN y ELSE Nil) ELSE bad]]]}

MCPollType == p1 :> T1 @@ p2 :> T2
MCPollNames == p1 :> {} @@ p2 :> {a}
MCPollNode == p1 :> n1 @@ p2 :> Nil
=============================================================================
