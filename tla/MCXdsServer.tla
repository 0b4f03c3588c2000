---------------------------- MODULE MCXdsServer ----------------------------
(* A small instance of XdsServer for TLC: one ADS stream of two types.      *)
EXTENDS XdsServer

CONSTANTS n1, T1, T2, T3, a, x, bad, v0, v1, v2, s1

MCCaller == Stream \X ResponseType

MCItems(content) == [n \in Name |-> content]

(* Two snapshots; in the second one a resource of T2 does not encode.       *)
MCSnapshots ==
    {[t \in ResponseType |-> [version |-> v1, items |-> MCItems(x)]],
     [t \in ResponseType |->
        [version |-> v2, items |-> MCItems(IF t = T2 THEN bad ELSE x)]]}

Message(type, version) ==
    [node |-> n1, type |-> type, version |-> version, names |-> {}]

(* An ADS client that has the first version of T1 and nothing of T2; it     *)
(* also asks for a type the server does not know and without a type URL.    *)
MCMessages ==
    {Message(t, v0) : t \in {T2, T3, AnyType}} \cup {Message(T1, v1)}

MCRequests ==
    {WithType(m, t) : m \in Messages, t \in ResponseType}

MCAdsStream == [s \in Stream |-> AnyType]
MCOrder == <<T2, T1>>
=============================================================================
