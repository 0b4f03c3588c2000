------------------------------- MODULE MCMesh -------------------------------
(* Small instances of Mesh for TLC: one sidecar, two streams.               *)
EXTENDS Mesh

CONSTANTS n1, T1, T2, a, b, x, y, v0, v1, v2

MCCaller == Stream \X ResponseType

(* v1 has only the resource a; v2 changes it and adds b.                    *)
MCSnapshots ==
    {[t \in ResponseType |->
        [version |-> v1, items |-> [n \in Name |-> IF n = a THEN x ELSE Nil]]],
     [t \in ResponseType |-> [version |-> v2, items |-> [n \in Name |-> y]]]}

MCMessages ==
    {[node |-> n1, type |-> AnyType, version |-> v, names |-> names] :
        v \in Version, names \in SUBSET Name}

MCRequests == {WithType(m, t) : m \in Messages, t \in ResponseType}

MCEdsStream == [s \in Stream |-> T1]
MCOrder1 == <<T1>>

(* One resource by its name.                                                *)
MCWantOne == [t \in ResponseType |-> {a}]
=============================================================================
