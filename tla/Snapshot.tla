------------------------------ MODULE Snapshot ------------------------------
(***************************************************************************)
(* The data the xDS control plane serves (pkg/cache/snapshot.go, the       *)
(* Request and Response types of pkg/cache/cache.go) and the pure          *)
(* functions of pkg/cache/simple.go that turn a snapshot and a request     *)
(* into a response.  A snapshot has one versioned group of named resources *)
(* per resource type; names, payloads and versions are opaque.             *)
(***************************************************************************)
EXTENDS Naturals, Sequences

CONSTANTS
    Node,          \* node IDs: the keys of the cache's two maps
    DefaultNode,   \* the ID "node", used for a request without a Node
    ResponseType,  \* the type URLs a snapshot has a group for
    Type,          \* the type URLs a request may carry
    Name,          \* resource names
    Content,       \* resource payloads
    Version,       \* version strings
    NoVersion,     \* the empty version string
    ADS,           \* the ads flag of NewSnapshotCache
    Nil            \* Go's nil, and an absent map entry

ASSUME SnapshotAssumption ==
    /\ DefaultNode \in Node
    /\ ResponseType \subseteq Type
    /\ NoVersion \in Version
    /\ ADS \in BOOLEAN
    /\ Nil \notin Node \cup Content

-----------------------------------------------------------------------------
(* Resources.Items is a map from name to resource: a name it lacks is Nil. *)
Items == [Name -> Content \cup {Nil}]

NoItems == [n \in Name |-> Nil]

Resources == [version : Version, items : Items]

SnapshotSet == [ResponseType -> Resources]

(* v2.DiscoveryRequest as the cache reads it.  ResourceNames is a list     *)
(* that the code only ever turns into a set (nameSet) or tests for being   *)
(* empty.  The response nonce is read by the server alone: see XdsServer.  *)
Request == [node    : Node \cup {Nil},
            type    : Type,
            version : Version,
            names   : SUBSET Name]

Response == [request : Request, version : Version, items : Items]

ASSUME NilIsNoRecord == Nil \notin SnapshotSet \cup Request \cup Response

NodeID(request) == IF request.node = Nil THEN DefaultNode ELSE request.node

(* GetVersion of a nil or zero Snapshot, or for an unknown type URL, is "" *)
GetVersion(snapshot, type) ==
    IF snapshot = Nil \/ type \notin ResponseType
    THEN NoVersion
    ELSE snapshot[type].version

GetResources(snapshot, type) ==
    IF snapshot = Nil \/ type \notin ResponseType
    THEN NoItems
    ELSE snapshot[type].items

(* superset with its two arguments swapped.                                *)
SubsetOnly(names, items) == \A n \in names : items[n] # Nil

(* superset: every resource of the group is named.                         *)
Superset(names, items) == \A n \in Name : items[n] # Nil => n \in names

(* In ADS mode a request by name is held back until it names everything.   *)
Withheld(request, items) ==
    /\ request.names # {}
    /\ ADS
    /\ ~ Superset(request.names, items)

(* createResponse: only the requested resources, or all of them.           *)
CreateResponse(request, items, version) ==
    [request |-> request,
     version |-> version,
     items   |-> [n \in Name |-> IF request.names = {} \/ n \in request.names
                                 THEN items[n] ELSE Nil]]
=============================================================================
