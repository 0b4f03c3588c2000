----------------------------- MODULE XdsPolling -----------------------------
(***************************************************************************)
(* The polling half of pkg/server/server.go: the Fetch methods, which      *)
(* clients call over and over with the version they have, while the        *)
(* updater replaces the snapshot.  A call that fails changes nothing.      *)
(***************************************************************************)
EXTENDS SnapshotCache

CONSTANTS
    Poller,       \* clients
    PollType,     \* the type of the Fetch method each one calls
    PollNames,    \* the resources each one asks for
    PollNode,     \* the node of each one
    Callbacks,    \* whether the server has callbacks, which may fail
    BadContent    \* payloads that proto.Marshal refuses

ASSUME PollingAssumption ==
    /\ PollType \in [Poller -> Type]
    /\ PollNames \in [Poller -> SUBSET Name]
    /\ PollNode \in [Poller -> Node \cup {Nil}]
    /\ Callbacks \in BOOLEAN
    /\ BadContent \subseteq Content

VARIABLES
    call,   \* the request a client has sent, the response on its way, or Nil
    mine    \* the version and resources each client has

pollingVars == <<cacheVars, call, mine>>

PollingInit ==
    /\ CacheInit
    /\ call = [p \in Poller |-> Nil]
    /\ mine = [p \in Poller |-> [version |-> NoVersion, items |-> NoItems]]

-----------------------------------------------------------------------------
(* A client calls the method of its type; its request may name any type.   *)
Poll(p) ==
    /\ call[p] = Nil
    /\ \E type \in Type :
          call' = [call EXCEPT ![p] = [node    |-> PollNode[p],
                                       type    |-> type,
                                       version |-> mine[p].version,
                                       names   |-> PollNames[p]]]
    /\ UNCHANGED <<cacheVars, mine>>

(* The Fetch method keeping the type URL of the request.                   *)
OwnType(p) == call[p]

(* FetchEndpoints, FetchClusters...: the method overrides the type URL.    *)
Typed(p) == [call[p] EXCEPT !.type = PollType[p]]

(* The cache has a response, and it encodes.                               *)
Answerable(p) ==
    LET response == Fetch(Typed(p))
    IN  response # Nil /\ \A n \in Name : response.items[n] \notin BadContent

(* Fetch asks the cache and encodes the response.                          *)
ServeFetch(p) ==
    /\ call[p] \in Request
    /\ Answerable(p)
    /\ call' = [call EXCEPT ![p] = Fetch(Typed(p))]
    /\ UNCHANGED <<cacheVars, mine>>

(* OnFetchRequest, the cache or the encoder returns an error.              *)
RefuseFetch(p) ==
    /\ call[p] \in Request
    /\ Callbacks \/ ~ Answerable(p)
    /\ call' = [call EXCEPT ![p] = Nil]
    /\ UNCHANGED <<cacheVars, mine>>

(* The response reaches the client, or gets lost.                          *)
Deliver(p) ==
    /\ call[p] \in Response
    /\ mine' = [mine EXCEPT ![p] = [version |-> call[p].version, items |-> call[p].items]]
    /\ call' = [call EXCEPT ![p] = Nil]
    /\ UNCHANGED cacheVars

LoseResponse(p) ==
    /\ call[p] \in Response
    /\ call' = [call EXCEPT ![p] = Nil]
    /\ UNCHANGED <<cacheVars, mine>>

PollingNext ==
    \/ \E p \in Poller : \/ Poll(p) \/ ServeFetch(p) \/ RefuseFetch(p)
                         \/ Deliver(p) \/ LoseResponse(p)
    \/ /\ \E n \in Node, snapshot \in Snapshots : SetSnapshot(n, snapshot)
       /\ UNCHANGED <<call, mine>>

(* Clients go on polling, and not every attempt fails.                     *)
PollingSpec ==
    /\ PollingInit /\ [][PollingNext]_pollingVars
    /\ \A p \in Poller :
          /\ WF_pollingVars(Poll(p) \/ ServeFetch(p) \/ RefuseFetch(p))
          /\ SF_pollingVars(ServeFetch(p))
          /\ SF_pollingVars(Deliver(p))

-----------------------------------------------------------------------------
(* What client p should have of a snapshot.                                *)
Share(p, snapshot) ==
    [version |-> GetVersion(snapshot, PollType[p]),
     items   |-> [n \in Name |-> IF PollNames[p] = {} \/ n \in PollNames[p]
                                 THEN GetResources(snapshot, PollType[p])[n] ELSE Nil]]

(* The version and the resources of a client always belong together, and   *)
(* are of its method's type, although the snapshot may be replaced while a *)
(* call is under way: so a poll that is refused as up to date is, as far   *)
(* as the version tells.                                                   *)
PolledTogether ==
    \A p \in Poller :
        \/ mine[p] = [version |-> NoVersion, items |-> NoItems]
        \/ \E snapshot \in Snapshots : mine[p] = Share(p, snapshot)

PollingTypeOK ==
    /\ call \in [Poller -> Request \cup Response \cup {Nil}]
    /\ mine \in [Poller -> [version : Version, items : Items]]
    /\ snapshots \in [Node -> Snapshots \cup {Nil}]

(* The response on its way is a client's share of one snapshot, even if it *)
(* was replaced meanwhile, and a request asks for no other resources.      *)
CallsTogether ==
    \A p \in Poller :
        /\ call[p] \in Request => call[p].names = PollNames[p]
        /\ call[p] \in Response =>
              \E snapshot \in Snapshots :
                  [version |-> call[p].version, items |-> call[p].items] = Share(p, snapshot)

(* The inductive invariant of polling.                                     *)
PollingInv == PollingTypeOK /\ CallsTogether /\ PolledTogether

(* The version of a snapshot tells what client p should have of it.  bent  *)
(* makes versions of the endpoints alone (updater.go:141), so two of its   *)
(* snapshots may differ in the clusters or listeners of one version.       *)
Identified(p, snapshot) ==
    \A other \in Snapshots :
        Share(p, other).version = Share(p, snapshot).version =>
            Share(p, other) = Share(p, snapshot)

(* When the snapshot of a node stays the same and encodes, its clients end *)
(* up with its version, and with the resources it has for them where the   *)
(* version identifies these.  Where it does not, a poll is refused as up   *)
(* to date and the client keeps what it has.                               *)
PollersConverge ==
    \A p \in Poller, snapshot \in Snapshots :
        (\A n \in Name : Share(p, snapshot).items[n] \notin BadContent) =>
            (<>[](snapshots[NodeID([node |-> PollNode[p]])] = snapshot)
                => /\ <>[](mine[p].version = Share(p, snapshot).version)
                   /\ Identified(p, snapshot) => <>[](mine[p] = Share(p, snapshot)))
=============================================================================
