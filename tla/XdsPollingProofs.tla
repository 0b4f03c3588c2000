-------------------------- MODULE XdsPollingProofs --------------------------
(***************************************************************************)
(* A polling client never holds the version of one snapshot with the       *)
(* resources of another, for any number of clients, types and snapshots.   *)
(***************************************************************************)
EXTENDS XdsPolling, SnapshotCacheProofs

USE SnapshotAssumption, NilIsNoRecord, CacheAssumption, PollingAssumption

-----------------------------------------------------------------------------
(* A call is a request or a response, never both: the fields differ.       *)
LEMMA RequestIsNoResponse ==
    ASSUME NEW r \in Request
    PROVE  r \notin Response
<1>1. "names" \in DOMAIN r
  BY DEF Request
<1>2. \A x \in Response : DOMAIN x = {"request", "version", "items"}
  BY DEF Response
<1> QED
  BY <1>1, <1>2

(* What the Fetch method answers is the client's share of the snapshot.    *)
LEMMA FetchIsShare ==
    ASSUME PollingInv, NEW p \in Poller, call[p] \in Request, Fetch(Typed(p)) # Nil
    PROVE  /\ Fetch(Typed(p)) \in Response
           /\ \E snapshot \in Snapshots :
                 [version |-> Fetch(Typed(p)).version, items |-> Fetch(Typed(p)).items]
                     = Share(p, snapshot)
<1> DEFINE r == Typed(p)
           s == snapshots[NodeID(r)]
           items == GetResources(s, r.type)
           version == GetVersion(s, r.type)
<1>1. /\ r \in Request /\ r.type = PollType[p] /\ r.type \in Type
      /\ r.names = PollNames[p]
  BY DEF PollingInv, CallsTogether, Typed, Request
<1>2. Fetch(r) = CreateResponse(r, items, version) /\ s # Nil
  BY DEF Fetch
<1>3. s \in Snapshots
  BY <1>1, <1>2, NodeIDType DEF PollingInv, PollingTypeOK
<1> HIDE DEF r, s
<1>4. items \in Items /\ version \in Version
  BY <1>1, <1>3, SnapshotData
<1>5. Fetch(r) \in Response
  <2> HIDE DEF items, version
  <2> QED
    BY <1>1, <1>2, <1>4, CreateResponseType
<1>6. [version |-> Fetch(r).version, items |-> Fetch(r).items] = Share(p, s)
  BY <1>1, <1>2 DEF CreateResponse, Share
<1> QED
  BY <1>3, <1>5, <1>6 DEF r

LEMMA PollingInitInv == PollingInit => PollingInv
<1> SUFFICES ASSUME PollingInit PROVE PollingInv
  OBVIOUS
<1>1. NoItems \in Items
  BY DEF NoItems, Items
<1>2. PollingTypeOK
  BY <1>1 DEF PollingInit, CacheInit, PollingTypeOK
<1> QED
  BY <1>2 DEF PollingInit, PollingInv, CallsTogether, PolledTogether

(* A client sends the version it has and the names it asks for.            *)
LEMMA PollInv ==
    ASSUME PollingInv, NEW p \in Poller, Poll(p)
    PROVE  PollingInv'
<1>1. PICK type \in Type :
        call' = [call EXCEPT ![p] = [node    |-> PollNode[p],
                                     type    |-> type,
                                     version |-> mine[p].version,
                                     names   |-> PollNames[p]]]
  BY DEF Poll
<1> DEFINE r == [node    |-> PollNode[p],
                 type    |-> type,
                 version |-> mine[p].version,
                 names   |-> PollNames[p]]
<1>2. r \in Request
  BY DEF PollingInv, PollingTypeOK, Request
<1>3. r \notin Response /\ r.names = PollNames[p]
  BY <1>2, RequestIsNoResponse
<1> HIDE DEF r
<1>4. call' = [call EXCEPT ![p] = r] /\ UNCHANGED <<snapshots, mine>>
  BY <1>1 DEF Poll, cacheVars, r
<1>5. PollingTypeOK' /\ PolledTogether'
  BY <1>2, <1>4 DEF PollingInv, PollingTypeOK, PolledTogether
<1>6. CallsTogether'
  BY <1>2, <1>3, <1>4 DEF PollingInv, PollingTypeOK, CallsTogether
<1> QED
  BY <1>5, <1>6 DEF PollingInv

(* The response is made from the snapshot of this moment.                  *)
LEMMA ServeFetchInv ==
    ASSUME PollingInv, NEW p \in Poller, ServeFetch(p)
    PROVE  PollingInv'
<1> DEFINE r == Fetch(Typed(p))
<1>1. /\ r \in Response
      /\ \E snapshot \in Snapshots :
            [version |-> r.version, items |-> r.items] = Share(p, snapshot)
  BY FetchIsShare DEF ServeFetch, Answerable
<1>2. r \notin Request
  BY <1>1, RequestIsNoResponse
<1>3. call' = [call EXCEPT ![p] = r] /\ UNCHANGED <<snapshots, mine>>
  BY DEF ServeFetch, cacheVars
<1>4. PICK x : x = r
  OBVIOUS
<1>5. /\ x \in Response /\ x \notin Request
      /\ \E snapshot \in Snapshots :
            [version |-> x.version, items |-> x.items] = Share(p, snapshot)
      /\ call' = [call EXCEPT ![p] = x]
  BY <1>1, <1>2, <1>3, <1>4
<1>6. PollingTypeOK' /\ PolledTogether'
  BY <1>3, <1>5 DEF PollingInv, PollingTypeOK, PolledTogether
<1>7. CallsTogether'
  BY <1>3, <1>5 DEF PollingInv, PollingTypeOK, CallsTogether
<1> QED
  BY <1>6, <1>7 DEF PollingInv

(* A call that fails, or whose response is lost, changes nothing.          *)
LEMMA CallEndsInv ==
    ASSUME PollingInv, NEW p \in Poller, RefuseFetch(p) \/ LoseResponse(p)
    PROVE  PollingInv'
<1>1. call' = [call EXCEPT ![p] = Nil] /\ UNCHANGED <<snapshots, mine>>
  BY DEF RefuseFetch, LoseResponse, cacheVars
<1>2. PollingTypeOK' /\ PolledTogether'
  BY <1>1 DEF PollingInv, PollingTypeOK, PolledTogether
<1>3. CallsTogether'
  BY <1>1 DEF PollingInv, PollingTypeOK, CallsTogether
<1> QED
  BY <1>2, <1>3 DEF PollingInv

(* A response replaces version and resources of the client together.       *)
LEMMA DeliverInv ==
    ASSUME PollingInv, NEW p \in Poller, Deliver(p)
    PROVE  PollingInv'
<1> DEFINE m == [version |-> call[p].version, items |-> call[p].items]
<1>1. /\ call' = [call EXCEPT ![p] = Nil] /\ UNCHANGED snapshots
      /\ mine' = [mine EXCEPT ![p] = m]
  BY DEF Deliver, cacheVars
<1>2. \E snapshot \in Snapshots : m = Share(p, snapshot)
  BY DEF Deliver, PollingInv, CallsTogether
<1>3. m \in [version : Version, items : Items]
  BY DEF Deliver, Response
<1> HIDE DEF m
<1>4. PollingTypeOK'
  BY <1>1, <1>3 DEF PollingInv, PollingTypeOK
<1>5. CallsTogether'
  BY <1>1 DEF PollingInv, PollingTypeOK, CallsTogether
<1>6. PolledTogether'
  BY <1>1, <1>2 DEF PollingInv, PollingTypeOK, PolledTogether
<1> QED
  BY <1>4, <1>5, <1>6 DEF PollingInv

LEMMA PollingNextInv == PollingInv /\ [PollingNext]_pollingVars => PollingInv'
<1> SUFFICES ASSUME PollingInv, [PollingNext]_pollingVars PROVE PollingInv'
  OBVIOUS
<1>1. ASSUME NEW p \in Poller,
             Poll(p) \/ ServeFetch(p) \/ RefuseFetch(p) \/ Deliver(p) \/ LoseResponse(p)
      PROVE  PollingInv'
  BY <1>1, PollInv, ServeFetchInv, CallEndsInv, DeliverInv
<1>2. ASSUME NEW n \in Node, NEW s \in Snapshots, SetSnapshot(n, s), UNCHANGED <<call, mine>>
      PROVE  PollingInv'
  BY <1>2 DEF SetSnapshot, PollingInv, PollingTypeOK, CallsTogether, PolledTogether
<1>3. CASE UNCHANGED pollingVars
  BY <1>3 DEF pollingVars, cacheVars, PollingInv, PollingTypeOK, CallsTogether, PolledTogether
<1> QED
  BY <1>1, <1>2, <1>3 DEF PollingNext

(* A call in flight and what a client has belong to one snapshot each.     *)
THEOREM PollingInvariant == PollingSpec => []PollingInv
<1>1. PollingInit => PollingInv
  BY PollingInitInv
<1>2. PollingInv /\ [PollingNext]_pollingVars => PollingInv'
  BY PollingNextInv
<1> QED
  BY <1>1, <1>2, PTL DEF PollingSpec

(* No client ever mixes two snapshots, or two types.                       *)
THEOREM PollsAreConsistent == PollingSpec => []PolledTogether
<1>1. PollingInv => PolledTogether
  BY DEF PollingInv
<1> QED
  BY <1>1, PollingInvariant, PTL
=============================================================================
