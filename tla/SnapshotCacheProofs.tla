------------------------- MODULE SnapshotCacheProofs -------------------------
(***************************************************************************)
(* CacheInv is an inductive invariant of CacheSpec, for every set of       *)
(* nodes, callers, channels, snapshots and requests, in ADS mode or not.   *)
(***************************************************************************)
EXTENDS SnapshotCache, TLAPS

USE SnapshotAssumption, NilIsNoRecord, CacheAssumption

-----------------------------------------------------------------------------
(* The pure functions of Snapshot return what their names say.             *)

(* GetVersion and GetResources are total: nil snapshot, unknown type.      *)
LEMMA SnapshotData ==
    ASSUME NEW s \in SnapshotSet \cup {Nil}, NEW t \in Type
    PROVE  GetVersion(s, t) \in Version /\ GetResources(s, t) \in Items
<1>1. NoItems \in Items
  BY DEF NoItems, Items
<1>2. CASE s = Nil \/ t \notin ResponseType
  BY <1>1, <1>2 DEF GetVersion, GetResources
<1>3. CASE s \in SnapshotSet /\ s # Nil /\ t \in ResponseType
  <2>1. s[t] \in Resources
    BY <1>3 DEF SnapshotSet
  <2> QED
    BY <1>3, <2>1 DEF GetVersion, GetResources, Resources
<1> QED
  BY <1>2, <1>3

(* createResponse builds a response from the requested resources only.     *)
LEMMA CreateResponseType ==
    ASSUME NEW r \in Request, NEW items \in Items, NEW v \in Version
    PROVE  CreateResponse(r, items, v) \in Response
BY DEF CreateResponse, Response, Items

(* respond adds at most one response to the channel.                       *)
LEMMA RespondType ==
    ASSUME NEW r \in Request, NEW items \in Items, NEW v \in Version,
           NEW contents \in Seq(Response)
    PROVE  /\ Respond(contents, r, items, v) \in Seq(Response)
           /\ contents = <<>> => Len(Respond(contents, r, items, v)) <= 1
<1>1. CreateResponse(r, items, v) \in Response
  BY CreateResponseType
<1> QED
  BY <1>1 DEF Respond

(* The node of a request is a node.                                        *)
LEMMA NodeIDType ==
    ASSUME NEW r \in Request
    PROVE  NodeID(r) \in Node
BY DEF NodeID, Request

-----------------------------------------------------------------------------
LEMMA InitInv == CacheInit => CacheInv
<1> SUFFICES ASSUME CacheInit PROVE CacheInv
  OBVIOUS
<1>1. NoHandle \in Handle
  BY DEF NoHandle, Handle
<1>2. CacheTypeOK
  BY <1>1 DEF CacheInit, CacheTypeOK
<1> QED
  BY <1>2 DEF CacheInit, CacheInv, WatchesDistinct, WatchesFiled, OpenChannelsEmpty,
     ChannelsNeverBlock, HandlesDistinct, CancelIsOwn, CancelsIssued,
     OpenWatchesCurrent, NoHandle

(* SetSnapshot answers watches whose channels are empty, one per channel.  *)
LEMMA SetSnapshotInv ==
    ASSUME CacheInv, NEW n \in Node, NEW s \in Snapshots, SetSnapshot(n, s)
    PROVE  CacheInv'
<1> USE DEF CacheInv
<1>1. s \in SnapshotSet /\ s # Nil
  OBVIOUS
<1>2. /\ snapshots' = [snapshots EXCEPT ![n] = s]
      /\ watches' = watches \ Triggered(n, s)
      /\ UNCHANGED <<status, watchCount, held>>
  BY DEF SetSnapshot
<1>3. ASSUME NEW ch \in Chan
      PROVE  /\ buf'[ch] \in Seq(Response)
             /\ Len(buf'[ch]) <= 1
             /\ \A w \in watches' : w.chan = ch => buf'[ch] = buf[ch]
  <2>1. CASE \E w \in Triggered(n, s) : w.chan = ch
    <3> DEFINE v == CHOOSE w \in Triggered(n, s) : w.chan = ch
    <3>1. v \in watches /\ v \in Triggered(n, s) /\ v.chan = ch
      BY <2>1 DEF Triggered
    <3>2. v.request \in Request /\ v.request.type \in Type
      BY <3>1 DEF CacheTypeOK, Watch, Request
    <3>3. buf[ch] = <<>> /\ buf[ch] \in Seq(Response)
      BY <3>1 DEF OpenChannelsEmpty, CacheTypeOK
    <3>4. buf'[ch] = Respond(buf[ch], v.request, GetResources(s, v.request.type),
                             GetVersion(s, v.request.type))
      BY <2>1 DEF SetSnapshot
    <3>5. \A w \in watches' : w.chan # ch
      BY <1>2, <3>1 DEF WatchesDistinct
    <3> HIDE DEF v
    <3>6. /\ GetResources(s, v.request.type) \in Items
          /\ GetVersion(s, v.request.type) \in Version
      BY <1>1, <3>2, SnapshotData
    <3> DEFINE items == GetResources(s, v.request.type)
               version == GetVersion(s, v.request.type)
    <3> HIDE DEF items, version
    <3>7. /\ Respond(buf[ch], v.request, items, version) \in Seq(Response)
          /\ Len(Respond(buf[ch], v.request, items, version)) <= 1
      <4>1. items \in Items /\ version \in Version
        BY <3>6 DEF items, version
      <4> QED
        BY <3>2, <3>3, <4>1, RespondType
    <3>8. buf'[ch] = Respond(buf[ch], v.request, items, version)
      BY <3>4 DEF items, version
    <3> QED
      BY <3>5, <3>7, <3>8
  <2>2. CASE ~ \E w \in Triggered(n, s) : w.chan = ch
    <3>1. buf'[ch] = buf[ch]
      BY <2>2 DEF SetSnapshot
    <3> QED
      BY <3>1 DEF CacheTypeOK, ChannelsNeverBlock
  <2> QED
    BY <2>1, <2>2
<1>4. CacheTypeOK'
  <2>1. buf' = [ch \in Chan |-> buf'[ch]]
    BY DEF SetSnapshot
  <2>2. buf' \in [Chan -> Seq(Response)]
    BY <1>3, <2>1
  <2> QED
    BY <1>1, <1>2, <2>2 DEF CacheTypeOK
<1>5. WatchesDistinct' /\ WatchesFiled' /\ HandlesDistinct' /\ CancelIsOwn' /\ CancelsIssued'
  BY <1>2 DEF WatchesDistinct, WatchesFiled, HandlesDistinct, CancelIsOwn, CancelsIssued
<1>6. OpenChannelsEmpty' /\ ChannelsNeverBlock'
  <2>1. \A w \in watches' : w \in watches /\ w.chan \in Chan
    BY <1>2 DEF CacheTypeOK, Watch
  <2> QED
    BY <1>3, <2>1 DEF OpenChannelsEmpty, ChannelsNeverBlock
<1>7. OpenWatchesCurrent'
  <2> SUFFICES ASSUME NEW w \in watches'
               PROVE  \/ snapshots'[w.node] = Nil
                      \/ GetVersion(snapshots'[w.node], w.request.type) = w.request.version
    BY DEF OpenWatchesCurrent
  <2>1. w \in watches /\ w \notin Triggered(n, s)
    BY <1>2
  <2>2. CASE w.node = n
    BY <1>2, <2>1, <2>2 DEF Triggered, CacheTypeOK
  <2>3. CASE w.node # n
    BY <1>2, <2>1, <2>3 DEF OpenWatchesCurrent, CacheTypeOK, Watch
  <2> QED
    BY <2>2, <2>3
<1> QED
  BY <1>4, <1>5, <1>6, <1>7

(* ClearSnapshot takes the watches of a node away with its status entry.   *)
LEMMA ClearSnapshotInv ==
    ASSUME CacheInv, NEW n \in Node, ClearSnapshot(n)
    PROVE  CacheInv'
<1> USE DEF CacheInv
<1>1. CacheTypeOK'
  BY DEF ClearSnapshot, CacheTypeOK
<1>2. WatchesDistinct' /\ OpenChannelsEmpty' /\ ChannelsNeverBlock'
  BY DEF ClearSnapshot, WatchesDistinct, OpenChannelsEmpty, ChannelsNeverBlock
<1>3. WatchesFiled' /\ HandlesDistinct' /\ CancelIsOwn' /\ CancelsIssued'
  BY DEF ClearSnapshot, WatchesFiled, HandlesDistinct, CancelIsOwn, CancelsIssued
<1>4. OpenWatchesCurrent'
  BY DEF ClearSnapshot, OpenWatchesCurrent, CacheTypeOK, Watch
<1> QED
  BY <1>1, <1>2, <1>3, <1>4

-----------------------------------------------------------------------------
(* Both branches of CreateWatch give the caller a channel nobody knows,    *)
(* empty or with one response, and drop the contents of its last one.      *)
LEMMA MakeChanFacts ==
    ASSUME CacheInv, NEW c \in Caller, NEW ch \in FreeChan,
           NEW contents \in Seq(Response), Len(contents) <= 1,
           MakeChan(c, ch, contents)
    PROVE  /\ ch \in Chan /\ ch # Nil
           /\ buf' \in [Chan -> Seq(Response)]
           /\ ChannelsNeverBlock'
           /\ buf'[ch] = contents
           /\ \A w \in watches : w.chan # ch /\ buf'[w.chan] = <<>>
           /\ \A d \in Caller : held[d].chan # ch
<1>1. ch \in Chan /\ ch # Nil
  BY DEF FreeChan
<1>2. \A w \in watches : w.chan # ch
  BY DEF FreeChan
<1>3. \A d \in Caller : held[d].chan # ch
  BY DEF FreeChan
<1>4. <<>> \in Seq(Response) /\ Len(<<>>) = 0
  OBVIOUS
<1>5. buf' \in [Chan -> Seq(Response)] /\ buf'[ch] = contents
  BY <1>1, <1>4 DEF MakeChan, CacheInv, CacheTypeOK
<1>6. ChannelsNeverBlock'
  BY <1>4 DEF MakeChan, CacheInv, ChannelsNeverBlock
<1>7. \A w \in watches : buf'[w.chan] = <<>>
  BY <1>2 DEF MakeChan, CacheInv, CacheTypeOK, Watch, OpenChannelsEmpty
<1> QED
  BY <1>1, <1>2, <1>3, <1>5, <1>6, <1>7

(* The branch of CreateWatch that leaves a watch open: its ID is new, so   *)
(* no cancel function given out before matches it.                         *)
LEMMA OpenWatchInv ==
    ASSUME CacheInv, NEW c \in Caller, NEW r \in Requests, NEW ch \in FreeChan,
           status' = status \cup {NodeID(r)}, OpenWatch(c, r, ch),
           UNCHANGED snapshots
    PROVE  CacheInv'
<1> DEFINE n == NodeID(r)
           id == watchCount + 1
           w0 == [node |-> n, id |-> id, request |-> r, chan |-> ch]
           h0 == [chan |-> ch, cancel |-> [node |-> n, id |-> id]]
<1>1. n \in Node /\ r \in Request /\ id \in Nat /\ id > watchCount
  BY NodeIDType DEF CacheInv, CacheTypeOK
<1>2. /\ MakeChan(c, ch, <<>>)
      /\ watches' = watches \cup {w0}
      /\ held' = [held EXCEPT ![c] = h0]
      /\ watchCount' = id
      /\ snapshots[n] = Nil \/ r.version = GetVersion(snapshots[n], r.type)
  BY DEF OpenWatch
<1>3. <<>> \in Seq(Response) /\ Len(<<>>) <= 1
  OBVIOUS
<1>4. /\ ch \in Chan /\ ch # Nil
      /\ buf' \in [Chan -> Seq(Response)]
      /\ ChannelsNeverBlock'
      /\ buf'[ch] = <<>>
      /\ \A w \in watches : w.chan # ch /\ buf'[w.chan] = <<>>
      /\ \A d \in Caller : held[d].chan # ch
  BY <1>2, <1>3, MakeChanFacts
<1>5. w0 \in Watch /\ h0 \in Handle
  BY <1>1, <1>4 DEF Watch, Handle, Cancel
<1>6. CacheTypeOK'
  BY <1>1, <1>2, <1>4, <1>5 DEF CacheInv, CacheTypeOK
<1>7. /\ \A w \in watches : w.id \in Nat /\ w.id <= watchCount
      /\ w0.id = id /\ w0.chan = ch /\ w0.node = n /\ w0.request = r
  BY DEF CacheInv, CacheTypeOK, Watch, WatchesDistinct
<1>8. WatchesDistinct'
  BY <1>1, <1>2, <1>4, <1>7 DEF CacheInv, CacheTypeOK, WatchesDistinct
<1>9. WatchesFiled'
  BY <1>2, <1>7 DEF CacheInv, WatchesFiled
<1>10. OpenChannelsEmpty'
  BY <1>2, <1>4, <1>7 DEF OpenChannelsEmpty
<1>11. ASSUME NEW d \in Caller
       PROVE  held'[d] = IF d = c THEN h0 ELSE held[d]
  BY <1>2 DEF CacheInv, CacheTypeOK
<1>12. HandlesDistinct'
  BY <1>4, <1>11 DEF CacheInv, HandlesDistinct
<1>13. CancelsIssued'
  <2>1. \A d \in Caller : held[d].cancel # Nil => held[d].cancel.id \in Nat
    BY DEF CacheInv, CacheTypeOK, Handle, Cancel
  <2> QED
    BY <1>1, <1>2, <1>11, <2>1 DEF CacheInv, CacheTypeOK, CancelsIssued
<1>14. CancelIsOwn'
  <2> SUFFICES ASSUME NEW d \in Caller, NEW w \in watches'
               PROVE  w.chan = held'[d].chan
                        <=> held'[d].cancel = [node |-> w.node, id |-> w.id]
    BY DEF CancelIsOwn
  <2>1. CASE w = w0 /\ d = c
    BY <1>7, <1>11, <2>1
  <2>2. CASE w = w0 /\ d # c
    <3>1. held'[d] = held[d] /\ held[d].chan # ch
      BY <1>4, <1>11, <2>2
    <3>2. held[d].cancel # [node |-> n, id |-> id]
      <4>1. held[d].cancel = Nil \/ held[d].cancel.id <= watchCount
        BY DEF CacheInv, CancelsIssued
      <4>2. [node |-> n, id |-> id] # Nil
        BY <1>1
      <4> QED
        BY <1>1, <4>1, <4>2 DEF CacheInv, CacheTypeOK
    <3> QED
      BY <1>7, <2>2, <3>1, <3>2
  <2>3. CASE w \in watches /\ d = c
    <3>1. held'[d].chan = ch /\ held'[d].cancel = [node |-> n, id |-> id]
      BY <1>11, <2>3
    <3>2. w.id # id
      BY <1>1, <1>7, <2>3 DEF CacheInv, CacheTypeOK
    <3> QED
      BY <1>4, <2>3, <3>1, <3>2
  <2>4. CASE w \in watches /\ d # c
    BY <1>11, <2>4 DEF CacheInv, CancelIsOwn
  <2> QED
    BY <1>2, <2>1, <2>2, <2>3, <2>4
<1>15. OpenWatchesCurrent'
  BY <1>2, <1>7 DEF CacheInv, OpenWatchesCurrent
<1> QED
  BY <1>4, <1>6, <1>8, <1>9, <1>10, <1>12, <1>13, <1>14, <1>15 DEF CacheInv

(* The branch that answers at once registers nothing and hands out no      *)
(* cancel function.                                                        *)
LEMMA AnswerAtOnceInv ==
    ASSUME CacheInv, NEW c \in Caller, NEW r \in Requests, NEW ch \in FreeChan,
           status' = status \cup {NodeID(r)}, AnswerAtOnce(c, r, ch),
           UNCHANGED snapshots
    PROVE  CacheInv'
<1> DEFINE s == snapshots[NodeID(r)]
           items == GetResources(s, r.type)
           version == GetVersion(s, r.type)
           contents == Respond(<<>>, r, items, version)
           h0 == [chan |-> ch, cancel |-> Nil]
<1>1. NodeID(r) \in Node /\ r \in Request /\ r.type \in Type
  BY NodeIDType DEF Request
<1>2. s \in SnapshotSet \cup {Nil}
  BY <1>1 DEF CacheInv, CacheTypeOK
<1>3. items \in Items /\ version \in Version
  BY <1>1, <1>2, SnapshotData
<1>4. /\ MakeChan(c, ch, contents)
      /\ held' = [held EXCEPT ![c] = h0]
      /\ UNCHANGED <<watches, watchCount>>
  BY DEF AnswerAtOnce
<1>5. contents \in Seq(Response) /\ Len(contents) <= 1
  <2> HIDE DEF items, version
  <2>1. <<>> \in Seq(Response)
    OBVIOUS
  <2> QED
    BY <1>1, <1>3, <2>1, RespondType
<1> HIDE DEF contents
<1>6. /\ ch \in Chan /\ ch # Nil
      /\ buf' \in [Chan -> Seq(Response)]
      /\ ChannelsNeverBlock'
      /\ \A w \in watches : w.chan # ch /\ buf'[w.chan] = <<>>
      /\ \A d \in Caller : held[d].chan # ch
  BY <1>4, <1>5, MakeChanFacts
<1>7. h0 \in Handle
  BY <1>6 DEF Handle
<1>8. CacheTypeOK'
  BY <1>1, <1>4, <1>6, <1>7 DEF CacheInv, CacheTypeOK
<1>9. ASSUME NEW d \in Caller
      PROVE  held'[d] = IF d = c THEN h0 ELSE held[d]
  BY <1>4 DEF CacheInv, CacheTypeOK
<1>10. WatchesDistinct' /\ WatchesFiled' /\ OpenChannelsEmpty' /\ OpenWatchesCurrent'
  BY <1>4, <1>6 DEF CacheInv, WatchesDistinct, WatchesFiled, OpenChannelsEmpty,
     OpenWatchesCurrent
<1>11. HandlesDistinct' /\ CancelsIssued'
  BY <1>4, <1>6, <1>9 DEF CacheInv, HandlesDistinct, CancelsIssued
<1>12. CancelIsOwn'
  <2> SUFFICES ASSUME NEW d \in Caller, NEW w \in watches
               PROVE  w.chan = held'[d].chan
                        <=> held'[d].cancel = [node |-> w.node, id |-> w.id]
    BY <1>4 DEF CancelIsOwn
  <2>1. CASE d = c
    <3>1. [node |-> w.node, id |-> w.id] # Nil
      BY DEF CacheInv, CacheTypeOK, Watch
    <3> QED
      BY <1>6, <1>9, <2>1, <3>1
  <2>2. CASE d # c
    BY <1>9, <2>2 DEF CacheInv, CancelIsOwn
  <2> QED
    BY <2>1, <2>2
<1> QED
  BY <1>6, <1>8, <1>10, <1>11, <1>12 DEF CacheInv

(* CreateWatch takes one branch or the other.                              *)
LEMMA CreateWatchInv ==
    ASSUME CacheInv, NEW c \in Caller, NEW r \in Requests, NEW ch, CreateWatch(c, r, ch)
    PROVE  CacheInv'
BY OpenWatchInv, AnswerAtOnceInv DEF CreateWatch

-----------------------------------------------------------------------------
(* A cancel function only takes watches away.                              *)
LEMMA CancelWatchInv ==
    ASSUME CacheInv, NEW c \in Caller, CancelWatch(c)
    PROVE  CacheInv'
<1>1. watches' \subseteq watches /\ UNCHANGED <<snapshots, status, watchCount, buf, held>>
  BY DEF CancelWatch
<1>2. CacheTypeOK'
  BY <1>1 DEF CacheInv, CacheTypeOK
<1>3. WatchesDistinct' /\ WatchesFiled' /\ OpenChannelsEmpty' /\ OpenWatchesCurrent'
  BY <1>1 DEF CacheInv, WatchesDistinct, WatchesFiled, OpenChannelsEmpty,
     OpenWatchesCurrent
<1>4. ChannelsNeverBlock' /\ HandlesDistinct' /\ CancelIsOwn' /\ CancelsIssued'
  BY <1>1 DEF CacheInv, ChannelsNeverBlock, HandlesDistinct, CancelIsOwn, CancelsIssued
<1> QED
  BY <1>2, <1>3, <1>4 DEF CacheInv

(* A receive empties the caller's channel.                                 *)
LEMMA ReceiveInv ==
    ASSUME CacheInv, NEW c \in Caller, Receive(c)
    PROVE  CacheInv'
<1> DEFINE ch == held[c].chan
<1>1. /\ ch \in Chan /\ buf[ch] # <<>>
      /\ buf' = [buf EXCEPT ![ch] = Tail(@)]
      /\ UNCHANGED <<snapshots, status, watches, watchCount, held>>
  BY DEF CacheInv, CacheTypeOK, Handle, Receive
<1>2. /\ buf[ch] \in Seq(Response) /\ Len(buf[ch]) <= 1
  BY <1>1 DEF CacheInv, CacheTypeOK, ChannelsNeverBlock
<1>3. Tail(buf[ch]) \in Seq(Response) /\ Len(Tail(buf[ch])) <= 1
  BY <1>1, <1>2
<1> HIDE DEF ch
<1>4. CacheTypeOK'
  BY <1>1, <1>3 DEF CacheInv, CacheTypeOK
<1>5. ChannelsNeverBlock'
  BY <1>1, <1>3 DEF CacheInv, CacheTypeOK, ChannelsNeverBlock
<1>6. OpenChannelsEmpty'
  <2> SUFFICES ASSUME NEW w \in watches PROVE buf'[w.chan] = <<>>
    BY <1>1 DEF OpenChannelsEmpty
  <2>1. buf[w.chan] = <<>> /\ w.chan # ch
    BY <1>1 DEF CacheInv, OpenChannelsEmpty
  <2> QED
    BY <1>1, <2>1 DEF CacheInv, CacheTypeOK, Watch
<1>7. WatchesDistinct' /\ WatchesFiled' /\ HandlesDistinct' /\ CancelIsOwn'
  BY <1>1 DEF CacheInv, WatchesDistinct, WatchesFiled, HandlesDistinct, CancelIsOwn
<1>8. CancelsIssued' /\ OpenWatchesCurrent'
  BY <1>1 DEF CacheInv, CancelsIssued, OpenWatchesCurrent
<1> QED
  BY <1>4, <1>5, <1>6, <1>7, <1>8 DEF CacheInv

-----------------------------------------------------------------------------
LEMMA NextInv == CacheInv /\ [CacheNext]_cacheVars => CacheInv'
<1> SUFFICES ASSUME CacheInv, [CacheNext]_cacheVars PROVE CacheInv'
  OBVIOUS
<1>1. ASSUME NEW n \in Node, NEW s \in Snapshots, SetSnapshot(n, s) PROVE CacheInv'
  BY <1>1, SetSnapshotInv
<1>2. ASSUME NEW n \in Node, ClearSnapshot(n) PROVE CacheInv'
  BY <1>2, ClearSnapshotInv
<1>3. ASSUME NEW c \in Caller, NEW r \in Requests, NEW ch \in Chan,
             CreateWatch(c, r, ch)
      PROVE  CacheInv'
  BY <1>3, CreateWatchInv
<1>4. ASSUME NEW c \in Caller, CancelWatch(c) PROVE CacheInv'
  BY <1>4, CancelWatchInv
<1>5. ASSUME NEW c \in Caller, Receive(c) PROVE CacheInv'
  BY <1>5, ReceiveInv
<1>6. CASE UNCHANGED cacheVars
  BY <1>6 DEF cacheVars, CacheInv, CacheTypeOK, WatchesDistinct, WatchesFiled,
     OpenChannelsEmpty, ChannelsNeverBlock, HandlesDistinct, CancelIsOwn,
     CancelsIssued, OpenWatchesCurrent
<1> QED
  BY <1>1, <1>2, <1>3, <1>4, <1>5, <1>6 DEF CacheNext

(* The cache's bookkeeping is sound in every reachable state: IDs and      *)
(* channels identify watches, a cancel function meets its own watch only,  *)
(* and open watches are up to date and unanswered.                         *)
THEOREM CacheInvariant == CacheSpec => []CacheInv
<1>1. CacheInit => CacheInv
  BY InitInv
<1>2. CacheInv /\ [CacheNext]_cacheVars => CacheInv'
  BY NextInv
<1> QED
  BY <1>1, <1>2, PTL DEF CacheSpec

(* No send on a response channel blocks with the cache's mutex held.       *)
THEOREM SendsNeverBlock == CacheSpec => []ChannelsNeverBlock
<1>1. CacheInv => ChannelsNeverBlock
  BY DEF CacheInv
<1> QED
  BY <1>1, CacheInvariant, PTL

(* No interleaving of SetSnapshot with CreateWatch, cancel and ClearSnapshot *)
(* leaves a watch open that the current snapshot should have answered.     *)
THEOREM NoLostUpdate == CacheSpec => []OpenWatchesCurrent
<1>1. CacheInv => OpenWatchesCurrent
  BY DEF CacheInv
<1> QED
  BY <1>1, CacheInvariant, PTL

(* A cancel function closes the watch it was returned with, or nothing.    *)
THEOREM CancelsAreOwn == CacheSpec => []CancelIsOwn
<1>1. CacheInv => CancelIsOwn
  BY DEF CacheInv
<1> QED
  BY <1>1, CacheInvariant, PTL
=============================================================================
