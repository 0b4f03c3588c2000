-------------------------- MODULE XdsServerProofs --------------------------
(***************************************************************************)
(* The streaming server, for any number of streams, types, messages and    *)
(* snapshots.  First, it keeps its own types and the cache's invariant.    *)
(* Then, what a stream promises its client: it leaks no watch, loses no    *)
(* accepted request, sends nothing unasked and never confuses two nonces.  *)
(*                                                                         *)
(* The second part does not look into the cache.  Every call a stream      *)
(* makes is an operation of the abstract ConfigWatcher, which says what it *)
(* does to the subscriptions and answers of all the slots.                 *)
(***************************************************************************)
EXTENDS XdsServer, ConfigWatcherProofs

USE SnapshotAssumption, NilIsNoRecord, CacheAssumption, XdsAssumption

-----------------------------------------------------------------------------
(* Which cache call a step of the server makes, if any.                    *)

(* A slot of a stream is a caller of the cache.                            *)
LEMMA SlotIsCaller ==
    ASSUME NEW s \in Stream, NEW t \in ResponseType
    PROVE  <<s, t>> \in Caller
OBVIOUS

(* What process does with an accepted message is one of the requests.      *)
LEMMA AcceptedRequest ==
    ASSUME NEW s \in Stream, NEW m \in Messages \cup {Nil},
           ~ Malformed(s, m), WithType(m, StreamType[s]).type \in ResponseType
    PROVE  WithType(m, StreamType[s]) \in Requests
<1> DEFINE r == WithType(m, StreamType[s])
<1>1. m \in Messages /\ (m.type = AnyType => StreamType[s] \in ResponseType)
  BY DEF Malformed
<1>2. m \in [node : Node \cup {Nil}, type : Type \cup {AnyType},
             version : Version, names : SUBSET Name]
  BY <1>1
<1>3. WithType(m, r.type) = r
  BY <1>2 DEF WithType
<1> QED
  BY <1>1, <1>3

(* A conditional cancel, before a new watch or in the deferred Cancel.     *)
LEMMA MaybeCancelInv ==
    ASSUME CacheInv, NEW c \in Caller,
           IF held[c].cancel # Nil THEN CancelWatch(c) ELSE UNCHANGED cacheVars
    PROVE  CacheInv'
<1>1. CASE held[c].cancel # Nil
  BY <1>1, CancelWatchInv
<1>2. CASE held[c].cancel = Nil
  BY <1>2, NextInv
<1> QED
  BY <1>1, <1>2

LEMMA XdsInitInv == XdsInit => XdsInv
<1> SUFFICES ASSUME XdsInit PROVE XdsInv
  OBVIOUS
<1>1. CacheInv
  BY InitInv DEF XdsInit
<1>2. XdsTypeOK
  BY <1>1 DEF XdsInit, XdsTypeOK, CacheInv
<1> QED
  BY <1>1, <1>2 DEF XdsInit, XdsInv, Handover

-----------------------------------------------------------------------------
(* The steps that leave the cache alone.                                   *)

LEMMA OpenStreamInv ==
    ASSUME XdsInv, NEW s \in Stream, OpenStream(s)
    PROVE  XdsInv'
<1> USE DEF XdsInv
<1>1. UNCHANGED cacheVars
  BY DEF OpenStream
<1>2. CacheInv'
  BY <1>1, NextInv
<1>3. XdsTypeOK'
  BY <1>2 DEF OpenStream, XdsTypeOK, CacheInv, procVars, readerVars
<1>4. Handover'
  BY DEF OpenStream, XdsTypeOK, Handover, procVars, readerVars
<1> QED
  BY <1>2, <1>3, <1>4

LEMMA DisconnectInv ==
    ASSUME XdsInv, NEW s \in Stream, CloseSend(s) \/ Disconnect(s)
    PROVE  XdsInv'
<1> USE DEF XdsInv
<1>1. UNCHANGED cacheVars
  BY DEF CloseSend, Disconnect
<1>2. CacheInv'
  BY <1>1, NextInv
<1>3. XdsTypeOK'
  <2>1. CASE CloseSend(s)
    BY <1>2, <2>1 DEF CloseSend, XdsTypeOK, CacheInv, procVars, readerVars
  <2>2. CASE Disconnect(s)
    BY <1>2, <2>2 DEF Disconnect, XdsTypeOK, CacheInv, procVars, readerVars
  <2> QED
    BY <2>1, <2>2
<1>4. Handover'
  BY DEF CloseSend, Disconnect, XdsTypeOK, Handover, procVars, readerVars
<1> QED
  BY <1>2, <1>3, <1>4

LEMMA RecvErrorInv ==
    ASSUME XdsInv, NEW s \in Stream, RecvError(s)
    PROVE  XdsInv'
<1> USE DEF XdsInv
<1>1. UNCHANGED cacheVars
  BY DEF RecvError
<1>2. CacheInv'
  BY <1>1, NextInv
<1>3. XdsTypeOK'
  BY <1>2 DEF RecvError, XdsTypeOK, CacheInv, procVars, readerVars
<1>4. Handover'
  BY DEF RecvError, XdsTypeOK, Handover, procVars, readerVars
<1> QED
  BY <1>2, <1>3, <1>4

LEMMA InputEndedInv ==
    ASSUME XdsInv, NEW s \in Stream, InputEnded(s)
    PROVE  XdsInv'
<1> USE DEF XdsInv
<1>1. UNCHANGED cacheVars
  BY DEF InputEnded
<1>2. CacheInv'
  BY <1>1, NextInv
<1>3. XdsTypeOK'
  BY <1>2 DEF InputEnded, XdsTypeOK, CacheInv, procVars, readerVars
<1>4. Handover'
  BY DEF InputEnded, XdsTypeOK, Handover, procVars, readerVars
<1> QED
  BY <1>2, <1>3, <1>4

LEMMA ProcessReturnsInv ==
    ASSUME XdsInv, NEW s \in Stream, ProcessReturns(s)
    PROVE  XdsInv'
<1> USE DEF XdsInv
<1>1. UNCHANGED cacheVars
  BY DEF ProcessReturns
<1>2. CacheInv'
  BY <1>1, NextInv
<1>3. XdsTypeOK'
  BY <1>2 DEF ProcessReturns, XdsTypeOK, CacheInv, procVars, readerVars
<1>4. Handover'
  BY DEF ProcessReturns, XdsTypeOK, Handover, procVars, readerVars
<1> QED
  BY <1>2, <1>3, <1>4

LEMMA HandlerReturnsInv ==
    ASSUME XdsInv, NEW s \in Stream, HandlerReturns(s)
    PROVE  XdsInv'
<1> USE DEF XdsInv
<1>1. UNCHANGED cacheVars
  BY DEF HandlerReturns
<1>2. CacheInv'
  BY <1>1, NextInv
<1>3. XdsTypeOK'
  BY <1>2 DEF HandlerReturns, XdsTypeOK, CacheInv, procVars, readerVars
<1>4. Handover'
  BY DEF HandlerReturns, XdsTypeOK, Handover, procVars, readerVars
<1> QED
  BY <1>2, <1>3, <1>4

LEMMA RefuseRequestInv ==
    ASSUME XdsInv, NEW s \in Stream, RefuseRequest(s)
    PROVE  XdsInv'
<1> USE DEF XdsInv
<1>1. UNCHANGED cacheVars
  BY DEF RefuseRequest
<1>2. CacheInv'
  BY <1>1, NextInv
<1>3. XdsTypeOK'
  BY <1>2 DEF RefuseRequest, XdsTypeOK, CacheInv, procVars, readerVars, FromReader
<1>4. Handover'
  BY DEF RefuseRequest, XdsTypeOK, Handover, procVars, readerVars, FromReader
<1> QED
  BY <1>2, <1>3, <1>4

LEMMA IgnoreRequestInv ==
    ASSUME XdsInv, NEW s \in Stream, IgnoreRequest(s)
    PROVE  XdsInv'
<1> USE DEF XdsInv
<1>1. UNCHANGED cacheVars
  BY DEF IgnoreRequest
<1>2. CacheInv'
  BY <1>1, NextInv
<1>3. XdsTypeOK'
  BY <1>2 DEF IgnoreRequest, XdsTypeOK, CacheInv, procVars, readerVars, FromReader
<1>4. Handover'
  BY DEF IgnoreRequest, XdsTypeOK, Handover, procVars, readerVars, FromReader
<1> QED
  BY <1>2, <1>3, <1>4

(* Recv hands over a message of the client.                                *)
LEMMA RecvInv ==
    ASSUME XdsInv, NEW s \in Stream, NEW m \in Messages \cup {Nil},
           NEW k \in 0..streamNonce[s], Recv(s, m, k)
    PROVE  XdsInv'
<1> USE DEF XdsInv
<1>1. UNCHANGED cacheVars
  BY DEF Recv
<1>2. CacheInv'
  BY <1>1, NextInv
<1>3. UNCHANGED <<proc, current, cancelled, nonce, streamNonce, pending,
                  reqClosed, reqStop, conn>>
  BY DEF Recv, procVars
<1>4. reader' \in [Stream -> {"idle", "recv", "offer", "stopped"}]
  <2>1. \/ reader' = [reader EXCEPT ![s] = "stopped"]
        \/ reader' = [reader EXCEPT ![s] = "offer"]
    BY DEF Recv
  <2> QED
    BY <2>1 DEF XdsTypeOK
<1>5. /\ offered' \in [Stream -> Offer \cup {Nil}]
      /\ \A q \in Stream : reader'[q] = "offer" => offered'[q] # Nil
  <2>1. CASE reqStop[s]
    BY <2>1 DEF Recv, XdsTypeOK, Handover
  <2>2. CASE ~ reqStop[s]
    <3>1. offered' = [offered EXCEPT ![s] = [msg |-> m, nonce |-> k]]
      BY <2>2 DEF Recv
    <3>2. k \in Nat
      BY DEF XdsTypeOK
    <3> DEFINE o == [msg |-> m, nonce |-> k]
    <3>3. o \in Offer /\ o # Nil
      BY <3>2 DEF Offer
    <3>4. offered' = [offered EXCEPT ![s] = o]
      BY <3>1
    <3> HIDE DEF o
    <3> QED
      BY <2>2, <3>3, <3>4 DEF Recv, XdsTypeOK, Handover
  <2> QED
    BY <2>1, <2>2
<1>6. XdsTypeOK'
  BY <1>2, <1>3, <1>4, <1>5 DEF XdsTypeOK, CacheInv
<1>7. Handover'
  BY <1>3, <1>5 DEF Handover
<1> QED
  BY <1>2, <1>6, <1>7

-----------------------------------------------------------------------------
(* The steps that call the cache.                                          *)

LEMMA AcceptRequestInv ==
    ASSUME XdsInv, NEW s \in Stream, AcceptRequest(s)
    PROVE  XdsInv'
<1> USE DEF XdsInv
<1> DEFINE m == offered[s].msg
           r == WithType(m, StreamType[s])
           c == <<s, r.type>>
<1>1. m \in Messages \cup {Nil}
  BY DEF AcceptRequest, FromReader, XdsTypeOK, Handover, Offer
<1>2. r.type \in ResponseType /\ ~ Malformed(s, m)
  BY DEF AcceptRequest, Accepts
<1> HIDE DEF m
<1>3. r \in Requests /\ r \in Request
  <2>1. r \in Requests
    BY <1>1, <1>2, AcceptedRequest
  <2> QED
    BY <2>1, CacheAssumption
<1>4. c \in Caller
  BY <1>2
<1>5. /\ IF held[c].cancel # Nil THEN CancelWatch(c) ELSE UNCHANGED cacheVars
      /\ proc' = [proc EXCEPT ![s] = "create"]
      /\ current' = [current EXCEPT ![s] = r]
      /\ pending' = [pending EXCEPT ![c] = r]
      /\ UNCHANGED <<cancelled, nonce, streamNonce, reqStop, conn>>
      /\ FromReader(s)
  BY DEF AcceptRequest, m
<1> HIDE DEF r, c
<1>6. CacheInv'
  BY <1>4, <1>5, MaybeCancelInv
<1>7. XdsTypeOK'
  BY <1>3, <1>4, <1>5, <1>6 DEF FromReader, XdsTypeOK, CacheInv
<1>8. Handover'
  BY <1>2, <1>3, <1>5 DEF FromReader, XdsTypeOK, Handover, r
<1> QED
  BY <1>6, <1>7, <1>8

LEMMA CreateRequestedInv ==
    ASSUME XdsInv, NEW s \in Stream, CreateRequested(s)
    PROVE  XdsInv'
<1> USE DEF XdsInv
<1>1. current[s] \in Requests /\ <<s, current[s].type>> \in Caller
  BY DEF CreateRequested, Handover
<1>2. CacheInv'
  BY <1>1, CreateWatchInv DEF CreateRequested
<1>3. XdsTypeOK'
  BY <1>2 DEF CreateRequested, XdsTypeOK, CacheInv, readerVars
<1>4. Handover'
  BY DEF CreateRequested, XdsTypeOK, Handover, readerVars
<1> QED
  BY <1>2, <1>3, <1>4

LEMMA SendResponseInv ==
    ASSUME XdsInv, NEW s \in Stream, NEW t \in ResponseType, SendResponse(s, t)
    PROVE  XdsInv'
<1> USE DEF XdsInv
<1>1. <<s, t>> \in Caller /\ Receive(<<s, t>>)
  BY DEF SendResponse, FromWatch
<1>2. CacheInv'
  BY <1>1, ReceiveInv
<1>3. streamNonce[s] + 1 \in Nat
  BY DEF XdsTypeOK
<1>4. XdsTypeOK'
  BY <1>1, <1>2, <1>3 DEF SendResponse, XdsTypeOK, CacheInv, readerVars
<1>5. Handover'
  BY DEF SendResponse, XdsTypeOK, Handover, readerVars
<1> QED
  BY <1>2, <1>4, <1>5

LEMMA SendErrorInv ==
    ASSUME XdsInv, NEW s \in Stream, NEW t \in ResponseType, SendError(s, t)
    PROVE  XdsInv'
<1> USE DEF XdsInv
<1>1. <<s, t>> \in Caller /\ Receive(<<s, t>>)
  BY DEF SendError, FromWatch
<1>2. CacheInv'
  BY <1>1, ReceiveInv
<1>3. streamNonce' \in [Stream -> Nat]
  BY SMTT(30) DEF SendError, XdsTypeOK
<1>4. XdsTypeOK'
  BY <1>2, <1>3 DEF SendError, XdsTypeOK, CacheInv, readerVars
<1>5. Handover'
  BY DEF SendError, XdsTypeOK, Handover, readerVars
<1> QED
  BY <1>2, <1>4, <1>5

LEMMA CancelNextInv ==
    ASSUME XdsInv, NEW s \in Stream, CancelNext(s)
    PROVE  XdsInv'
<1> USE DEF XdsInv
<1> DEFINE i == cancelled[s] + 1
<1>1. cancelled[s] \in 0..Len(CancelOrder) /\ Len(CancelOrder) \in Nat
  BY DEF XdsTypeOK
<1>2. i \in 1..Len(CancelOrder) /\ i \in 0..Len(CancelOrder)
  <2>1. cancelled[s] < Len(CancelOrder)
    BY DEF CancelNext
  <2> QED
    BY <1>1, <2>1
<1>3. <<s, CancelOrder[i]>> \in Caller
  BY <1>2
<1>4. CacheInv'
  BY <1>3, MaybeCancelInv DEF CancelNext
<1>5. cancelled' \in [Stream -> 0..Len(CancelOrder)]
  BY <1>2 DEF CancelNext, XdsTypeOK
<1>6. XdsTypeOK'
  BY <1>4, <1>5 DEF CancelNext, XdsTypeOK, CacheInv, readerVars
<1>7. Handover'
  BY DEF CancelNext, XdsTypeOK, Handover, readerVars
<1> QED
  BY <1>4, <1>6, <1>7

LEMMA UpdateSnapshotInv ==
    ASSUME XdsInv, NEW n \in Node, NEW snapshot \in Snapshots, UpdateSnapshot(n, snapshot)
    PROVE  XdsInv'
<1> USE DEF XdsInv
<1>1. CacheInv'
  BY SetSnapshotInv DEF UpdateSnapshot
<1> QED
  BY <1>1 DEF UpdateSnapshot, XdsTypeOK, Handover, CacheInv, serverVars, procVars, readerVars

-----------------------------------------------------------------------------
LEMMA XdsNextInv == XdsInv /\ [XdsNext]_xdsVars => XdsInv'
<1> SUFFICES ASSUME XdsInv, [XdsNext]_xdsVars PROVE XdsInv'
  OBVIOUS
<1>1. ASSUME NEW s \in Stream, ProcessStep(s) PROVE XdsInv'
  BY <1>1, RefuseRequestInv, IgnoreRequestInv, AcceptRequestInv, CreateRequestedInv,
     SendResponseInv, SendErrorInv, InputEndedInv, CancelNextInv, ProcessReturnsInv,
     HandlerReturnsInv DEF ProcessStep
<1>2. ASSUME NEW s \in Stream,
             OpenStream(s) \/ CloseSend(s) \/ Disconnect(s) \/ RecvError(s)
      PROVE XdsInv'
  BY <1>2, OpenStreamInv, DisconnectInv, RecvErrorInv
<1>5. ASSUME NEW s \in Stream, NEW m \in Messages \cup {Nil},
             NEW k \in 0..streamNonce[s], Recv(s, m, k)
      PROVE XdsInv'
  BY <1>5, RecvInv
<1>3. ASSUME NEW n \in Node, NEW snapshot \in Snapshots, UpdateSnapshot(n, snapshot)
      PROVE XdsInv'
  BY <1>3, UpdateSnapshotInv
<1>4. CASE UNCHANGED xdsVars
  <2>1. CacheInv'
    BY <1>4, NextInv DEF XdsInv, xdsVars
  <2> QED
    BY <1>4, <2>1 DEF XdsInv, XdsTypeOK, Handover, CacheInv, xdsVars, serverVars,
       procVars, readerVars
<1> QED
  BY <1>1, <1>2, <1>3, <1>4, <1>5 DEF XdsNext

(* The streaming server keeps the cache's invariant: with any number of    *)
(* streams, no response channel blocks the cache, no cancel function       *)
(* closes a foreign watch and no update is lost.                           *)
THEOREM XdsInvariant == XdsSpec => []XdsInv
<1>1. XdsInit => XdsInv
  BY XdsInitInv
<1>2. XdsInv /\ [XdsNext]_xdsVars => XdsInv'
  BY XdsNextInv
<1> QED
  BY <1>1, <1>2, PTL DEF XdsSpec

-----------------------------------------------------------------------------
(* What a cache call leaves of the slots.                                  *)

(* A slot is a pair, and so two slots differ in their stream or type.      *)
LEMMA SlotsDiffer ==
    ASSUME NEW s, NEW t, NEW q, NEW u
    PROVE  <<s, t>> = <<q, u>> <=> s = q /\ t = u
OBVIOUS

(* What a slot serves, if anything, is a request.                          *)
LEMMA ServesType ==
    ASSUME CacheInv, NEW c \in Caller
    PROVE  /\ Serves(c) \in Request \cup {Nil}
           /\ WaitingFor(c) # Nil => Serves(c) = WaitingFor(c)
           /\ AnswerFor(c) # Nil => WaitingFor(c) = Nil
           /\ Serves(c) = Nil => WaitingFor(c) = Nil /\ AnswerFor(c) = Nil
<1>1. /\ WaitingFor(c) \in Request \cup {Nil}
      /\ AnswerFor(c) \in Response \cup {Nil}
      /\ WaitingFor(c) # Nil => AnswerFor(c) = Nil
  BY WaitingType
<1>2. AnswerFor(c) # Nil => AnswerFor(c).request \in Request
  BY <1>1 DEF Response
<1> QED
  BY <1>1, <1>2 DEF Serves

(* A conditional cancel ends the subscription of its slot: a slot without  *)
(* a cancel function has none.                                             *)
LEMMA MaybeCancelUnsubscribes ==
    ASSUME CacheInv, NEW c \in Caller,
           IF held[c].cancel # Nil THEN CancelWatch(c) ELSE UNCHANGED cacheVars
    PROVE  /\ WaitingFor(c)' = Nil
           /\ \A d \in Caller : d # c => WaitingFor(d)' = WaitingFor(d)
           /\ \A d \in Caller : AnswerFor(d)' = AnswerFor(d)
           /\ watches' \subseteq watches /\ held' = held
<1>1. CASE held[c].cancel # Nil
  <2>1. CancelWatch(c)
    BY <1>1
  <2>2. Watcher!Unsubscribe(c)
    BY <2>1, CancelWatchUnsubscribes
  <2>3. watches' \subseteq watches /\ held' = held
    BY <2>1 DEF CancelWatch
  <2> DEFINE before == [d \in Caller |-> WaitingFor(d)]
  <2>4. [d \in Caller |-> WaitingFor(d)'] = [before EXCEPT ![c] = Nil]
    BY <2>2 DEF Watcher!Unsubscribe
  <2>5. [d \in Caller |-> AnswerFor(d)'] = [d \in Caller |-> AnswerFor(d)]
    BY <2>2 DEF Watcher!Unsubscribe
  <2>6. \A d \in Caller : AnswerFor(d)' = AnswerFor(d)
    BY <2>5
  <2>7. \A d \in Caller : WaitingFor(d)' = IF d = c THEN Nil ELSE WaitingFor(d)
    BY <2>4
  <2> QED
    BY <2>3, <2>6, <2>7
<1>2. CASE held[c].cancel = Nil
  <2>1. \A w \in watches : w.chan # held[c].chan
    <3> SUFFICES ASSUME NEW w \in watches, w.chan = held[c].chan PROVE FALSE
      OBVIOUS
    <3>1. held[c].cancel = [node |-> w.node, id |-> w.id]
      BY DEF CacheInv, CancelIsOwn
    <3>2. w.node \in Node /\ w.id \in Nat
      BY DEF CacheInv, CacheTypeOK, Watch
    <3> QED
      BY <1>2, <3>1, <3>2
  <2>2. WaitingFor(c) = Nil
    BY <2>1, WaitingIs
  <2> QED
    BY <1>2, <2>2 DEF cacheVars, WaitingFor, AnswerFor
<1> QED
  BY <1>1, <1>2

(* CreateWatch gives the slot a subscription or an answer for the request, *)
(* or, in ADS mode, nothing.                                               *)
LEMMA CreateWatchServes ==
    ASSUME CacheInv, NEW c \in Caller, NEW r \in Requests, NEW ch, CreateWatch(c, r, ch)
    PROVE  /\ WaitingFor(c)' \in {Nil, r}
           /\ Serves(c)' \in {Nil, r}
           /\ ~ ADS => Serves(c)' = r
           /\ \A d \in Caller : d # c => /\ WaitingFor(d)' = WaitingFor(d)
                                         /\ AnswerFor(d)' = AnswerFor(d)
<1> DEFINE snapshot == snapshots[NodeID(r)]
           news == Watcher!IsNews(r, NodeID(r), snapshot)
           answer == Watcher!AnswerFrom(r, snapshot)
<1>1. Watcher!Subscribe(c, r) /\ r \in Request
  BY CreateWatchSubscribes
<1>2. /\ \A d \in Caller : WaitingFor(d)' = IF d = c THEN (IF news THEN Nil ELSE r)
                                            ELSE WaitingFor(d)
      /\ \A d \in Caller : AnswerFor(d)' = IF d = c THEN (IF news THEN answer ELSE Nil)
                                           ELSE AnswerFor(d)
  <2> DEFINE before == [d \in Caller |-> WaitingFor(d)]
             prior == [d \in Caller |-> AnswerFor(d)]
  <2>1. /\ [d \in Caller |-> WaitingFor(d)'] = [before EXCEPT ![c] = IF news THEN Nil ELSE r]
        /\ [d \in Caller |-> AnswerFor(d)'] = [prior EXCEPT ![c] = IF news THEN answer ELSE Nil]
    BY <1>1, SameData DEF Watcher!Subscribe
  <2> HIDE DEF news, answer
  <2> QED
    BY <2>1
<1>3. (answer = Nil /\ ADS) \/ (answer # Nil /\ answer.request = r)
  <2> DEFINE items == GetResources(snapshot, r.type)
             version == GetVersion(snapshot, r.type)
             response == CreateResponse(r, items, version)
  <2>1. answer = IF Withheld(r, items) THEN Nil ELSE response
    BY SameData DEF Watcher!AnswerFrom
  <2>2. snapshot \in SnapshotSet \cup {Nil} /\ r.type \in Type
    BY <1>1, NodeIDType DEF CacheInv, CacheTypeOK, Request
  <2>3. items \in Items /\ version \in Version
    BY <2>2, SnapshotData
  <2> HIDE DEF items, version, answer
  <2>4. response \in Response /\ response.request = r
    BY <1>1, <2>3, CreateResponseType DEF CreateResponse
  <2> HIDE DEF response
  <2> QED
    BY <2>1, <2>4 DEF Withheld
<1> HIDE DEF news, answer
<1>4. WaitingFor(c)' = (IF news THEN Nil ELSE r) /\ AnswerFor(c)' = IF news THEN answer ELSE Nil
  BY <1>2
<1>5. Serves(c)' = IF news /\ answer = Nil THEN Nil ELSE r
  BY <1>3, <1>4 DEF Serves
<1> QED
  BY <1>2, <1>3, <1>4, <1>5

(* SetSnapshot turns subscriptions into answers to the same request, or,   *)
(* in ADS mode, into nothing.                                              *)
LEMMA SetSnapshotServes ==
    ASSUME CacheInv, NEW n \in Node, NEW s \in Snapshots, SetSnapshot(n, s),
           NEW c \in Caller
    PROVE  /\ WaitingFor(c)' \in {Nil, WaitingFor(c)}
           /\ Serves(c)' \in {Nil, Serves(c)}
           /\ ~ ADS => Serves(c)' = Serves(c)
<1> DEFINE news == Watcher!IsNews(WaitingFor(c), n, s)
           answer == Watcher!AnswerFrom(WaitingFor(c), s)
<1>1. Watcher!Publish(n, s)
  BY SetSnapshotPublishes
<1>2. /\ WaitingFor(c)' = IF news THEN Nil ELSE WaitingFor(c)
      /\ AnswerFor(c)' = IF news THEN answer ELSE AnswerFor(c)
  <2>1. /\ [d \in Caller |-> WaitingFor(d)'] =
             [d \in Caller |-> IF Watcher!IsNews(WaitingFor(d), n, s)
                               THEN Nil ELSE WaitingFor(d)]
        /\ [d \in Caller |-> AnswerFor(d)'] =
             [d \in Caller |-> IF Watcher!IsNews(WaitingFor(d), n, s)
                               THEN Watcher!AnswerFrom(WaitingFor(d), s) ELSE AnswerFor(d)]
    BY <1>1 DEF Watcher!Publish
  <2> QED
    BY <2>1
<1>3. CASE ~ news
  BY <1>2, <1>3 DEF Serves
<1>4. CASE news
  <2> DEFINE r == WaitingFor(c)
             items == GetResources(s, r.type)
             version == GetVersion(s, r.type)
             response == CreateResponse(r, items, version)
  <2>1. r \in Request /\ r.type \in Type /\ Serves(c) = r
    <3>1. r # Nil
      BY <1>4 DEF Watcher!IsNews
    <3>2. r \in Request /\ Serves(c) = r
      BY <3>1, WaitingType, ServesType
    <3> QED
      BY <3>2 DEF Request
  <2>2. answer = IF Withheld(r, items) THEN Nil ELSE response
    BY SameData DEF Watcher!AnswerFrom
  <2>3. items \in Items /\ version \in Version
    BY <2>1, SnapshotData
  <2> HIDE DEF items, version, answer, r
  <2>4. response \in Response /\ response.request = r
    <3>1. response \in Response
      BY <2>1, <2>3, CreateResponseType
    <3> QED
      BY <3>1 DEF CreateResponse
  <2> HIDE DEF response
  <2>5. (answer = Nil /\ ADS) \/ (answer # Nil /\ answer.request = r)
    BY <2>2, <2>4 DEF Withheld
  <2>6. WaitingFor(c)' = Nil /\ AnswerFor(c)' = answer
    BY <1>2, <1>4 DEF r
  <2>7. Serves(c)' = IF answer = Nil THEN Nil ELSE r
    BY <2>5, <2>6 DEF Serves
  <2> QED
    BY <2>1, <2>5, <2>6, <2>7
<1> QED
  BY <1>3, <1>4

(* A receive takes the answer away, and the slot has nothing left to do.   *)
LEMMA ReceiveServes ==
    ASSUME CacheInv, NEW c \in Caller, Receive(c)
    PROVE  /\ Serves(c)' = Nil
           /\ \A d \in Caller : WaitingFor(d)' = WaitingFor(d)
           /\ \A d \in Caller : d # c => AnswerFor(d)' = AnswerFor(d)
<1>1. Watcher!Take(c)
  BY ReceiveTakes
<1> DEFINE prior == [d \in Caller |-> AnswerFor(d)]
<1>2. /\ prior[c] # Nil
      /\ [d \in Caller |-> AnswerFor(d)'] = [prior EXCEPT ![c] = Nil]
      /\ [d \in Caller |-> WaitingFor(d)'] = [d \in Caller |-> WaitingFor(d)]
  BY <1>1 DEF Watcher!Take
<1>3. AnswerFor(c) # Nil
  BY <1>2
<1>4. WaitingFor(c) = Nil
  BY <1>3, ServesType
<1>5. \A d \in Caller : AnswerFor(d)' = IF d = c THEN Nil ELSE AnswerFor(d)
  BY <1>2
<1>6. \A d \in Caller : WaitingFor(d)' = WaitingFor(d)
  BY <1>2
<1> QED
  BY <1>4, <1>5, <1>6 DEF Serves

-----------------------------------------------------------------------------
LEMMA StreamInitInv == XdsInit => SlotInv
<1> SUFFICES ASSUME XdsInit PROVE SlotInv
  OBVIOUS
<1>1. /\ watches = {} /\ held = [c \in Caller |-> NoHandle]
      /\ cancelled = [s \in Stream |-> 0] /\ nonce = [c \in Caller |-> 0]
      /\ streamNonce = [s \in Stream |-> 0] /\ proc = [s \in Stream |-> "idle"]
      /\ pending = [c \in Caller |-> Nil]
  BY DEF XdsInit, CacheInit
<1>2. \A c \in Caller : WaitingFor(c) = Nil /\ AnswerFor(c) = Nil /\ Serves(c) = Nil
  BY <1>1 DEF WaitingFor, AnswerFor, Serves, NoHandle
<1>3. SlotsOwned
  BY <1>1, <1>2 DEF SlotsOwned
<1>4. SlotsAnswer
  BY <1>1, <1>2 DEF SlotsAnswer, Serving
<1>5. NoncesIdentify
  BY <1>1 DEF NoncesIdentify
<1> QED
  BY <1>3, <1>4, <1>5 DEF SlotInv

(* A step in which the cache is not called: at most one process goroutine  *)
(* moves on, and not into or out of the creation of a watch.               *)
Moves(p, q, done) ==
    \/ q = p
    \/ p = "idle" /\ q \in {"select", "closing"}
    \/ p = "select" /\ q = "closing"
    \/ p = "closing" /\ q = "returned" /\ done
    \/ p = "returned" /\ q = "stopped"

LEMMA QuietStepInv ==
    ASSUME XdsInv, SlotInv, UNCHANGED cacheVars,
           UNCHANGED <<current, cancelled, nonce, streamNonce, pending>>,
           \A s \in Stream : Moves(proc[s], proc'[s], cancelled[s] = Len(CancelOrder))
    PROVE  SlotInv'
<1>1. \A c : /\ WaitingFor(c)' = WaitingFor(c)
             /\ AnswerFor(c)' = AnswerFor(c)
             /\ Serves(c)' = Serves(c)
  BY DEF cacheVars, WaitingFor, AnswerFor, Serves
<1>2. CacheInv
  BY DEF XdsInv
<1>3. SlotsOwned'
  <2>1. \A w \in watches' : \E c \in Caller : w.chan = held'[c].chan
    BY DEF cacheVars, SlotInv, SlotsOwned
  <2>2. \A s \in Stream : proc'[s] \in {"idle", "select", "create"} => cancelled'[s] = 0
    BY DEF SlotInv, SlotsOwned, Moves
  <2>3. ASSUME NEW s \in Stream, NEW t \in ResponseType, WaitingFor(<<s, t>>)' # Nil
        PROVE  /\ WaitingFor(<<s, t>>)'.type = t
               /\ \/ Serving(s, t)'
                  \/ /\ proc'[s] = "closing"
                     /\ \A i \in 1..cancelled'[s] : CancelOrder[i] # t
    <3>1. /\ WaitingFor(<<s, t>>) # Nil
          /\ WaitingFor(<<s, t>>).type = t
          /\ \/ Serving(s, t)
             \/ /\ proc[s] = "closing"
                /\ \A i \in 1..cancelled[s] : CancelOrder[i] # t
      BY <1>1, <2>3 DEF SlotInv, SlotsOwned
    <3>2. cancelled[s] # Len(CancelOrder) \/ proc[s] # "closing"
      BY <3>1 DEF Serving
    <3>3. proc[s] \in {"select", "create", "closing"}
      BY <3>1 DEF Serving
    <3>4. proc[s] = "select" => cancelled[s] = 0
      BY DEF SlotInv, SlotsOwned
    <3>5. CASE proc'[s] = proc[s]
      BY <1>1, <3>1, <3>5 DEF Serving
    <3>6. CASE proc[s] = "select" /\ proc'[s] = "closing"
      BY <1>1, <3>1, <3>4, <3>6
    <3> QED
      BY <3>2, <3>3, <3>5, <3>6 DEF Moves
  <2> QED
    BY <2>1, <2>2, <2>3 DEF SlotsOwned
<1>4. SlotsAnswer'
  <2> SUFFICES ASSUME NEW s \in Stream
               PROVE  /\ proc'[s] = "create" => pending'[<<s, current'[s].type>>] = current'[s]
                      /\ \A t \in ResponseType :
                            /\ proc'[s] = "idle" => /\ Serves(<<s, t>>)' = Nil
                                                    /\ pending'[<<s, t>>] = Nil
                            /\ Serving(s, t)' =>
                                  /\ Serves(<<s, t>>)' \in {Nil, pending'[<<s, t>>]}
                                  /\ ~ ADS /\ pending'[<<s, t>>] # Nil =>
                                         Serves(<<s, t>>)' = pending'[<<s, t>>]
    BY DEF SlotsAnswer
  <2>1. /\ proc'[s] \in {"idle", "create"} => proc[s] = proc'[s]
        /\ proc'[s] = "select" => proc[s] \in {"idle", "select"}
    BY DEF Moves
  <2>2. \A t : Serving(s, t)' => Serving(s, t) \/ proc[s] = "idle"
    BY <2>1 DEF Serving
  <2> QED
    BY <1>1, <2>1, <2>2 DEF SlotInv, SlotsAnswer
<1>5. NoncesIdentify'
  BY DEF SlotInv, NoncesIdentify
<1> QED
  BY <1>3, <1>4, <1>5 DEF SlotInv

(* The actions of the server that do not call the cache.                   *)
LEMMA QuietActions ==
    ASSUME XdsInv, NEW s \in Stream,
           \/ OpenStream(s) \/ CloseSend(s) \/ Disconnect(s) \/ RecvError(s)
           \/ \E m, k : Recv(s, m, k)
           \/ RefuseRequest(s) \/ IgnoreRequest(s)
           \/ InputEnded(s) \/ ProcessReturns(s) \/ HandlerReturns(s)
    PROVE  /\ UNCHANGED cacheVars
           /\ UNCHANGED <<current, cancelled, nonce, streamNonce, pending>>
           /\ \A q \in Stream : Moves(proc[q], proc'[q], cancelled[q] = Len(CancelOrder))
<1>0. proc \in [Stream -> {"idle", "select", "create", "closing", "returned", "stopped"}]
  BY DEF XdsInv, XdsTypeOK
<1>1. CASE OpenStream(s)
  BY <1>0, <1>1 DEF OpenStream, Moves
<1>2. CASE CloseSend(s) \/ Disconnect(s) \/ RecvError(s) \/ \E m, k : Recv(s, m, k)
  BY <1>2 DEF CloseSend, Disconnect, RecvError, Recv, procVars, Moves
<1>3. CASE RefuseRequest(s)
  BY <1>0, <1>3 DEF RefuseRequest, FromReader, Moves
<1>4. CASE IgnoreRequest(s)
  BY <1>4 DEF IgnoreRequest, procVars, Moves
<1>5. CASE InputEnded(s)
  BY <1>0, <1>5 DEF InputEnded, Moves
<1>6. CASE ProcessReturns(s)
  BY <1>0, <1>6 DEF ProcessReturns, Moves
<1>7. CASE HandlerReturns(s)
  BY <1>0, <1>7 DEF HandlerReturns, Moves
<1> QED
  BY <1>1, <1>2, <1>3, <1>4, <1>5, <1>6, <1>7

-----------------------------------------------------------------------------
(* The actions that call the cache.                                        *)

(* The watch of the slot is cancelled; until the new one is created, the   *)
(* slot serves nothing, and the request is pending.                        *)
LEMMA AcceptRequestKeeps ==
    ASSUME XdsInv, SlotInv, NEW s \in Stream, AcceptRequest(s)
    PROVE  SlotInv'
<1>1. PICK r \in Request :
        /\ r.type \in ResponseType
        /\ IF held[<<s, r.type>>].cancel # Nil
           THEN CancelWatch(<<s, r.type>>) ELSE UNCHANGED cacheVars
        /\ proc[s] = "select"
        /\ proc' = [proc EXCEPT ![s] = "create"]
        /\ current' = [current EXCEPT ![s] = r]
        /\ pending' = [pending EXCEPT ![<<s, r.type>>] = r]
        /\ UNCHANGED <<cancelled, nonce, streamNonce>>
  <2> DEFINE m == offered[s].msg
             r == WithType(m, StreamType[s])
  <2>1. m \in Messages \cup {Nil}
    BY DEF AcceptRequest, FromReader, XdsInv, XdsTypeOK, Handover, Offer
  <2>2. r.type \in ResponseType /\ ~ Malformed(s, m)
    BY DEF AcceptRequest, Accepts
  <2>3. r \in Requests
    BY <2>1, <2>2, AcceptedRequest
  <2>4. r \in Request
    BY <2>3
  <2> QED
    BY <2>2, <2>4 DEF AcceptRequest, FromReader
<1> DEFINE c == <<s, r.type>>
<1>2. c \in Caller /\ CacheInv
  BY <1>1 DEF XdsInv
<1>3. /\ WaitingFor(c)' = Nil
      /\ \A d \in Caller : d # c => WaitingFor(d)' = WaitingFor(d)
      /\ \A d \in Caller : AnswerFor(d)' = AnswerFor(d)
      /\ watches' \subseteq watches /\ held' = held
  BY <1>1, <1>2, MaybeCancelUnsubscribes
<1>4. \A d \in Caller : d # c => Serves(d)' = Serves(d) /\ pending'[d] = pending[d]
  <2>1. \A d \in Caller : d # c => Serves(d)' = Serves(d)
    BY <1>3 DEF Serves
  <2>2. \A d \in Caller : d # c => pending'[d] = pending[d]
    BY <1>1 DEF XdsInv, XdsTypeOK
  <2> QED
    BY <2>1, <2>2
<1>5. /\ proc'[s] = "create" /\ current'[s] = r /\ pending'[c] = r
      /\ \A q \in Stream : q # s => proc'[q] = proc[q] /\ current'[q] = current[q]
  BY <1>1, <1>2 DEF XdsInv, XdsTypeOK
<1>6. ASSUME NEW q \in Stream, NEW t \in ResponseType, <<q, t>> # c
      PROVE  Serving(q, t)' <=> Serving(q, t)
  BY <1>1, <1>5, <1>6 DEF Serving
<1>7. ~ Serving(s, r.type)'
  BY <1>5 DEF Serving
<1>8. SlotsOwned'
  <2>1. \A w \in watches' : \E d \in Caller : w.chan = held'[d].chan
    BY <1>3 DEF SlotInv, SlotsOwned
  <2>2. \A q \in Stream : proc'[q] \in {"idle", "select", "create"} => cancelled'[q] = 0
    BY <1>1, <1>5 DEF SlotInv, SlotsOwned
  <2>3. ASSUME NEW q \in Stream, NEW t \in ResponseType, WaitingFor(<<q, t>>)' # Nil
        PROVE  /\ WaitingFor(<<q, t>>)'.type = t
               /\ \/ Serving(q, t)'
                  \/ /\ proc'[q] = "closing"
                     /\ \A i \in 1..cancelled'[q] : CancelOrder[i] # t
    <3>1. <<q, t>> # c /\ <<q, t>> \in Caller /\ WaitingFor(<<q, t>>)' = WaitingFor(<<q, t>>)
      BY <1>3, <2>3
    <3>2. /\ WaitingFor(<<q, t>>).type = t
          /\ \/ Serving(q, t)
             \/ /\ proc[q] = "closing"
                /\ \A i \in 1..cancelled[q] : CancelOrder[i] # t
      BY <2>3, <3>1 DEF SlotInv, SlotsOwned
    <3> QED
      BY <1>1, <1>5, <1>6, <3>1, <3>2
  <2> QED
    BY <2>1, <2>2, <2>3 DEF SlotsOwned
<1>9. SlotsAnswer'
  <2>1. ASSUME NEW q \in Stream, proc'[q] = "create"
        PROVE  pending'[<<q, current'[q].type>>] = current'[q]
    <3>1. CASE q = s
      BY <1>5, <3>1
    <3>2. CASE q # s
      <4>1. <<q, current[q].type>> # c /\ <<q, current[q].type>> \in Caller
        BY <1>5, <2>1, <3>2 DEF XdsInv, Handover
      <4> QED
        BY <1>4, <1>5, <2>1, <3>2, <4>1, SMTT(30) DEF SlotInv, SlotsAnswer
    <3> QED
      BY <3>1, <3>2
  <2>2. ASSUME NEW q \in Stream, NEW t \in ResponseType
        PROVE  /\ proc'[q] = "idle" => Serves(<<q, t>>)' = Nil /\ pending'[<<q, t>>] = Nil
               /\ Serving(q, t)' =>
                     /\ Serves(<<q, t>>)' \in {Nil, pending'[<<q, t>>]}
                     /\ ~ ADS /\ pending'[<<q, t>>] # Nil => Serves(<<q, t>>)' = pending'[<<q, t>>]
    <3>1. CASE <<q, t>> = c
      BY <1>5, <1>7, <3>1
    <3>2. CASE <<q, t>> # c
      <4>1. /\ Serves(<<q, t>>)' = Serves(<<q, t>>)
            /\ pending'[<<q, t>>] = pending[<<q, t>>]
        BY <1>4, <3>2
      <4>2. proc'[q] = "idle" => proc[q] = "idle"
        BY <1>5
      <4> QED
        BY <1>6, <3>2, <4>1, <4>2 DEF SlotInv, SlotsAnswer
    <3> QED
      BY <3>1, <3>2
  <2> QED
    BY <2>1, <2>2 DEF SlotsAnswer
<1>10. NoncesIdentify'
  BY <1>1 DEF SlotInv, NoncesIdentify
<1> QED
  BY <1>8, <1>9, <1>10 DEF SlotInv

(* The slot takes up the pending request.                                  *)
LEMMA CreateRequestedKeeps ==
    ASSUME XdsInv, SlotInv, NEW s \in Stream, CreateRequested(s)
    PROVE  SlotInv'
<1>1. PICK r, ch :
        /\ r = current[s]
        /\ CreateWatch(<<s, r.type>>, r, ch)
        /\ proc[s] = "create"
        /\ proc' = [proc EXCEPT ![s] = "select"]
        /\ current' = [current EXCEPT ![s] = Nil]
        /\ UNCHANGED <<cancelled, nonce, streamNonce, pending>>
  BY DEF CreateRequested
<1> DEFINE c == <<s, r.type>>
<1>2. r \in Requests /\ r.type \in ResponseType /\ c \in Caller /\ CacheInv
  BY <1>1 DEF XdsInv, Handover
<1>3. pending[c] = r
  BY <1>1 DEF SlotInv, SlotsAnswer
<1>4. /\ WaitingFor(c)' \in {Nil, r}
      /\ Serves(c)' \in {Nil, r}
      /\ ~ ADS => Serves(c)' = r
      /\ \A d \in Caller : d # c => /\ WaitingFor(d)' = WaitingFor(d)
                                    /\ AnswerFor(d)' = AnswerFor(d)
  BY <1>1, <1>2, CreateWatchServes
<1>5. \A d \in Caller : d # c => Serves(d)' = Serves(d)
  BY <1>4 DEF Serves
<1>6. /\ proc'[s] = "select"
      /\ \A q \in Stream : q # s => proc'[q] = proc[q] /\ current'[q] = current[q]
  BY <1>1 DEF XdsInv, XdsTypeOK
<1>7. ASSUME NEW q \in Stream, NEW t \in ResponseType, <<q, t>> # c
      PROVE  Serving(q, t)' <=> Serving(q, t)
  BY <1>1, <1>6, <1>7 DEF Serving
<1>8. Serving(s, r.type)' /\ ~ Serving(s, r.type)
  BY <1>1, <1>6 DEF Serving
<1>9. WaitingFor(c) = Nil
  BY <1>1, <1>2, <1>8 DEF SlotInv, SlotsOwned
<1>10. SlotsOwned'
  <2>1. \A w \in watches' : \E d \in Caller : w.chan = held'[d].chan
    <3> SUFFICES ASSUME NEW w \in watches' PROVE \E d \in Caller : w.chan = held'[d].chan
      OBVIOUS
    <3>1. \/ w \in watches
          \/ w.chan = ch
      BY <1>1 DEF CreateWatch, OpenWatch, AnswerAtOnce
    <3>2. held'[c].chan = ch /\ \A d \in Caller : d # c => held'[d] = held[d]
      BY <1>1, <1>2, SMTT(30) DEF CreateWatch, OpenWatch, AnswerAtOnce, CacheInv, CacheTypeOK
    <3>3. CASE w \in watches
      <4>1. PICK d \in Caller : w.chan = held[d].chan
        BY <3>3 DEF SlotInv, SlotsOwned
      <4>2. d # c
        <5>1. w.request \in Request
          BY <1>2, <3>3 DEF CacheInv, CacheTypeOK, Watch
        <5>2. w.chan = held[c].chan => WaitingFor(c) = w.request
          BY <1>2, <3>3, WaitingIs
        <5> QED
          BY <1>9, <4>1, <5>1, <5>2
      <4> QED
        BY <3>2, <4>1, <4>2
    <3> QED
      BY <1>2, <3>1, <3>2, <3>3
  <2>2. \A q \in Stream : proc'[q] \in {"idle", "select", "create"} => cancelled'[q] = 0
    BY <1>1, <1>6 DEF SlotInv, SlotsOwned
  <2>3. ASSUME NEW q \in Stream, NEW t \in ResponseType, WaitingFor(<<q, t>>)' # Nil
        PROVE  /\ WaitingFor(<<q, t>>)'.type = t
               /\ \/ Serving(q, t)'
                  \/ /\ proc'[q] = "closing"
                     /\ \A i \in 1..cancelled'[q] : CancelOrder[i] # t
    <3>1. CASE <<q, t>> = c
      <4>1. q = s /\ t = r.type
        BY <3>1, SlotsDiffer
      <4> QED
        BY <1>4, <1>8, <2>3, <4>1
    <3>2. CASE <<q, t>> # c
      <4>1. WaitingFor(<<q, t>>)' = WaitingFor(<<q, t>>)
        BY <1>4, <3>2
      <4>2. /\ WaitingFor(<<q, t>>).type = t
            /\ \/ Serving(q, t)
               \/ /\ proc[q] = "closing"
                  /\ \A i \in 1..cancelled[q] : CancelOrder[i] # t
        BY <2>3, <4>1 DEF SlotInv, SlotsOwned
      <4> QED
        BY <1>1, <1>6, <1>7, <3>2, <4>1, <4>2
    <3> QED
      BY <3>1, <3>2
  <2> QED
    BY <2>1, <2>2, <2>3 DEF SlotsOwned
<1>11. SlotsAnswer'
  <2>1. ASSUME NEW q \in Stream, proc'[q] = "create"
        PROVE  pending'[<<q, current'[q].type>>] = current'[q]
    BY <1>1, <1>6, <2>1 DEF SlotInv, SlotsAnswer
  <2>2. ASSUME NEW q \in Stream, NEW t \in ResponseType
        PROVE  /\ proc'[q] = "idle" => Serves(<<q, t>>)' = Nil /\ pending'[<<q, t>>] = Nil
               /\ Serving(q, t)' =>
                     /\ Serves(<<q, t>>)' \in {Nil, pending'[<<q, t>>]}
                     /\ ~ ADS /\ pending'[<<q, t>>] # Nil => Serves(<<q, t>>)' = pending'[<<q, t>>]
    <3>1. CASE <<q, t>> = c
      BY <1>1, <1>3, <1>4, <1>6, <3>1
    <3>2. CASE <<q, t>> # c
      <4>1. Serves(<<q, t>>)' = Serves(<<q, t>>)
        BY <1>5, <3>2
      <4>2. proc'[q] = "idle" => proc[q] = "idle"
        BY <1>6
      <4> QED
        BY <1>1, <1>7, <3>2, <4>1, <4>2 DEF SlotInv, SlotsAnswer
    <3> QED
      BY <3>1, <3>2
  <2> QED
    BY <2>1, <2>2 DEF SlotsAnswer
<1>12. NoncesIdentify'
  BY <1>1 DEF SlotInv, NoncesIdentify
<1> QED
  BY <1>10, <1>11, <1>12 DEF SlotInv

(* The next nonce of a stream is greater than all of its earlier ones.     *)
LEMMA NextNonce ==
    ASSUME NEW k \in Nat, NEW n \in Nat, n <= k
    PROVE  n # k + 1 /\ n <= k + 1 /\ k + 1 <= k + 1
OBVIOUS

(* A response is sent, and nothing is pending for its slot any more.  Its  *)
(* nonce is one the stream has not used.                                   *)
LEMMA SendResponseKeeps ==
    ASSUME XdsInv, SlotInv, NEW s \in Stream, NEW u \in ResponseType, SendResponse(s, u)
    PROVE  SlotInv'
<1> DEFINE c == <<s, u>>
<1>1. /\ Receive(c)
      /\ proc[s] = "select"
      /\ streamNonce' = [streamNonce EXCEPT ![s] = streamNonce[s] + 1]
      /\ nonce' = [nonce EXCEPT ![c] = streamNonce[s] + 1]
      /\ pending' = [pending EXCEPT ![c] = Nil]
      /\ UNCHANGED <<proc, current, cancelled>>
  BY DEF SendResponse, FromWatch
<1>2. c \in Caller /\ CacheInv
  BY DEF XdsInv
<1>3. /\ Serves(c)' = Nil
      /\ \A d \in Caller : WaitingFor(d)' = WaitingFor(d)
      /\ \A d \in Caller : d # c => AnswerFor(d)' = AnswerFor(d)
  BY <1>1, <1>2, ReceiveServes
<1>4. \A d \in Caller : d # c => Serves(d)' = Serves(d)
  BY <1>3 DEF Serves
<1>5. pending'[c] = Nil /\ \A d \in Caller : d # c => pending'[d] = pending[d]
  BY <1>1, <1>2 DEF XdsInv, XdsTypeOK
<1>6. \A q, t : Serving(q, t)' <=> Serving(q, t)
  BY <1>1 DEF Serving
<1>7. SlotsOwned'
  <2>1. UNCHANGED <<watches, held>>
    BY <1>1 DEF Receive
  <2> QED
    BY <1>1, <1>3, <1>6, <2>1 DEF SlotInv, SlotsOwned
<1>8. SlotsAnswer'
  <2>1. ASSUME NEW q \in Stream, proc'[q] = "create"
        PROVE  pending'[<<q, current'[q].type>>] = current'[q]
    <3>1. q # s /\ proc[q] = "create"
      BY <1>1, <2>1
    <3>2. <<q, current[q].type>> # c /\ <<q, current[q].type>> \in Caller
      BY <3>1 DEF XdsInv, Handover
    <3> QED
      BY <1>1, <1>5, <3>1, <3>2 DEF SlotInv, SlotsAnswer
  <2>2. ASSUME NEW q \in Stream, NEW t \in ResponseType
        PROVE  /\ proc'[q] = "idle" => Serves(<<q, t>>)' = Nil /\ pending'[<<q, t>>] = Nil
               /\ Serving(q, t)' =>
                     /\ Serves(<<q, t>>)' \in {Nil, pending'[<<q, t>>]}
                     /\ ~ ADS /\ pending'[<<q, t>>] # Nil => Serves(<<q, t>>)' = pending'[<<q, t>>]
    <3>1. CASE <<q, t>> = c
      BY <1>3, <1>5, <3>1
    <3>2. CASE <<q, t>> # c
      <4>1. /\ Serves(<<q, t>>)' = Serves(<<q, t>>)
            /\ pending'[<<q, t>>] = pending[<<q, t>>]
        BY <1>4, <1>5, <3>2
      <4> QED
        BY <1>1, <1>6, <4>1 DEF SlotInv, SlotsAnswer
    <3> QED
      BY <3>1, <3>2
  <2> QED
    BY <2>1, <2>2 DEF SlotsAnswer
<1>9. NoncesIdentify'
  <2>1. /\ \A q \in Stream : streamNonce[q] \in Nat
        /\ \A d \in Caller : nonce[d] \in Nat
    BY DEF XdsInv, XdsTypeOK
  <2>2. /\ \A q \in Stream : streamNonce'[q] = IF q = s THEN streamNonce[s] + 1 ELSE streamNonce[q]
        /\ \A d \in Caller : nonce'[d] = IF d = c THEN streamNonce[s] + 1 ELSE nonce[d]
    BY <1>1 DEF XdsInv, XdsTypeOK
  <2> SUFFICES ASSUME NEW q \in Stream, NEW t \in ResponseType, NEW v \in ResponseType
               PROVE  /\ nonce'[<<q, t>>] <= streamNonce'[q]
                      /\ nonce'[<<q, t>>] = nonce'[<<q, v>>] /\ nonce'[<<q, t>>] # 0 => t = v
    BY DEF NoncesIdentify
  <2>3. /\ nonce[<<q, t>>] <= streamNonce[q]
        /\ nonce[<<q, v>>] <= streamNonce[q]
        /\ nonce[<<q, t>>] = nonce[<<q, v>>] /\ nonce[<<q, t>>] # 0 => t = v
    BY DEF SlotInv, NoncesIdentify
  <2>4. CASE q # s
    <3>1. nonce'[<<q, t>>] = nonce[<<q, t>>] /\ nonce'[<<q, v>>] = nonce[<<q, v>>]
      BY <2>2, <2>4
    <3>2. streamNonce'[q] = streamNonce[q]
      BY <2>2, <2>4
    <3> QED
      BY <2>3, <3>1, <3>2
  <2>5. CASE q = s
    <3>1. /\ nonce'[<<q, t>>] = IF t = u THEN streamNonce[s] + 1 ELSE nonce[<<q, t>>]
          /\ nonce'[<<q, v>>] = IF v = u THEN streamNonce[s] + 1 ELSE nonce[<<q, v>>]
      BY <2>2, <2>5
    <3>2. streamNonce'[q] = streamNonce[q] + 1
      BY <2>2, <2>5
    <3>3. streamNonce[q] \in Nat /\ nonce[<<q, t>>] \in Nat /\ nonce[<<q, v>>] \in Nat
      BY <2>1
    <3>4. /\ nonce[<<q, t>>] # streamNonce[q] + 1 /\ nonce[<<q, v>>] # streamNonce[q] + 1
          /\ nonce[<<q, t>>] <= streamNonce[q] + 1
          /\ streamNonce[q] + 1 <= streamNonce[q] + 1
      BY <2>3, <3>3, NextNonce
    <3>5. nonce'[<<q, t>>] <= streamNonce'[q]
      BY <2>5, <3>1, <3>2, <3>4
    <3>6. nonce'[<<q, t>>] = nonce'[<<q, v>>] /\ nonce'[<<q, t>>] # 0 => t = v
      <4> DEFINE a == nonce[<<q, t>>]
                 b == nonce[<<q, v>>]
                 k == streamNonce[s] + 1
      <4>1. a # k /\ b # k /\ (a = b /\ a # 0 => t = v)
        BY <2>3, <2>5, <3>4
      <4>2. nonce'[<<q, t>>] = (IF t = u THEN k ELSE a) /\ nonce'[<<q, v>>] = IF v = u THEN k ELSE b
        BY <3>1
      <4> HIDE DEF a, b, k
      <4> QED
        BY <4>1, <4>2
    <3> QED
      BY <3>5, <3>6
  <2> QED
    BY <2>4, <2>5
<1> QED
  BY <1>7, <1>8, <1>9 DEF SlotInv

(* A failed send ends the loop: the other slots keep their watches until   *)
(* the deferred Cancel reaches them.                                       *)
LEMMA SendErrorKeeps ==
    ASSUME XdsInv, SlotInv, NEW s \in Stream, NEW u \in ResponseType, SendError(s, u)
    PROVE  SlotInv'
<1> DEFINE c == <<s, u>>
<1>1. /\ Receive(c)
      /\ proc[s] = "select"
      /\ \/ streamNonce' = [streamNonce EXCEPT ![s] = @ + 1]
         \/ streamNonce' = [streamNonce EXCEPT ![s] = @]
      /\ proc' = [proc EXCEPT ![s] = "closing"]
      /\ UNCHANGED <<current, cancelled, nonce, pending>>
  BY DEF SendError, FromWatch
<1>2. c \in Caller /\ CacheInv
  BY DEF XdsInv
<1>3. /\ \A d \in Caller : WaitingFor(d)' = WaitingFor(d)
      /\ \A d \in Caller : d # c => AnswerFor(d)' = AnswerFor(d)
  BY <1>1, <1>2, ReceiveServes
<1>4. \A d \in Caller : d # c => Serves(d)' = Serves(d)
  BY <1>3 DEF Serves
<1>5. proc'[s] = "closing" /\ \A q \in Stream : q # s => proc'[q] = proc[q]
  BY <1>1 DEF XdsInv, XdsTypeOK
<1>6. \A q \in Stream, t \in ResponseType :
          Serving(q, t)' <=> Serving(q, t) /\ q # s
  BY <1>1, <1>5 DEF Serving
<1>7. SlotsOwned'
  <2>1. UNCHANGED <<watches, held>>
    BY <1>1 DEF Receive
  <2>2. \A q \in Stream : proc'[q] \in {"idle", "select", "create"} => cancelled'[q] = 0
    BY <1>1, <1>5 DEF SlotInv, SlotsOwned
  <2>3. ASSUME NEW q \in Stream, NEW t \in ResponseType, WaitingFor(<<q, t>>)' # Nil
        PROVE  /\ WaitingFor(<<q, t>>)'.type = t
               /\ \/ Serving(q, t)'
                  \/ /\ proc'[q] = "closing"
                     /\ \A i \in 1..cancelled'[q] : CancelOrder[i] # t
    <3>1. WaitingFor(<<q, t>>)' = WaitingFor(<<q, t>>)
      BY <1>3
    <3>2. /\ WaitingFor(<<q, t>>).type = t
          /\ \/ Serving(q, t)
             \/ /\ proc[q] = "closing"
                /\ \A i \in 1..cancelled[q] : CancelOrder[i] # t
      BY <2>3, <3>1 DEF SlotInv, SlotsOwned
    <3>3. q = s => cancelled'[q] = 0
      BY <1>1 DEF SlotInv, SlotsOwned
    <3> QED
      BY <1>1, <1>5, <1>6, <3>1, <3>2, <3>3
  <2> QED
    BY <2>1, <2>2, <2>3 DEF SlotInv, SlotsOwned
<1>8. SlotsAnswer'
  <2>1. ASSUME NEW q \in Stream
        PROVE  proc'[q] = "create" => pending'[<<q, current'[q].type>>] = current'[q]
    BY <1>1, <1>5 DEF SlotInv, SlotsAnswer
  <2>2. ASSUME NEW q \in Stream, NEW t \in ResponseType
        PROVE  /\ proc'[q] = "idle" => Serves(<<q, t>>)' = Nil /\ pending'[<<q, t>>] = Nil
               /\ Serving(q, t)' =>
                     /\ Serves(<<q, t>>)' \in {Nil, pending'[<<q, t>>]}
                     /\ ~ ADS /\ pending'[<<q, t>>] # Nil => Serves(<<q, t>>)' = pending'[<<q, t>>]
    <3>1. CASE q = s
      BY <1>5, <1>6, <3>1
    <3>2. CASE q # s
      <4>1. Serves(<<q, t>>)' = Serves(<<q, t>>) /\ proc'[q] = proc[q]
        BY <1>4, <1>5, <3>2
      <4>2. pending'[<<q, t>>] = pending[<<q, t>>] /\ (Serving(q, t)' => Serving(q, t))
        BY <1>1, <1>6
      <4>3. /\ proc[q] = "idle" => Serves(<<q, t>>) = Nil /\ pending[<<q, t>>] = Nil
            /\ Serving(q, t) =>
                  /\ Serves(<<q, t>>) \in {Nil, pending[<<q, t>>]}
                  /\ ~ ADS /\ pending[<<q, t>>] # Nil => Serves(<<q, t>>) = pending[<<q, t>>]
        BY DEF SlotInv, SlotsAnswer
      <4> QED
        BY <4>1, <4>2, <4>3
    <3> QED
      BY <3>1, <3>2
  <2> QED
    BY <2>1, <2>2 DEF SlotsAnswer
<1>9. NoncesIdentify'
  <2>1. \A q \in Stream : streamNonce[q] \in Nat /\ streamNonce'[q] \in {streamNonce[q], streamNonce[q] + 1}
    BY <1>1, SMTT(30) DEF XdsInv, XdsTypeOK
  <2>2. \A d \in Caller : nonce[d] \in Nat
    BY DEF XdsInv, XdsTypeOK
  <2> SUFFICES ASSUME NEW q \in Stream, NEW t \in ResponseType, NEW v \in ResponseType
               PROVE  /\ nonce'[<<q, t>>] <= streamNonce'[q]
                      /\ nonce'[<<q, t>>] = nonce'[<<q, v>>] /\ nonce'[<<q, t>>] # 0 => t = v
    BY DEF NoncesIdentify
  <2>3. /\ nonce[<<q, t>>] <= streamNonce[q]
        /\ nonce[<<q, t>>] = nonce[<<q, v>>] /\ nonce[<<q, t>>] # 0 => t = v
    BY DEF SlotInv, NoncesIdentify
  <2>4. nonce' = nonce /\ nonce[<<q, t>>] \in Nat
    BY <1>1, <2>2
  <2>5. nonce[<<q, t>>] <= streamNonce'[q]
    <3>1. streamNonce[q] \in Nat
      BY <2>1
    <3>2. nonce[<<q, t>>] <= streamNonce[q] + 1
      BY <2>3, <2>4, <3>1, NextNonce
    <3>3. streamNonce'[q] = streamNonce[q] \/ streamNonce'[q] = streamNonce[q] + 1
      BY <2>1
    <3> QED
      BY <2>3, <3>2, <3>3
  <2> QED
    BY <2>3, <2>4, <2>5
<1> QED
  BY <1>7, <1>8, <1>9 DEF SlotInv

(* The deferred Cancel closes one watch more.                              *)
LEMMA CancelNextKeeps ==
    ASSUME XdsInv, SlotInv, NEW s \in Stream, CancelNext(s)
    PROVE  SlotInv'
<1>1. cancelled[s] \in 0..Len(CancelOrder) /\ Len(CancelOrder) \in Nat
  BY DEF XdsInv, XdsTypeOK
<1>2. PICK k \in 1..Len(CancelOrder) :
        /\ k = cancelled[s] + 1
        /\ proc[s] = "closing"
        /\ IF held[<<s, CancelOrder[k]>>].cancel # Nil
           THEN CancelWatch(<<s, CancelOrder[k]>>) ELSE UNCHANGED cacheVars
        /\ cancelled' = [cancelled EXCEPT ![s] = k]
        /\ UNCHANGED <<proc, current, nonce, streamNonce, pending>>
  <2> DEFINE k == cancelled[s] + 1
  <2>1. k \in 1..Len(CancelOrder)
    BY <1>1, SMTT(30) DEF CancelNext
  <2>2. /\ proc[s] = "closing"
        /\ IF held[<<s, CancelOrder[k]>>].cancel # Nil
           THEN CancelWatch(<<s, CancelOrder[k]>>) ELSE UNCHANGED cacheVars
        /\ cancelled' = [cancelled EXCEPT ![s] = k]
        /\ UNCHANGED <<proc, current, nonce, streamNonce, pending>>
    BY DEF CancelNext
  <2> QED
    BY <2>1, <2>2
<1> DEFINE c == <<s, CancelOrder[k]>>
<1>3. c \in Caller /\ CacheInv
  BY DEF XdsInv
<1>4. /\ WaitingFor(c)' = Nil
      /\ \A d \in Caller : d # c => WaitingFor(d)' = WaitingFor(d)
      /\ \A d \in Caller : AnswerFor(d)' = AnswerFor(d)
      /\ watches' \subseteq watches /\ held' = held
  BY <1>2, <1>3, MaybeCancelUnsubscribes
<1>5. \A d \in Caller : d # c => Serves(d)' = Serves(d)
  BY <1>4 DEF Serves
<1>6. /\ cancelled'[s] = k
      /\ \A q \in Stream : q # s => cancelled'[q] = cancelled[q]
  BY <1>2 DEF XdsInv, XdsTypeOK
<1>7. \A q, t : Serving(q, t)' <=> Serving(q, t)
  BY <1>2 DEF Serving
<1>8. SlotsOwned'
  <2>1. \A w \in watches' : \E d \in Caller : w.chan = held'[d].chan
    BY <1>4 DEF SlotInv, SlotsOwned
  <2>2. \A q \in Stream : proc'[q] \in {"idle", "select", "create"} => cancelled'[q] = 0
    BY <1>2, <1>6 DEF SlotInv, SlotsOwned
  <2>3. ASSUME NEW q \in Stream, NEW t \in ResponseType, WaitingFor(<<q, t>>)' # Nil
        PROVE  /\ WaitingFor(<<q, t>>)'.type = t
               /\ \/ Serving(q, t)'
                  \/ /\ proc'[q] = "closing"
                     /\ \A i \in 1..cancelled'[q] : CancelOrder[i] # t
    <3>1. <<q, t>> # c /\ WaitingFor(<<q, t>>)' = WaitingFor(<<q, t>>)
      BY <1>4, <2>3
    <3>2. /\ WaitingFor(<<q, t>>).type = t
          /\ \/ Serving(q, t)
             \/ /\ proc[q] = "closing"
                /\ \A i \in 1..cancelled[q] : CancelOrder[i] # t
      BY <2>3, <3>1 DEF SlotInv, SlotsOwned
    <3>3. CASE q # s
      BY <1>2, <1>6, <1>7, <3>1, <3>2, <3>3
    <3>4. CASE q = s
      <4>1. CancelOrder[k] # t /\ ~ Serving(q, t)
        BY <1>2, <3>1, <3>4 DEF Serving
      <4>2. \A i \in 1..k : i = k \/ i \in 1..cancelled[s]
        BY <1>1, <1>2, SMTT(60)
      <4> QED
        BY <1>2, <1>6, <3>1, <3>2, <3>4, <4>1, <4>2
    <3> QED
      BY <3>3, <3>4
  <2> QED
    BY <2>1, <2>2, <2>3 DEF SlotsOwned
<1>9. SlotsAnswer'
  <2>1. ASSUME NEW q \in Stream
        PROVE  proc'[q] = "create" => pending'[<<q, current'[q].type>>] = current'[q]
    BY <1>2 DEF SlotInv, SlotsAnswer
  <2>2. ASSUME NEW q \in Stream, NEW t \in ResponseType
        PROVE  /\ proc'[q] = "idle" => Serves(<<q, t>>)' = Nil /\ pending'[<<q, t>>] = Nil
               /\ Serving(q, t)' =>
                     /\ Serves(<<q, t>>)' \in {Nil, pending'[<<q, t>>]}
                     /\ ~ ADS /\ pending'[<<q, t>>] # Nil => Serves(<<q, t>>)' = pending'[<<q, t>>]
    <3>1. CASE q = s
      BY <1>2, <1>7, <3>1 DEF Serving
    <3>2. CASE q # s
      <4>1. Serves(<<q, t>>)' = Serves(<<q, t>>)
        BY <1>5, <3>2
      <4> QED
        BY <1>2, <1>7, <4>1 DEF SlotInv, SlotsAnswer
    <3> QED
      BY <3>1, <3>2
  <2> QED
    BY <2>1, <2>2 DEF SlotsAnswer
<1>10. NoncesIdentify'
  BY <1>2 DEF SlotInv, NoncesIdentify
<1> QED
  BY <1>8, <1>9, <1>10 DEF SlotInv

(* A snapshot published in the middle of anything turns what streams wait  *)
(* for into what they are about to send.                                   *)
LEMMA UpdateSnapshotKeeps ==
    ASSUME XdsInv, SlotInv, NEW n \in Node, NEW snapshot \in Snapshots,
           UpdateSnapshot(n, snapshot)
    PROVE  SlotInv'
<1>1. /\ SetSnapshot(n, snapshot) /\ CacheInv
      /\ UNCHANGED <<proc, current, cancelled, nonce, streamNonce, pending>>
  BY DEF UpdateSnapshot, serverVars, procVars, XdsInv
<1>2. \A c \in Caller : /\ WaitingFor(c)' \in {Nil, WaitingFor(c)}
                        /\ Serves(c)' \in {Nil, Serves(c)}
                        /\ ~ ADS => Serves(c)' = Serves(c)
  BY <1>1, SetSnapshotServes
<1>3. \A q, t : Serving(q, t)' <=> Serving(q, t)
  BY <1>1 DEF Serving
<1>4. SlotsOwned'
  <2>1. watches' \subseteq watches /\ held' = held
    BY <1>1 DEF SetSnapshot
  <2>2. ASSUME NEW q \in Stream, NEW t \in ResponseType, WaitingFor(<<q, t>>)' # Nil
        PROVE  /\ WaitingFor(<<q, t>>)'.type = t
               /\ \/ Serving(q, t)'
                  \/ /\ proc'[q] = "closing"
                     /\ \A i \in 1..cancelled'[q] : CancelOrder[i] # t
    <3>1. WaitingFor(<<q, t>>)' = WaitingFor(<<q, t>>)
      BY <1>2, <2>2
    <3> QED
      BY <1>1, <1>3, <2>2, <3>1 DEF SlotInv, SlotsOwned
  <2> QED
    BY <1>1, <2>1, <2>2 DEF SlotInv, SlotsOwned
<1>5. SlotsAnswer'
  <2>1. ASSUME NEW q \in Stream
        PROVE  proc'[q] = "create" => pending'[<<q, current'[q].type>>] = current'[q]
    BY <1>1 DEF SlotInv, SlotsAnswer
  <2>2. ASSUME NEW q \in Stream, NEW t \in ResponseType
        PROVE  /\ proc'[q] = "idle" => Serves(<<q, t>>)' = Nil /\ pending'[<<q, t>>] = Nil
               /\ Serving(q, t)' =>
                     /\ Serves(<<q, t>>)' \in {Nil, pending'[<<q, t>>]}
                     /\ ~ ADS /\ pending'[<<q, t>>] # Nil => Serves(<<q, t>>)' = pending'[<<q, t>>]
    <3>1. /\ Serves(<<q, t>>)' \in {Nil, Serves(<<q, t>>)}
          /\ ~ ADS => Serves(<<q, t>>)' = Serves(<<q, t>>)
      BY <1>2
    <3> QED
      BY <1>1, <1>3, <3>1 DEF SlotInv, SlotsAnswer
  <2> QED
    BY <2>1, <2>2 DEF SlotsAnswer
<1>6. NoncesIdentify'
  BY <1>1 DEF SlotInv, NoncesIdentify
<1> QED
  BY <1>4, <1>5, <1>6 DEF SlotInv

-----------------------------------------------------------------------------
LEMMA StreamNextInv == XdsInv /\ SlotInv /\ [XdsNext]_xdsVars => SlotInv'
<1> SUFFICES ASSUME XdsInv, SlotInv, [XdsNext]_xdsVars PROVE SlotInv'
  OBVIOUS
<1>1. ASSUME NEW s \in Stream,
             \/ OpenStream(s) \/ CloseSend(s) \/ Disconnect(s) \/ RecvError(s)
             \/ \E m, k : Recv(s, m, k)
             \/ RefuseRequest(s) \/ IgnoreRequest(s)
             \/ InputEnded(s) \/ ProcessReturns(s) \/ HandlerReturns(s)
      PROVE  SlotInv'
  <2>1. /\ UNCHANGED cacheVars
        /\ UNCHANGED <<current, cancelled, nonce, streamNonce, pending>>
        /\ \A q \in Stream : Moves(proc[q], proc'[q], cancelled[q] = Len(CancelOrder))
    BY <1>1, QuietActions
  <2> QED
    BY <2>1, QuietStepInv
<1>2. ASSUME NEW s \in Stream, AcceptRequest(s) \/ CreateRequested(s) \/ CancelNext(s)
      PROVE  SlotInv'
  BY <1>2, AcceptRequestKeeps, CreateRequestedKeeps, CancelNextKeeps
<1>3. ASSUME NEW s \in Stream, NEW t \in ResponseType, SendResponse(s, t) \/ SendError(s, t)
      PROVE  SlotInv'
  BY <1>3, SendResponseKeeps, SendErrorKeeps
<1>4. ASSUME NEW n \in Node, NEW snapshot \in Snapshots, UpdateSnapshot(n, snapshot)
      PROVE  SlotInv'
  BY <1>4, UpdateSnapshotKeeps
<1>5. CASE UNCHANGED xdsVars
  <2>1. /\ UNCHANGED cacheVars
        /\ UNCHANGED <<proc, current, cancelled, nonce, streamNonce, pending>>
    BY <1>5 DEF xdsVars, serverVars, procVars
  <2>2. \A q \in Stream : Moves(proc[q], proc'[q], cancelled[q] = Len(CancelOrder))
    BY <2>1 DEF Moves
  <2> QED
    BY <2>1, <2>2, QuietStepInv
<1>6. ASSUME NEW s \in Stream, ProcessStep(s) PROVE SlotInv'
  BY <1>1, <1>2, <1>3, <1>6 DEF ProcessStep
<1> QED
  BY <1>1, <1>4, <1>5, <1>6 DEF XdsNext

(* The streams' invariant holds for any number of streams and types, in    *)
(* every interleaving of their goroutines with the updater.                *)
THEOREM StreamInvariant == XdsSpec => []StreamInv
<1>1. XdsInit => SlotInv
  BY StreamInitInv
<1>2. XdsInv /\ SlotInv /\ [XdsNext]_xdsVars => SlotInv'
  BY StreamNextInv
<1>3. XdsInv /\ SlotInv => StreamInv
  BY DEF StreamInv
<1> QED
  BY <1>1, <1>2, <1>3, XdsInvariant, PTL DEF XdsSpec

(* An open watch is accounted for by the slot of a running stream.         *)
LEMMA SlotsHoldWatches == StreamInv => NoOrphanWatch
<1> SUFFICES ASSUME XdsInv, SlotInv, NEW w \in watches
             PROVE  \E s \in Stream :
                       /\ w.request.type \in ResponseType
                       /\ w.chan = held[<<s, w.request.type>>].chan
                       /\ \/ proc[s] \in {"select", "create"}
                          \/ /\ proc[s] = "closing"
                             /\ \A i \in 1..cancelled[s] : CancelOrder[i] # w.request.type
  BY DEF NoOrphanWatch, StreamInv
<1>1. PICK s \in Stream, t \in ResponseType : w.chan = held[<<s, t>>].chan
  <2>1. PICK c \in Caller : w.chan = held[c].chan
    BY DEF SlotInv, SlotsOwned
  <2>2. PICK s \in Stream, t \in ResponseType : c = <<s, t>>
    OBVIOUS
  <2> QED
    BY <2>1, <2>2
<1>2. WaitingFor(<<s, t>>) = w.request
  BY <1>1, WaitingIs DEF XdsInv
<1>3. w.request # Nil
  BY DEF XdsInv, CacheInv, CacheTypeOK, Watch
<1>4. /\ w.request.type = t
      /\ \/ Serving(s, t)
         \/ /\ proc[s] = "closing"
            /\ \A i \in 1..cancelled[s] : CancelOrder[i] # t
  BY <1>2, <1>3 DEF SlotInv, SlotsOwned
<1> QED
  BY <1>1, <1>4 DEF Serving

(* No stream leaks a watch, however it ends.                               *)
THEOREM NoWatchIsOrphaned == XdsSpec => []NoOrphanWatch
BY SlotsHoldWatches, StreamInvariant, PTL

(* Outside ADS mode no accepted request is lost.                           *)
THEOREM NoRequestIsLost == XdsSpec => []RequestNotLost
<1>1. StreamInv => RequestNotLost
  BY DEF StreamInv, SlotInv, SlotsAnswer, Serving, RequestNotLost
<1> QED
  BY <1>1, StreamInvariant, PTL

(* A stream is never about to send what its client has not asked for.      *)
THEOREM NothingIsUnasked == XdsSpec => []NothingUnasked
<1>1. StreamInv => NothingUnasked
  BY DEF StreamInv, SlotInv, SlotsAnswer, Serving, NothingUnasked
<1> QED
  BY <1>1, StreamInvariant, PTL

(* A nonce names one response of one type of its stream.                   *)
THEOREM NoncesAreUnique == XdsSpec => []NoncesIdentify
<1>1. StreamInv => NoncesIdentify
  BY DEF StreamInv, SlotInv
<1> QED
  BY <1>1, StreamInvariant, PTL

-----------------------------------------------------------------------------
(* Whatever the streams do, the cache sees calls of its interface.         *)

LEMMA MaybeCancelCalls ==
    ASSUME NEW c \in Caller,
           IF held[c].cancel # Nil THEN CancelWatch(c) ELSE UNCHANGED cacheVars
    PROVE  [CacheCall]_cacheVars
BY DEF CacheCall

LEMMA XdsCalls == XdsInv /\ [XdsNext]_xdsVars => [CacheCall]_cacheVars
<1> SUFFICES ASSUME XdsInv, [XdsNext]_xdsVars PROVE [CacheCall]_cacheVars
  OBVIOUS
<1>1. ASSUME NEW s \in Stream,
             \/ OpenStream(s) \/ CloseSend(s) \/ Disconnect(s) \/ RecvError(s)
             \/ \E m, k : Recv(s, m, k)
             \/ RefuseRequest(s) \/ IgnoreRequest(s)
             \/ InputEnded(s) \/ ProcessReturns(s) \/ HandlerReturns(s)
      PROVE  [CacheCall]_cacheVars
  BY <1>1, QuietActions
<1>2. ASSUME NEW s \in Stream, AcceptRequest(s) PROVE [CacheCall]_cacheVars
  <2>1. PICK t \in ResponseType :
          IF held[<<s, t>>].cancel # Nil THEN CancelWatch(<<s, t>>) ELSE UNCHANGED cacheVars
    BY <1>2 DEF AcceptRequest, Accepts
  <2> QED
    BY <2>1, SlotIsCaller, MaybeCancelCalls
<1>3. ASSUME NEW s \in Stream, CreateRequested(s) PROVE [CacheCall]_cacheVars
  <2>1. current[s] \in Requests /\ <<s, current[s].type>> \in Caller
    BY <1>3 DEF CreateRequested, XdsInv, Handover
  <2>2. PICK ch : CreateWatch(<<s, current[s].type>>, current[s], ch)
    BY <1>3 DEF CreateRequested
  <2>3. ch \in Chan
    BY <2>2 DEF CreateWatch, FreeChan
  <2> QED
    BY <2>1, <2>2, <2>3 DEF CacheCall
<1>4. ASSUME NEW s \in Stream, NEW t \in ResponseType, SendResponse(s, t) \/ SendError(s, t)
      PROVE  [CacheCall]_cacheVars
  <2>1. <<s, t>> \in Caller /\ Receive(<<s, t>>)
    BY <1>4 DEF SendResponse, SendError, FromWatch
  <2> QED
    BY <2>1 DEF CacheCall
<1>5. ASSUME NEW s \in Stream, CancelNext(s) PROVE [CacheCall]_cacheVars
  <2>1. cancelled[s] \in 0..Len(CancelOrder) /\ Len(CancelOrder) \in Nat
    BY DEF XdsInv, XdsTypeOK
  <2>2. cancelled[s] + 1 \in 1..Len(CancelOrder)
    BY <1>5, <2>1, SMTT(60) DEF CancelNext
  <2>3. CancelOrder[cancelled[s] + 1] \in ResponseType
    BY <2>2
  <2> QED
    BY <1>5, <2>3, SlotIsCaller, MaybeCancelCalls DEF CancelNext
<1>6. ASSUME NEW n \in Node, NEW snapshot \in Snapshots, UpdateSnapshot(n, snapshot)
      PROVE  [CacheCall]_cacheVars
  BY <1>6 DEF UpdateSnapshot, CacheCall
<1>7. CASE UNCHANGED xdsVars
  BY <1>7 DEF xdsVars
<1>8. ASSUME NEW s \in Stream, ProcessStep(s) PROVE [CacheCall]_cacheVars
  BY <1>1, <1>2, <1>3, <1>4, <1>5, <1>8 DEF ProcessStep
<1> QED
  BY <1>1, <1>6, <1>7, <1>8 DEF XdsNext

(* The cache is a subscription service for the streams too: in every order *)
(* of their goroutines' steps, each step is one of the abstract service.   *)
THEOREM ServerUsesConfigWatcher == XdsSpec => ImplementsConfigWatcher
<1>1. XdsInit => Watcher!WatcherInit
  BY DEF XdsInit, CacheInit, Watcher!WatcherInit, WaitingFor, AnswerFor, NoHandle
<1>2. XdsInv /\ [XdsNext]_xdsVars => [Watcher!WatcherNext]_(Watcher!watcherVars)
  BY XdsCalls, WatcherStep DEF XdsInv
<1> QED
  BY <1>1, <1>2, XdsInvariant, PTL
     DEF XdsSpec, ImplementsConfigWatcher, Watcher!WatcherSpec

(* What a stream is about to send is the whole answer to a request from    *)
(* one published snapshot, whatever the updater and the others did since.  *)
THEOREM StreamsAnswerGenuinely == XdsSpec => []AnswersGenuine
<1>1. XdsInit => AnswersGenuine
  BY DEF XdsInit, CacheInit, AnswersGenuine
<1>2. XdsInv /\ AnswersGenuine /\ [XdsNext]_xdsVars => AnswersGenuine'
  BY XdsCalls, AnswersGenuineStep DEF XdsInv
<1> QED
  BY <1>1, <1>2, XdsInvariant, PTL DEF XdsSpec
=============================================================================
