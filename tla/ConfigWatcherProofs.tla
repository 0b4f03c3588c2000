------------------------- MODULE ConfigWatcherProofs -------------------------
(***************************************************************************)
(* The snapshot cache implements the ConfigWatcher interface, for every    *)
(* set of nodes, callers, channels, snapshots and requests: each of its    *)
(* methods is the operation of the abstract subscription service that the  *)
(* caller believes it calls.                                               *)
(***************************************************************************)
EXTENDS SnapshotCacheProofs

USE SnapshotAssumption, NilIsNoRecord, CacheAssumption

-----------------------------------------------------------------------------
(* The data operators of the abstract specification are the cache's own.   *)
LEMMA SameData ==
    /\ \A r : Watcher!NodeID(r) = NodeID(r)
    /\ \A s, t : Watcher!GetVersion(s, t) = GetVersion(s, t)
    /\ \A s, t : Watcher!GetResources(s, t) = GetResources(s, t)
    /\ \A r, items : Watcher!Withheld(r, items) <=> Withheld(r, items)
    /\ \A r, items, v : Watcher!CreateResponse(r, items, v) = CreateResponse(r, items, v)
BY DEF Watcher!NodeID, NodeID, Watcher!GetVersion, GetVersion, Watcher!GetResources,
   GetResources, Watcher!Withheld, Withheld, Watcher!CreateResponse, CreateResponse,
   Watcher!NoItems, NoItems, Watcher!Superset, Superset

(* A channel has at most one watch, so it is the one that CHOOSE finds.    *)
LEMMA WatchOnChannel ==
    ASSUME NEW W, NEW ch, \A v, w \in W : v.chan = w.chan => v = w,
           NEW w \in W, w.chan = ch
    PROVE  (CHOOSE x \in W : x.chan = ch) = w
OBVIOUS

(* What a caller waits for, before and after a step.                       *)
LEMMA WaitingIs ==
    ASSUME CacheInv, NEW c \in Caller
    PROVE  /\ \A w \in watches : w.chan = held[c].chan => WaitingFor(c) = w.request
           /\ (\A w \in watches : w.chan # held[c].chan) => WaitingFor(c) = Nil
<1>1. \A v, w \in watches : v.chan = w.chan => v = w
  BY DEF CacheInv, WatchesDistinct
<1>2. ASSUME NEW w \in watches, w.chan = held[c].chan
      PROVE  WaitingFor(c) = w.request
  <2>1. (CHOOSE x \in watches : x.chan = held[c].chan) = w
    BY <1>1, <1>2, WatchOnChannel
  <2> QED
    BY <1>2, <2>1 DEF WaitingFor
<1> QED
  BY <1>2 DEF WaitingFor

LEMMA WaitingIsNext ==
    ASSUME CacheInv', NEW c \in Caller
    PROVE  /\ \A w \in watches' : w.chan = held'[c].chan => WaitingFor(c)' = w.request
           /\ (\A w \in watches' : w.chan # held'[c].chan) => WaitingFor(c)' = Nil
<1>1. \A v, w \in watches' : v.chan = w.chan => v = w
  BY DEF CacheInv, WatchesDistinct
<1>2. ASSUME NEW w \in watches', w.chan = held'[c].chan
      PROVE  WaitingFor(c)' = w.request
  <2>1. (CHOOSE x \in watches' : x.chan = held'[c].chan) = w
    BY <1>1, <1>2, WatchOnChannel
  <2> QED
    BY <1>2, <2>1 DEF WaitingFor
<1> QED
  BY <1>2 DEF WaitingFor

(* A caller that waits has no answer yet, and one that has an answer does  *)
(* not wait.                                                               *)
LEMMA WaitingType ==
    ASSUME CacheInv, NEW c \in Caller
    PROVE  /\ WaitingFor(c) \in Request \cup {Nil}
           /\ AnswerFor(c) \in Response \cup {Nil}
           /\ WaitingFor(c) # Nil => AnswerFor(c) = Nil
<1>1. \A w \in watches : w.request \in Request /\ w.chan \in Chan /\ buf[w.chan] = <<>>
  BY DEF CacheInv, CacheTypeOK, Watch, OpenChannelsEmpty
<1>2. held[c].chan # Nil => buf[held[c].chan] \in Seq(Response)
  BY DEF CacheInv, CacheTypeOK, Handle
<1>3. AnswerFor(c) \in Response \cup {Nil}
  BY <1>2 DEF AnswerFor
<1>4. CASE \E w \in watches : w.chan = held[c].chan
  BY <1>1, <1>3, <1>4, WaitingIs DEF AnswerFor
<1>5. CASE \A w \in watches : w.chan # held[c].chan
  BY <1>3, <1>5, WaitingIs
<1> QED
  BY <1>4, <1>5

-----------------------------------------------------------------------------
(* Every method is an operation of the abstract service.                   *)

(* What SetSnapshot puts into a channel.                                   *)
LEMMA SetSnapshotFills ==
    ASSUME CacheInv, NEW n \in Node, NEW s \in Snapshots, SetSnapshot(n, s),
           NEW ch \in Chan
    PROVE  /\ \A w \in Triggered(n, s) : w.chan = ch =>
                  buf'[ch] = Respond(<<>>, w.request, GetResources(s, w.request.type),
                                     GetVersion(s, w.request.type))
           /\ (\A w \in Triggered(n, s) : w.chan # ch) => buf'[ch] = buf[ch]
<1>1. \A v, w \in Triggered(n, s) : v.chan = w.chan => v = w
  BY DEF Triggered, CacheInv, WatchesDistinct
<1>2. ASSUME NEW w \in Triggered(n, s), w.chan = ch
      PROVE  buf'[ch] = Respond(<<>>, w.request, GetResources(s, w.request.type),
                                GetVersion(s, w.request.type))
  <2>1. (CHOOSE x \in Triggered(n, s) : x.chan = ch) = w
    BY <1>1, <1>2, WatchOnChannel
  <2>2. buf[ch] = <<>>
    BY <1>2 DEF Triggered, CacheInv, OpenChannelsEmpty
  <2> QED
    BY <1>2, <2>1, <2>2 DEF SetSnapshot
<1>3. (\A w \in Triggered(n, s) : w.chan # ch) => buf'[ch] = buf[ch]
  BY DEF SetSnapshot
<1> QED
  BY <1>2, <1>3

(* respond on an empty channel gives the answer of the abstract service.   *)
LEMMA RespondAnswers ==
    ASSUME NEW r \in Request, NEW s
    PROVE  LET contents == Respond(<<>>, r, GetResources(s, r.type), GetVersion(s, r.type))
           IN  /\ contents = <<>> => Watcher!AnswerFrom(r, s) = Nil
               /\ contents # <<>> => Head(contents) = Watcher!AnswerFrom(r, s)
<1> DEFINE items == GetResources(s, r.type)
           response == CreateResponse(r, items, GetVersion(s, r.type))
<1>1. Watcher!AnswerFrom(r, s) = IF Withheld(r, items) THEN Nil ELSE response
  BY SameData DEF Watcher!AnswerFrom
<1> HIDE DEF items, response
<1>2. Append(<<>>, response) # <<>> /\ Head(Append(<<>>, response)) = response
  OBVIOUS
<1> QED
  BY <1>1, <1>2 DEF Respond, items, response

LEMMA SetSnapshotPublishes ==
    ASSUME CacheInv, NEW n \in Node, NEW s \in Snapshots, SetSnapshot(n, s)
    PROVE  Watcher!Publish(n, s)
<1>1. CacheInv'
  BY SetSnapshotInv
<1>2. /\ snapshots' = [snapshots EXCEPT ![n] = s]
      /\ watches' = watches \ Triggered(n, s)
      /\ held' = held
  BY DEF SetSnapshot
<1>3. ASSUME NEW c \in Caller
      PROVE  IF Watcher!IsNews(WaitingFor(c), n, s)
             THEN WaitingFor(c)' = Nil /\ AnswerFor(c)' = Watcher!AnswerFrom(WaitingFor(c), s)
             ELSE WaitingFor(c)' = WaitingFor(c) /\ AnswerFor(c)' = AnswerFor(c)
  <2>0. \A w \in watches : /\ w.request \in Request /\ w.request # Nil
                           /\ w.chan \in Chan /\ w.chan # Nil
                           /\ w.node = NodeID(w.request)
    BY DEF CacheInv, CacheTypeOK, Watch, WatchesFiled
  <2>1. CASE \E w \in Triggered(n, s) : w.chan = held[c].chan
    <3>1. PICK w \in Triggered(n, s) : w.chan = held[c].chan
      BY <2>1
    <3>2. w \in watches /\ WaitingFor(c) = w.request
      BY <3>1, WaitingIs DEF Triggered
    <3>3. Watcher!IsNews(WaitingFor(c), n, s)
      BY <2>0, <3>1, <3>2, SameData DEF Watcher!IsNews, Triggered
    <3>4. \A x \in watches' : x.chan # held'[c].chan
      BY <1>2, <3>1, <3>2 DEF CacheInv, WatchesDistinct
    <3>5. WaitingFor(c)' = Nil
      BY <1>1, <3>4, WaitingIsNext
    <3> DEFINE contents == Respond(<<>>, w.request, GetResources(s, w.request.type),
                                   GetVersion(s, w.request.type))
    <3>6. buf'[held'[c].chan] = contents
      BY <1>2, <2>0, <3>1, <3>2, SetSnapshotFills
    <3>7. /\ contents = <<>> => Watcher!AnswerFrom(w.request, s) = Nil
          /\ contents # <<>> => Head(contents) = Watcher!AnswerFrom(w.request, s)
      BY <2>0, <3>2, RespondAnswers
    <3> HIDE DEF contents
    <3>8. AnswerFor(c)' = Watcher!AnswerFrom(WaitingFor(c), s)
      BY <1>2, <2>0, <3>1, <3>2, <3>6, <3>7 DEF AnswerFor
    <3> QED
      BY <3>3, <3>5, <3>8
  <2>2. CASE \A w \in Triggered(n, s) : w.chan # held[c].chan
    <3>1. ~ Watcher!IsNews(WaitingFor(c), n, s)
      <4>1. CASE \E w \in watches : w.chan = held[c].chan
        <5>1. PICK w \in watches : w.chan = held[c].chan
          BY <4>1
        <5>2. WaitingFor(c) = w.request /\ w \notin Triggered(n, s)
          BY <2>2, <5>1, WaitingIs
        <5> QED
          BY <2>0, <5>2, SameData DEF Watcher!IsNews, Triggered
      <4>2. CASE \A w \in watches : w.chan # held[c].chan
        BY <4>2, WaitingIs DEF Watcher!IsNews
      <4> QED
        BY <4>1, <4>2
    <3>2. WaitingFor(c)' = WaitingFor(c)
      <4>1. CASE \E w \in watches : w.chan = held[c].chan
        BY <1>1, <1>2, <2>2, <4>1, WaitingIs, WaitingIsNext
      <4>2. CASE \A w \in watches : w.chan # held[c].chan
        BY <1>1, <1>2, <4>2, WaitingIs, WaitingIsNext
      <4> QED
        BY <4>1, <4>2
    <3>3. held[c].chan # Nil => buf'[held[c].chan] = buf[held[c].chan]
      <4>1. held[c].chan # Nil => held[c].chan \in Chan
        BY DEF CacheInv, CacheTypeOK, Handle
      <4> QED
        BY <2>2, <4>1, SetSnapshotFills
    <3>4. AnswerFor(c)' = AnswerFor(c)
      BY <1>2, <3>3 DEF AnswerFor
    <3> QED
      BY <3>1, <3>2, <3>4
  <2> QED
    BY <2>1, <2>2
<1> QED
  BY <1>2, <1>3 DEF Watcher!Publish

LEMMA ClearSnapshotWithdraws ==
    ASSUME CacheInv, NEW n \in Node, ClearSnapshot(n)
    PROVE  Watcher!Withdraw(n)
<1>1. CacheInv'
  BY ClearSnapshotInv
<1>2. /\ snapshots' = [snapshots EXCEPT ![n] = Nil]
      /\ watches' = {w \in watches : w.node # n}
      /\ UNCHANGED <<buf, held>>
  BY DEF ClearSnapshot
<1>3. ASSUME NEW c \in Caller
      PROVE  /\ WaitingFor(c)' = IF WaitingFor(c) # Nil /\ NodeID(WaitingFor(c)) = n
                                 THEN Nil ELSE WaitingFor(c)
             /\ AnswerFor(c)' = AnswerFor(c)
  <2>1. CASE \E w \in watches : w.chan = held[c].chan
    <3>1. PICK w \in watches : w.chan = held[c].chan
      BY <2>1
    <3>2. WaitingFor(c) = w.request /\ w.request # Nil /\ w.node = NodeID(w.request)
      BY <3>1, WaitingIs DEF CacheInv, CacheTypeOK, Watch, WatchesFiled
    <3>3. w.node = n => \A x \in watches' : x.chan # held'[c].chan
      BY <1>2, <3>1 DEF CacheInv, WatchesDistinct
    <3>4. w.node # n => w \in watches' /\ w.chan = held'[c].chan
      BY <1>2, <3>1
    <3> QED
      BY <1>1, <1>2, <3>2, <3>3, <3>4, WaitingIsNext DEF AnswerFor
  <2>2. CASE \A w \in watches : w.chan # held[c].chan
    BY <1>1, <1>2, <2>2, WaitingIs, WaitingIsNext DEF AnswerFor
  <2> QED
    BY <2>1, <2>2
<1> QED
  BY <1>2, <1>3, SameData DEF Watcher!Withdraw

(* CreateWatch touches the channel of its caller only.                     *)
LEMMA CreateWatchSubscribes ==
    ASSUME CacheInv, NEW c \in Caller, NEW r \in Requests, NEW ch,
           CreateWatch(c, r, ch)
    PROVE  Watcher!Subscribe(c, r)
<1> DEFINE n == NodeID(r)
           s == snapshots[n]
<1>1. CacheInv' /\ ch \in FreeChan /\ ch \in Chan /\ ch # Nil
  BY CreateWatchInv DEF CreateWatch, FreeChan
<1>2. r \in Request /\ r # Nil
  OBVIOUS
<1>3. Watcher!IsNews(r, n, s) <=> s # Nil /\ r.version # GetVersion(s, r.type)
  BY <1>2, SameData DEF Watcher!IsNews
<1>4. ASSUME NEW d \in Caller, d # c
      PROVE  WaitingFor(d)' = WaitingFor(d) /\ AnswerFor(d)' = AnswerFor(d)
  <2>1. held'[d] = held[d] /\ held[d].chan # ch
    BY <1>1, <1>4 DEF CreateWatch, OpenWatch, AnswerAtOnce, CacheInv, CacheTypeOK, FreeChan
  <2>2. held[d].chan # Nil => buf'[held[d].chan] = buf[held[d].chan]
    <3>1. held[d].chan # Nil => held[d].chan \in Chan /\ held[d].chan # held[c].chan
      BY <1>4 DEF CacheInv, CacheTypeOK, Handle, HandlesDistinct
    <3> QED
      BY <2>1, <3>1 DEF CreateWatch, OpenWatch, AnswerAtOnce, MakeChan
  <2>3. \A w \in watches' : w \in watches \/ w.chan = ch
    BY DEF CreateWatch, OpenWatch, AnswerAtOnce
  <2>4. watches \subseteq watches'
    BY DEF CreateWatch, OpenWatch, AnswerAtOnce
  <2>5. WaitingFor(d)' = WaitingFor(d)
    <3>1. CASE \E w \in watches : w.chan = held[d].chan
      BY <1>1, <2>1, <2>4, <3>1, WaitingIs, WaitingIsNext
    <3>2. CASE \A w \in watches : w.chan # held[d].chan
      BY <1>1, <2>1, <2>3, <3>2, WaitingIs, WaitingIsNext
    <3> QED
      BY <3>1, <3>2
  <2> QED
    BY <2>1, <2>2, <2>5 DEF AnswerFor
<1>5. CASE OpenWatch(c, r, ch)
  <2>1. ~ Watcher!IsNews(r, n, s)
    BY <1>3, <1>5 DEF OpenWatch
  <2> DEFINE w0 == [node |-> n, id |-> watchCount + 1, request |-> r, chan |-> ch]
             h0 == [chan |-> ch, cancel |-> [node |-> n, id |-> watchCount + 1]]
  <2>2. /\ held'[c].chan = ch
        /\ \E w \in watches' : w.chan = ch /\ w.request = r
    <3>1. w0 \in watches' /\ held' = [held EXCEPT ![c] = h0]
      BY <1>5 DEF OpenWatch
    <3>2. w0.chan = ch /\ w0.request = r /\ h0.chan = ch
      OBVIOUS
    <3> HIDE DEF w0, h0
    <3> QED
      BY <3>1, <3>2 DEF CacheInv, CacheTypeOK
  <2>3. buf'[ch] = <<>>
    BY <1>1, <1>5 DEF OpenWatch, MakeChan
  <2>4. WaitingFor(c)' = r
    BY <1>1, <2>2, WaitingIsNext
  <2>5. AnswerFor(c)' = Nil
    BY <2>2, <2>3 DEF AnswerFor
  <2>6. UNCHANGED snapshots
    BY DEF CreateWatch
  <2> HIDE DEF n, s
  <2> QED
    BY <1>4, <2>1, <2>4, <2>5, <2>6, SameData DEF Watcher!Subscribe, n, s
<1>6. CASE AnswerAtOnce(c, r, ch)
  <2>1. Watcher!IsNews(r, n, s)
    BY <1>3, <1>6 DEF AnswerAtOnce
  <2>2. held'[c].chan = ch /\ watches' = watches
    BY <1>6 DEF AnswerAtOnce, CacheInv, CacheTypeOK
  <2>3. \A w \in watches' : w.chan # held'[c].chan
    BY <1>1, <2>2 DEF FreeChan
  <2>4. WaitingFor(c)' = Nil
    BY <1>1, <2>3, WaitingIsNext
  <2> DEFINE contents == Respond(<<>>, r, GetResources(s, r.type), GetVersion(s, r.type))
  <2>5. buf'[ch] = contents
    BY <1>1, <1>6 DEF AnswerAtOnce, MakeChan
  <2>6. /\ contents = <<>> => Watcher!AnswerFrom(r, s) = Nil
        /\ contents # <<>> => Head(contents) = Watcher!AnswerFrom(r, s)
    BY <1>2, RespondAnswers
  <2> HIDE DEF contents
  <2>7. AnswerFor(c)' = Watcher!AnswerFrom(r, s)
    BY <1>1, <2>2, <2>5, <2>6 DEF AnswerFor
  <2>8. UNCHANGED snapshots
    BY DEF CreateWatch
  <2> HIDE DEF n, s
  <2> QED
    BY <1>4, <2>1, <2>4, <2>7, <2>8, SameData DEF Watcher!Subscribe, n, s
<1> QED
  BY <1>5, <1>6 DEF CreateWatch

(* A cancel function, run once or again, ends its caller's subscription    *)
(* and nobody else's.                                                      *)
LEMMA CancelWatchUnsubscribes ==
    ASSUME CacheInv, NEW c \in Caller, CancelWatch(c)
    PROVE  Watcher!Unsubscribe(c)
<1>1. CacheInv'
  BY CancelWatchInv
<1>2. /\ watches' = watches \ Cancelled(held[c].cancel)
      /\ held[c].cancel # Nil
      /\ UNCHANGED <<snapshots, buf, held>>
  BY DEF CancelWatch
<1>3. \A w \in watches : w \in Cancelled(held[c].cancel) <=> w.chan = held[c].chan
  <2> SUFFICES ASSUME NEW w \in watches
               PROVE  w \in Cancelled(held[c].cancel) <=> w.chan = held[c].chan
    OBVIOUS
  <2>1. w.chan = held[c].chan <=> held[c].cancel = [node |-> w.node, id |-> w.id]
    BY DEF CacheInv, CancelIsOwn
  <2>2. held[c].cancel \in Cancel
    BY <1>2 DEF CacheInv, CacheTypeOK, Handle
  <2>3. held[c].cancel = [node |-> held[c].cancel.node, id |-> held[c].cancel.id]
    BY <2>2 DEF Cancel
  <2>4. w.node \in status
    BY DEF CacheInv, WatchesFiled
  <2> QED
    BY <1>2, <2>1, <2>3, <2>4 DEF Cancelled
<1>4. WaitingFor(c)' = Nil
  BY <1>1, <1>2, <1>3, WaitingIsNext
<1>5. ASSUME NEW d \in Caller, d # c
      PROVE  WaitingFor(d)' = WaitingFor(d)
  <2>1. CASE \E w \in watches : w.chan = held[d].chan
    <3>1. PICK w \in watches : w.chan = held[d].chan
      BY <2>1
    <3>2. w.chan # held[c].chan
      <4>1. w.chan # Nil
        BY DEF CacheInv, CacheTypeOK, Watch
      <4> QED
        BY <1>5, <3>1, <4>1 DEF CacheInv, HandlesDistinct
    <3>3. w \in watches'
      BY <1>2, <1>3, <3>2
    <3> QED
      BY <1>1, <1>2, <3>1, <3>3, WaitingIs, WaitingIsNext
  <2>2. CASE \A w \in watches : w.chan # held[d].chan
    BY <1>1, <1>2, <2>2, WaitingIs, WaitingIsNext
  <2> QED
    BY <2>1, <2>2
<1>6. \A d \in Caller : AnswerFor(d)' = AnswerFor(d)
  BY <1>2 DEF AnswerFor
<1> QED
  BY <1>2, <1>4, <1>5, <1>6 DEF Watcher!Unsubscribe

LEMMA ReceiveTakes ==
    ASSUME CacheInv, NEW c \in Caller, Receive(c)
    PROVE  Watcher!Take(c) /\ AnswerFor(c) = Head(buf[held[c].chan])
<1>1. /\ held[c].chan \in Chan /\ held[c].chan # Nil
      /\ buf[held[c].chan] # <<>>
      /\ buf' = [buf EXCEPT ![held[c].chan] = Tail(@)]
      /\ UNCHANGED <<snapshots, watches, held>>
  BY DEF Receive, CacheInv, CacheTypeOK, Handle
<1>2. buf[held[c].chan] \in Seq(Response) /\ Len(buf[held[c].chan]) <= 1
  BY <1>1 DEF CacheInv, CacheTypeOK, ChannelsNeverBlock
<1>3. Tail(buf[held[c].chan]) = <<>> /\ Head(buf[held[c].chan]) \in Response
  BY <1>1, <1>2
<1>4. buf'[held[c].chan] = <<>>
  BY <1>1, <1>3 DEF CacheInv, CacheTypeOK
<1>5. AnswerFor(c)' = Nil /\ AnswerFor(c) # Nil /\ AnswerFor(c) = Head(buf[held[c].chan])
  BY <1>1, <1>3, <1>4 DEF AnswerFor
<1>6. ASSUME NEW d \in Caller, d # c
      PROVE  AnswerFor(d)' = AnswerFor(d)
  <2>1. held[d].chan # Nil => held[d].chan \in Chan /\ held[d].chan # held[c].chan
    BY <1>6 DEF CacheInv, CacheTypeOK, Handle, HandlesDistinct
  <2>2. held[d].chan # Nil => buf'[held[d].chan] = buf[held[d].chan]
    BY <1>1, <2>1 DEF CacheInv, CacheTypeOK
  <2>3. held' = held
    BY <1>1
  <2>4. CASE held[d].chan = Nil
    BY <2>3, <2>4 DEF AnswerFor
  <2>5. CASE held[d].chan # Nil
    BY <2>2, <2>3, <2>5 DEF AnswerFor
  <2> QED
    BY <2>4, <2>5
<1>7. \A d \in Caller : WaitingFor(d)' = WaitingFor(d)
  BY <1>1 DEF WaitingFor
<1> QED
  BY <1>1, <1>5, <1>6, <1>7 DEF Watcher!Take

-----------------------------------------------------------------------------
(* A call of the cache or a receive from one of its channels, however many *)
(* watches there have been: what the server does to it as well.            *)
CacheCall ==
    \/ \E n \in Node, snapshot \in Snapshots : SetSnapshot(n, snapshot)
    \/ \E n \in Node : ClearSnapshot(n)
    \/ \E c \in Caller, request \in Requests, ch \in Chan : CreateWatch(c, request, ch)
    \/ \E c \in Caller : CancelWatch(c) \/ Receive(c)

LEMMA CacheNextCalls == [CacheNext]_cacheVars => [CacheCall]_cacheVars
BY DEF CacheNext, CacheCall

(* Each call is an operation of the subscription service.                  *)
LEMMA WatcherStep == CacheInv /\ [CacheCall]_cacheVars => [Watcher!WatcherNext]_(Watcher!watcherVars)
<1> SUFFICES ASSUME CacheInv, [CacheCall]_cacheVars
             PROVE  Watcher!WatcherNext \/ UNCHANGED Watcher!watcherVars
  OBVIOUS
<1>1. ASSUME NEW n \in Node, NEW s \in Snapshots, SetSnapshot(n, s)
      PROVE  Watcher!WatcherNext
  BY <1>1, SetSnapshotPublishes DEF Watcher!WatcherNext
<1>2. ASSUME NEW n \in Node, ClearSnapshot(n)
      PROVE  Watcher!WatcherNext
  BY <1>2, ClearSnapshotWithdraws DEF Watcher!WatcherNext
<1>3. ASSUME NEW c \in Caller, NEW r \in Requests, NEW ch \in Chan, CreateWatch(c, r, ch)
      PROVE  Watcher!WatcherNext
  BY <1>3, CreateWatchSubscribes DEF Watcher!WatcherNext
<1>4. ASSUME NEW c \in Caller, CancelWatch(c)
      PROVE  Watcher!WatcherNext
  BY <1>4, CancelWatchUnsubscribes DEF Watcher!WatcherNext
<1>5. ASSUME NEW c \in Caller, Receive(c)
      PROVE  Watcher!WatcherNext
  BY <1>5, ReceiveTakes DEF Watcher!WatcherNext
<1>6. CASE UNCHANGED cacheVars
  BY <1>6 DEF cacheVars, Watcher!watcherVars, WaitingFor, AnswerFor
<1> QED
  BY <1>1, <1>2, <1>3, <1>4, <1>5, <1>6 DEF CacheCall

(* The snapshot cache implements ConfigWatcher: whoever hides IDs,         *)
(* channels, status entries and cancel functions sees the abstract         *)
(* subscription service, for every instance of the constants.              *)
THEOREM CacheImplementsConfigWatcher == CacheSpec => ImplementsConfigWatcher
<1>1. CacheInit => Watcher!WatcherInit
  BY DEF CacheInit, Watcher!WatcherInit, WaitingFor, AnswerFor, NoHandle
<1>2. CacheInv /\ [CacheNext]_cacheVars => [Watcher!WatcherNext]_(Watcher!watcherVars)
  BY WatcherStep, CacheNextCalls
<1> QED
  BY <1>1, <1>2, CacheInvariant, PTL
     DEF CacheSpec, ImplementsConfigWatcher, Watcher!WatcherSpec

-----------------------------------------------------------------------------
(* What a single step may do to the open watches.                          *)

(* SetSnapshot answers every open watch of its node whose version differs, *)
(* from the new snapshot, and keeps the others.                            *)
THEOREM SetSnapshotAnswersAll == CacheSpec => SetSnapshotAnswers
<1> DEFINE Answered(w) ==
             LET snapshot == snapshots'[w.node]
                 version  == GetVersion(snapshot, w.request.type)
                 items    == GetResources(snapshot, w.request.type)
             IN  snapshot # snapshots[w.node] /\ snapshot # Nil =>
                   IF version = w.request.version
                   THEN w \in watches'
                   ELSE /\ w \notin watches'
                        /\ ~ Withheld(w.request, items) =>
                              buf'[w.chan] = <<CreateResponse(w.request, items, version)>>
<1>1. ASSUME CacheInv, [CacheNext]_cacheVars, NEW w \in watches PROVE Answered(w)
  <2>0. w.node \in Node /\ w.chan \in Chan /\ w.request \in Request
    BY <1>1 DEF CacheInv, CacheTypeOK, Watch
  <2>1. ASSUME NEW n \in Node, NEW s \in Snapshots, SetSnapshot(n, s) PROVE Answered(w)
    <3>1. /\ snapshots' = [snapshots EXCEPT ![n] = s]
          /\ watches' = watches \ Triggered(n, s)
      BY <2>1 DEF SetSnapshot
    <3>2. CASE w.node # n
      BY <1>1, <2>0, <3>1, <3>2 DEF CacheInv, CacheTypeOK
    <3>3. CASE w.node = n
      <4> DEFINE items == GetResources(s, w.request.type)
                 version == GetVersion(s, w.request.type)
      <4>1. snapshots'[w.node] = s
        BY <1>1, <3>1, <3>3 DEF CacheInv, CacheTypeOK
      <4>2. w \in Triggered(n, s) <=> version # w.request.version
        BY <1>1, <3>3 DEF Triggered
      <4>3. version # w.request.version =>
                buf'[w.chan] = Respond(<<>>, w.request, items, version)
        BY <1>1, <2>0, <2>1, <4>2, SetSnapshotFills
      <4> HIDE DEF items, version
      <4>4. ~ Withheld(w.request, items) =>
                Respond(<<>>, w.request, items, version)
                    = <<CreateResponse(w.request, items, version)>>
        BY DEF Respond
      <4> QED
        BY <1>1, <3>1, <4>1, <4>2, <4>3, <4>4 DEF items, version
    <3> QED
      BY <3>2, <3>3
  <2>2. ASSUME NEW n \in Node, ClearSnapshot(n) PROVE Answered(w)
    BY <1>1, <2>0, <2>2 DEF ClearSnapshot, CacheInv, CacheTypeOK
  <2>3. CASE UNCHANGED snapshots
    BY <2>3
  <2> QED
    BY <1>1, <2>1, <2>2, <2>3
       DEF CacheNext, CreateWatch, CancelWatch, Receive, cacheVars
<1>2. CacheInv /\ [CacheNext]_cacheVars => [\A w \in watches : Answered(w)]_cacheVars
  BY <1>1
<1> QED
  BY <1>2, CacheInvariant, PTL DEF CacheSpec, SetSnapshotAnswers

(* respond sends what a poll would be answered with.                       *)
LEMMA RespondSends ==
    ASSUME NEW r \in Request, NEW s \in SnapshotSet
    PROVE  LET items    == GetResources(s, r.type)
               version  == GetVersion(s, r.type)
               response == CreateResponse(r, items, version)
           IN  response # Nil /\ SentAs(Respond(<<>>, r, items, version), response)
<1>1. r.type \in Type
  BY DEF Request
<1>2. PICK items \in Items : items = GetResources(s, r.type)
  BY <1>1, SnapshotData
<1>3. PICK version \in Version : version = GetVersion(s, r.type)
  BY <1>1, SnapshotData
<1>4. PICK response : response = CreateResponse(r, items, version)
  OBVIOUS
<1>5. response # Nil
  BY <1>4, CreateResponseType
<1>6. \/ Respond(<<>>, r, items, version) = <<response>>
      \/ ADS /\ Respond(<<>>, r, items, version) = <<>>
  BY <1>4 DEF Respond, Withheld
<1> QED
  BY <1>2, <1>3, <1>4, <1>5, <1>6 DEF SentAs

(* A poll is refused exactly where a watch with its request waits, and     *)
(* answered with what the watch is sent: a poller misses nothing that a    *)
(* watcher gets.                                                           *)
THEOREM PollsAgree == CacheSpec => FetchAgrees
<1> DEFINE Created ==
             \A c \in Caller, request \in Requests, ch \in Chan :
                CreateWatch(c, request, ch) =>
                    /\ Fetch(request) = Nil <=> \E w \in watches' : w.chan = ch
                    /\ SentAs(buf'[ch], Fetch(request))
           Set ==
             \A n \in Node, snapshot \in Snapshots :
                SetSnapshot(n, snapshot) =>
                    \A w \in watches :
                        /\ Fetch(w.request)' = Nil <=> w \in watches'
                        /\ SentAs(buf'[w.chan], Fetch(w.request)')
<1>1. ASSUME CacheInv PROVE Created
  <2> SUFFICES ASSUME NEW c \in Caller, NEW r \in Requests, NEW ch \in Chan,
                      CreateWatch(c, r, ch)
               PROVE  /\ Fetch(r) = Nil <=> \E w \in watches' : w.chan = ch
                      /\ SentAs(buf'[ch], Fetch(r))
    OBVIOUS
  <2>1. r \in Request /\ NodeID(r) \in Node
    BY NodeIDType
  <2>2. PICK s \in SnapshotSet \cup {Nil} : s = snapshots[NodeID(r)]
    BY <1>1, <2>1 DEF CacheInv, CacheTypeOK
  <2>3. ch \in FreeChan /\ \A w \in watches : w.chan # ch
    BY DEF CreateWatch, FreeChan
  <2>4. CASE OpenWatch(c, r, ch)
    <3>1. Fetch(r) = Nil
      BY <2>2, <2>4 DEF OpenWatch, Fetch
    <3>2. buf'[ch] = <<>>
      BY <2>4 DEF OpenWatch, MakeChan
    <3>3. \E w \in watches' : w.chan = ch
      <4> DEFINE w0 == [node |-> NodeID(r), id |-> watchCount + 1, request |-> r, chan |-> ch]
      <4>1. w0 \in watches'
        BY <2>4 DEF OpenWatch
      <4>2. w0.chan = ch
        OBVIOUS
      <4> HIDE DEF w0
      <4> QED
        BY <4>1, <4>2
    <3> QED
      BY <3>1, <3>2, <3>3 DEF SentAs
  <2>5. CASE AnswerAtOnce(c, r, ch)
    <3>1. s # Nil /\ r.version # GetVersion(s, r.type)
      BY <2>2, <2>5 DEF AnswerAtOnce
    <3>2. Fetch(r) = CreateResponse(r, GetResources(s, r.type), GetVersion(s, r.type))
      BY <2>2, <3>1 DEF Fetch
    <3>3. buf'[ch] = Respond(<<>>, r, GetResources(s, r.type), GetVersion(s, r.type))
      BY <2>2, <2>5 DEF AnswerAtOnce, MakeChan
    <3>4. watches' = watches
      BY <2>5 DEF AnswerAtOnce
    <3> QED
      BY <2>1, <2>3, <3>1, <3>2, <3>3, <3>4, RespondSends
  <2> QED
    BY <2>4, <2>5 DEF CreateWatch
<1>2. ASSUME CacheInv PROVE Set
  <2> SUFFICES ASSUME NEW n \in Node, NEW s \in Snapshots, SetSnapshot(n, s), NEW w \in watches
               PROVE  /\ Fetch(w.request)' = Nil <=> w \in watches'
                      /\ SentAs(buf'[w.chan], Fetch(w.request)')
    OBVIOUS
  <2>1. /\ w.request \in Request /\ w.chan \in Chan
        /\ NodeID(w.request) = w.node /\ w.node \in Node
    BY <1>2 DEF CacheInv, CacheTypeOK, Watch, WatchesFiled
  <2>2. PICK r \in Request : r = w.request
    BY <2>1
  <2>3. PICK t \in SnapshotSet \cup {Nil} : t = snapshots'[w.node]
    BY <1>2, <2>1 DEF SetSnapshot, CacheInv, CacheTypeOK
  <2>4. watches' = watches \ Triggered(n, s)
    BY DEF SetSnapshot
  <2>5. Fetch(r)' = IF t = Nil \/ r.version = GetVersion(t, r.type) THEN Nil
                    ELSE CreateResponse(r, GetResources(t, r.type), GetVersion(t, r.type))
    BY <2>1, <2>2, <2>3 DEF Fetch
  <2>6. CASE w \in Triggered(n, s)
    <3>1. t = s /\ s # Nil /\ GetVersion(s, r.type) # r.version
      BY <1>2, <2>2, <2>3, <2>6 DEF Triggered, SetSnapshot, CacheInv, CacheTypeOK
    <3>2. buf'[w.chan] = Respond(<<>>, r, GetResources(s, r.type), GetVersion(s, r.type))
      BY <1>2, <2>1, <2>2, <2>6, SetSnapshotFills
    <3>3. Fetch(r)' = CreateResponse(r, GetResources(s, r.type), GetVersion(s, r.type))
      BY <2>5, <3>1
    <3> QED
      BY <2>2, <2>4, <2>6, <3>2, <3>3, RespondSends
  <2>7. CASE w \notin Triggered(n, s)
    <3>1. \A v \in Triggered(n, s) : v.chan # w.chan
      BY <1>2, <2>7 DEF Triggered, CacheInv, WatchesDistinct
    <3>2. buf'[w.chan] = <<>>
      BY <1>2, <2>1, <3>1, SetSnapshotFills DEF CacheInv, OpenChannelsEmpty
    <3>3. Fetch(r)' = Nil
      <4>1. CASE w.node = n
        BY <1>2, <2>2, <2>3, <2>5, <2>7, <4>1 DEF Triggered, SetSnapshot, CacheInv, CacheTypeOK
      <4>2. CASE w.node # n
        <5>1. t = snapshots[w.node]
          BY <1>2, <2>1, <2>3, <4>2 DEF SetSnapshot, CacheInv, CacheTypeOK
        <5> QED
          BY <1>2, <2>2, <2>5, <5>1 DEF CacheInv, OpenWatchesCurrent
      <4> QED
        BY <4>1, <4>2
    <3> QED
      BY <2>2, <2>4, <2>7, <3>2, <3>3 DEF SentAs
  <2> QED
    BY <2>6, <2>7
<1>3. CacheInv /\ [CacheNext]_cacheVars => [Created /\ Set]_cacheVars
  BY <1>1, <1>2
<1> QED
  BY <1>3, CacheInvariant, PTL DEF CacheSpec, FetchAgrees

(* Outside ADS mode an open watch ends only with an answer, by its own     *)
(* caller's cancel function, or with the status entry of its node.         *)
THEOREM WatchesNeverDropped == CacheSpec => NeverDropped
<1> DEFINE Kept(c, w) ==
             /\ ~ ADS
             /\ w.chan = held[c].chan
             /\ w \notin watches'
             /\ w.node \in status'
             => buf'[w.chan] # <<>> \/ CancelWatch(c)
<1>1. ASSUME CacheInv, [CacheNext]_cacheVars, NEW c \in Caller, NEW w \in watches
      PROVE  Kept(c, w)
  <2>0. w.node \in Node /\ w.chan \in Chan /\ w.chan # Nil
    BY <1>1 DEF CacheInv, CacheTypeOK, Watch
  <2>1. ASSUME NEW n \in Node, NEW s \in Snapshots, SetSnapshot(n, s) PROVE Kept(c, w)
    <3> SUFFICES ASSUME ~ ADS, w \notin watches' PROVE buf'[w.chan] # <<>>
      OBVIOUS
    <3>1. w \in Triggered(n, s)
      BY <1>1, <2>1 DEF SetSnapshot
    <3> DEFINE response == CreateResponse(w.request, GetResources(s, w.request.type),
                                          GetVersion(s, w.request.type))
    <3>2. buf'[w.chan] = Append(<<>>, response)
      BY <1>1, <2>0, <2>1, <3>1, SetSnapshotFills DEF Respond, Withheld
    <3> HIDE DEF response
    <3> QED
      BY <3>2
  <2>2. ASSUME NEW n \in Node, ClearSnapshot(n) PROVE Kept(c, w)
    BY <1>1, <2>2 DEF ClearSnapshot
  <2>3. ASSUME NEW d \in Caller, CancelWatch(d) PROVE Kept(c, w)
    <3> SUFFICES ASSUME w.chan = held[c].chan, w \notin watches' PROVE c = d
      BY <2>3
    <3>1. /\ w \in Cancelled(held[d].cancel)
          /\ held[d].cancel # Nil
      BY <1>1, <2>3 DEF CancelWatch
    <3>2. held[d].cancel \in Cancel
      BY <1>1, <3>1 DEF CacheInv, CacheTypeOK, Handle
    <3>3. held[d].cancel = [node |-> w.node, id |-> w.id]
      BY <3>1, <3>2 DEF Cancelled, Cancel
    <3>4. w.chan = held[d].chan
      BY <1>1, <3>3 DEF CacheInv, CancelIsOwn
    <3> QED
      BY <1>1, <2>0, <3>4 DEF CacheInv, HandlesDistinct
  <2>4. CASE w \in watches'
    BY <2>4
  <2>5. CASE watches \subseteq watches'
    BY <1>1, <2>5
  <2> QED
    BY <1>1, <2>1, <2>2, <2>3, <2>4, <2>5
       DEF CacheNext, CreateWatch, OpenWatch, AnswerAtOnce, Receive, cacheVars
<1>2. CacheInv /\ [CacheNext]_cacheVars =>
        [\A c \in Caller, w \in watches : Kept(c, w)]_cacheVars
  BY <1>1
<1> QED
  BY <1>2, CacheInvariant, PTL DEF CacheSpec, NeverDropped

-----------------------------------------------------------------------------
(* Where the responses in the channels come from.                          *)

(* respond puts nothing else into an empty channel.                        *)
LEMMA RespondGenuine ==
    ASSUME NEW r \in Request, NEW s \in Snapshots, GetVersion(s, r.type) # r.version,
           NEW contents,
           contents = Respond(<<>>, r, GetResources(s, r.type), GetVersion(s, r.type))
    PROVE  \A i \in DOMAIN contents : Genuine(contents[i])
<1> DEFINE items == GetResources(s, r.type)
           version == GetVersion(s, r.type)
           response == CreateResponse(r, items, version)
<1>1. CASE Withheld(r, items)
  BY <1>1 DEF Respond
<1>2. CASE ~ Withheld(r, items)
  <2>1. response.request = r
    BY DEF CreateResponse
  <2>2. Genuine(response)
    BY <1>2, <2>1 DEF Genuine
  <2>3. contents = Append(<<>>, response)
    BY <1>2 DEF Respond
  <2> HIDE DEF response
  <2> QED
    BY <2>2, <2>3
<1> QED
  BY <1>1, <1>2

LEMMA AnswersGenuineStep ==
    CacheInv /\ AnswersGenuine /\ [CacheCall]_cacheVars => AnswersGenuine'
<1> SUFFICES ASSUME CacheInv, AnswersGenuine, [CacheCall]_cacheVars PROVE AnswersGenuine'
  OBVIOUS
<1>1. /\ \A n \in Node : snapshots[n] \in Snapshots \cup {Nil}
      /\ \A ch \in Chan : \A i \in DOMAIN buf[ch] : Genuine(buf[ch][i])
  BY DEF AnswersGenuine
<1> SUFFICES /\ \A n \in Node : snapshots'[n] \in Snapshots \cup {Nil}
             /\ \A ch \in Chan : \A i \in DOMAIN buf'[ch] : Genuine(buf'[ch][i])
  BY DEF AnswersGenuine, Genuine
<1> DEFINE Kept == \A n \in Node : snapshots'[n] \in Snapshots \cup {Nil}
           Filled(ch) == \A i \in DOMAIN buf'[ch] : Genuine(buf'[ch][i])
<1>2. ASSUME NEW n \in Node, NEW s \in Snapshots, SetSnapshot(n, s)
      PROVE  Kept /\ \A ch \in Chan : Filled(ch)
  <2>1. Kept
    BY <1>1, <1>2 DEF SetSnapshot, CacheInv, CacheTypeOK
  <2>2. ASSUME NEW ch \in Chan PROVE Filled(ch)
    <3>1. CASE \E w \in Triggered(n, s) : w.chan = ch
      <4>1. PICK w \in Triggered(n, s) : w.chan = ch
        BY <3>1
      <4>2. w.request \in Request /\ GetVersion(s, w.request.type) # w.request.version
        BY DEF Triggered, CacheInv, CacheTypeOK, Watch
      <4>3. buf'[ch] = Respond(<<>>, w.request, GetResources(s, w.request.type),
                               GetVersion(s, w.request.type))
        BY <1>2, <4>1, SetSnapshotFills
      <4> QED
        BY <4>2, <4>3, RespondGenuine
    <3>2. CASE \A w \in Triggered(n, s) : w.chan # ch
      BY <1>1, <1>2, <3>2, SetSnapshotFills
    <3> QED
      BY <3>1, <3>2
  <2> QED
    BY <2>1, <2>2
<1>3. ASSUME NEW n \in Node, ClearSnapshot(n)
      PROVE  Kept /\ \A ch \in Chan : Filled(ch)
  BY <1>1, <1>3 DEF ClearSnapshot, CacheInv, CacheTypeOK
<1>4. ASSUME NEW c \in Caller, NEW r \in Requests, NEW new \in Chan, CreateWatch(c, r, new)
      PROVE  Kept /\ \A ch \in Chan : Filled(ch)
  <2>1. Kept
    BY <1>1, <1>4 DEF CreateWatch
  <2>2. ASSUME NEW ch \in Chan PROVE Filled(ch)
    <3>1. CASE ch # new
      <4>1. buf'[ch] \in {<<>>, buf[ch]}
        BY <1>4, <3>1 DEF CreateWatch, OpenWatch, AnswerAtOnce, MakeChan
      <4> QED
        BY <1>1, <4>1
    <3>2. CASE ch = new /\ OpenWatch(c, r, new)
      <4>1. buf'[ch] = <<>>
        BY <3>2 DEF OpenWatch, MakeChan
      <4> QED
        BY <4>1
    <3>3. CASE ch = new /\ AnswerAtOnce(c, r, new)
      <4> DEFINE s == snapshots[NodeID(r)]
      <4>1. /\ buf'[ch] = Respond(<<>>, r, GetResources(s, r.type), GetVersion(s, r.type))
            /\ GetVersion(s, r.type) # r.version
            /\ s # Nil
        BY <3>3 DEF AnswerAtOnce, MakeChan
      <4>2. r \in Request /\ s \in Snapshots
        BY <1>1, <4>1, NodeIDType
      <4> HIDE DEF s
      <4> QED
        BY <4>1, <4>2, RespondGenuine
    <3> QED
      BY <1>4, <3>1, <3>2, <3>3 DEF CreateWatch
  <2> QED
    BY <2>1, <2>2
<1>5. ASSUME NEW c \in Caller, CancelWatch(c)
      PROVE  Kept /\ \A ch \in Chan : Filled(ch)
  BY <1>1, <1>5 DEF CancelWatch
<1>6. ASSUME NEW c \in Caller, Receive(c)
      PROVE  Kept /\ \A ch \in Chan : Filled(ch)
  <2>1. /\ buf' = [buf EXCEPT ![held[c].chan] = Tail(@)]
        /\ held[c].chan \in Chan /\ buf[held[c].chan] # <<>>
        /\ buf[held[c].chan] \in Seq(Response) /\ Len(buf[held[c].chan]) <= 1
    BY <1>6 DEF Receive, CacheInv, CacheTypeOK, Handle, ChannelsNeverBlock
  <2>2. Tail(buf[held[c].chan]) = <<>>
    BY <2>1
  <2>3. \A ch \in Chan : buf'[ch] \in {<<>>, buf[ch]}
    BY <2>1, <2>2 DEF CacheInv, CacheTypeOK
  <2>4. ASSUME NEW ch \in Chan PROVE Filled(ch)
    BY <1>1, <2>3
  <2> QED
    BY <1>1, <1>6, <2>4 DEF Receive
<1>7. CASE UNCHANGED cacheVars
  BY <1>1, <1>7 DEF cacheVars
<1> QED
  BY <1>2, <1>3, <1>4, <1>5, <1>6, <1>7 DEF CacheCall

(* Whatever waits in a channel is the whole answer to its request from one *)
(* published snapshot that has news for it.                                *)
THEOREM AnswersAreGenuine == CacheSpec => []AnswersGenuine
<1>1. CacheInit => AnswersGenuine
  BY DEF CacheInit, AnswersGenuine
<1>2. CacheInv /\ AnswersGenuine /\ [CacheNext]_cacheVars => AnswersGenuine'
  BY AnswersGenuineStep, CacheNextCalls
<1> QED
  BY <1>1, <1>2, CacheInvariant, PTL DEF CacheSpec

(* No caller is sent the version that it already has.                      *)
THEOREM UpdatesAreNews == CacheSpec => []NoEmptyUpdate
<1>1. CacheInv /\ AnswersGenuine => NoEmptyUpdate
  <2> SUFFICES ASSUME CacheInv, AnswersGenuine, NEW c \in Caller, held[c].chan # Nil,
                      NEW i \in DOMAIN buf[held[c].chan]
               PROVE  buf[held[c].chan][i].version # buf[held[c].chan][i].request.version
    BY DEF NoEmptyUpdate
  <2> DEFINE r == buf[held[c].chan][i]
  <2>1. held[c].chan \in Chan
    BY DEF CacheInv, CacheTypeOK, Handle
  <2>2. PICK snapshot \in Snapshots :
           LET items   == GetResources(snapshot, r.request.type)
               version == GetVersion(snapshot, r.request.type)
           IN  /\ version # r.request.version
               /\ r = CreateResponse(r.request, items, version)
    BY <2>1 DEF AnswersGenuine, Genuine
  <2> HIDE DEF r
  <2>3. r.version = GetVersion(snapshot, r.request.type)
    BY <2>2 DEF CreateResponse
  <2> QED
    BY <2>2, <2>3 DEF r
<1> QED
  BY <1>1, CacheInvariant, AnswersAreGenuine, PTL

(* In ADS mode no response leaves out a resource of its snapshot.          *)
THEOREM AnswersAreWhole == CacheSpec => []NoPartialAnswer
<1>1. CacheInv /\ AnswersGenuine => NoPartialAnswer
  <2> SUFFICES ASSUME CacheInv, AnswersGenuine, ADS, NEW ch \in Chan,
                      NEW i \in DOMAIN buf[ch]
               PROVE  \E snapshot \in Snapshots :
                         /\ buf[ch][i].version = GetVersion(snapshot, buf[ch][i].request.type)
                         /\ buf[ch][i].items = GetResources(snapshot, buf[ch][i].request.type)
    BY DEF NoPartialAnswer
  <2> DEFINE r == buf[ch][i]
  <2>1. r \in Response
    BY DEF CacheInv, CacheTypeOK
  <2>2. r.request \in Request /\ r.request.type \in Type
    BY <2>1 DEF Response, Request
  <2>3. PICK snapshot \in Snapshots :
           /\ ~ Withheld(r.request, GetResources(snapshot, r.request.type))
           /\ r = CreateResponse(r.request, GetResources(snapshot, r.request.type),
                                 GetVersion(snapshot, r.request.type))
    BY DEF AnswersGenuine, Genuine
  <2> DEFINE items == GetResources(snapshot, r.request.type)
  <2>4. items \in Items
    BY <2>2, SnapshotData
  <2>5. r.items = [n \in Name |-> IF r.request.names = {} \/ n \in r.request.names
                                  THEN items[n] ELSE Nil]
    BY <2>3 DEF CreateResponse
  <2>6. r.request.names = {} \/ \A n \in Name : items[n] # Nil => n \in r.request.names
    BY <2>3 DEF Withheld, Superset
  <2> HIDE DEF items
  <2>7. r.items = items
    BY <2>4, <2>5, <2>6 DEF Items
  <2>8. r.version = GetVersion(snapshot, r.request.type)
    BY <2>3 DEF CreateResponse
  <2> QED
    BY <2>7, <2>8 DEF items
<1> QED
  BY <1>1, CacheInvariant, AnswersAreGenuine, PTL
=============================================================================
