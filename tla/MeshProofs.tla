----------------------------- MODULE MeshProofs -----------------------------
(***************************************************************************)
(* The control plane and a sidecar, for any set of types, names, snapshots *)
(* and streams, however often updates, rejections, broken streams and      *)
(* restarts happen: a restart keeps what the server promises, and a quiet  *)
(* stream means that the sidecar is up to date.                            *)
(*                                                                         *)
(* Every step but a restart is one that XdsServer allows a client, so the  *)
(* server's part of the invariant is preserved as it is there.  For the    *)
(* conversation, each step is described by what it does to the two queues, *)
(* to the request being handed over and to the pending one.                *)
(***************************************************************************)
EXTENDS Mesh, XdsServerProofs

-----------------------------------------------------------------------------
(* Queues.                                                                 *)

(* What is at the positions of a queue after its head has been taken.      *)
LEMMA TailAt ==
    ASSUME NEW S, NEW q \in Seq(S), q # <<>>
    PROVE  /\ Tail(q) \in Seq(S) /\ Head(q) \in S /\ 1 \in DOMAIN q /\ Head(q) = q[1]
           /\ \A i \in DOMAIN Tail(q) : i \in Nat /\ i + 1 \in DOMAIN q /\ Tail(q)[i] = q[i + 1]
           /\ \A i \in DOMAIN q : i # 1 => i - 1 \in DOMAIN Tail(q) /\ Tail(q)[i - 1] = q[i]
           /\ DOMAIN q \subseteq Nat \ {0}
OBVIOUS

(* And after an element has been added.                                    *)
LEMMA AppendAt ==
    ASSUME NEW S, NEW q \in Seq(S), NEW x \in S
    PROVE  /\ Append(q, x) \in Seq(S)
           /\ DOMAIN Append(q, x) = DOMAIN q \cup {Len(q) + 1}
           /\ Append(q, x)[Len(q) + 1] = x
           /\ \A i \in DOMAIN q : i \in Nat /\ i <= Len(q) /\ Append(q, x)[i] = q[i]
           /\ Len(q) \in Nat
OBVIOUS

(* The last of some kind of message stays the last, until it is taken.     *)
LEMMA TailLast ==
    ASSUME NEW S, NEW q \in Seq(S), q # <<>>, NEW P, NEW x, LastOf(q, P, x)
    PROVE  /\ LastOf(Tail(q), P, x)
           /\ NoneOf(Tail(q), P) /\ Head(q) \in P => Head(q) = x
           /\ NoneOf(Tail(q), P) /\ Head(q) \notin P => NoneOf(q, P)
<1>1. /\ 1 \in DOMAIN q /\ Head(q) = q[1]
      /\ \A i \in DOMAIN Tail(q) : i \in Nat /\ i + 1 \in DOMAIN q /\ Tail(q)[i] = q[i + 1]
      /\ \A i \in DOMAIN q : i # 1 => i - 1 \in DOMAIN Tail(q) /\ Tail(q)[i - 1] = q[i]
      /\ DOMAIN q \subseteq Nat \ {0}
  BY TailAt
<1>2. LastOf(Tail(q), P, x)
  <2> SUFFICES ASSUME NEW i \in DOMAIN Tail(q), Tail(q)[i] \in P,
                      \A j \in DOMAIN Tail(q) : Tail(q)[j] \in P => j <= i
               PROVE  Tail(q)[i] = x
    BY DEF LastOf
  <2>1. i \in Nat /\ i + 1 \in DOMAIN q /\ q[i + 1] \in P /\ Tail(q)[i] = q[i + 1]
    BY <1>1
  <2>2. ASSUME NEW j \in DOMAIN q, q[j] \in P PROVE j <= i + 1
    <3>1. CASE j = 1
      BY <2>1, <3>1
    <3>2. CASE j # 1
      <4>1. j - 1 \in DOMAIN Tail(q) /\ Tail(q)[j - 1] \in P /\ j \in Nat
        BY <1>1, <2>2, <3>2
      <4>2. j - 1 <= i
        BY <4>1
      <4> QED
        BY <2>1, <4>1, <4>2
    <3> QED
      BY <3>1, <3>2
  <2> QED
    BY <2>1, <2>2 DEF LastOf
<1>3. ASSUME NoneOf(Tail(q), P), NEW j \in DOMAIN q, q[j] \in P PROVE j = 1
  BY <1>1, <1>3 DEF NoneOf
<1>4. ASSUME NoneOf(Tail(q), P), Head(q) \in P PROVE Head(q) = x
  <2>1. \A j \in DOMAIN q : q[j] \in P => j <= 1
    BY <1>3, <1>4
  <2> QED
    BY <1>1, <1>4, <2>1 DEF LastOf
<1> QED
  BY <1>1, <1>2, <1>3, <1>4 DEF NoneOf

(* A message of the kind that is added is the last one, and another one    *)
(* changes nothing.                                                        *)
LEMMA AppendLast ==
    ASSUME NEW S, NEW q \in Seq(S), NEW y \in S, NEW P
    PROVE  /\ y \in P => LastOf(Append(q, y), P, y) /\ ~ NoneOf(Append(q, y), P)
           /\ y \notin P => /\ \A x : LastOf(q, P, x) => LastOf(Append(q, y), P, x)
                            /\ NoneOf(Append(q, y), P) => NoneOf(q, P)
<1> DEFINE n == Len(q)
           a == Append(q, y)
<1>1. /\ DOMAIN a = DOMAIN q \cup {n + 1} /\ a[n + 1] = y /\ n \in Nat
      /\ \A i \in DOMAIN q : i \in Nat /\ i <= n /\ a[i] = q[i]
  BY AppendAt
<1> HIDE DEF n, a
<1>2. ASSUME y \in P PROVE LastOf(a, P, y) /\ ~ NoneOf(a, P)
  <2>1. ASSUME NEW i \in DOMAIN a, \A j \in DOMAIN a : a[j] \in P => j <= i PROVE a[i] = y
    <3>1. n + 1 <= i
      BY <1>1, <1>2, <2>1
    <3>2. i = n + 1
      BY <1>1, <3>1
    <3> QED
      BY <1>1, <3>2
  <2> QED
    BY <1>1, <1>2, <2>1 DEF LastOf, NoneOf
<1>3. ASSUME y \notin P PROVE NoneOf(a, P) => NoneOf(q, P)
  BY <1>1, <1>3 DEF NoneOf
<1>4. ASSUME y \notin P, NEW x, LastOf(q, P, x) PROVE LastOf(a, P, x)
  <2> SUFFICES ASSUME NEW i \in DOMAIN a, a[i] \in P, \A j \in DOMAIN a : a[j] \in P => j <= i
               PROVE  a[i] = x
    BY DEF LastOf
  <2>1. i \in DOMAIN q /\ a[i] = q[i]
    BY <1>1, <1>4
  <2>2. \A j \in DOMAIN q : q[j] \in P => j <= i
    BY <1>1
  <2> QED
    BY <1>4, <2>1, <2>2 DEF LastOf
<1> QED
  BY <1>2, <1>3, <1>4 DEF a

-----------------------------------------------------------------------------
(* What process makes of the sidecar's messages.                           *)
LEMMA MessageRead ==
    ASSUME NEW s \in Stream, NEW t \in ResponseType,
           NEW v \in Version, NEW names \in SUBSET Name
    PROVE  /\ Message(s, t, v, names) \in Messages
           /\ Message(s, t, v, names).names = names
           /\ WithType(Message(s, t, v, names), StreamType[s])
                = [node |-> Sidecar, type |-> t, version |-> v, names |-> names]
<1>1. t # AnyType /\ (StreamType[s] # AnyType => StreamType[s] = t)
  BY SnapshotAssumption, XdsAssumption, MeshAssumption
<1>2. Message(s, t, v, names) \in Messages
  BY MeshAssumption
<1> QED
  BY <1>1, <1>2 DEF Message, WithType

(* A subscription carries the names and the nonce, and is for its type.    *)
LEMMA SubscriptionKnown ==
    ASSUME NEW s \in Stream, NEW t \in ResponseType, NEW names \in SUBSET Name,
           NEW mine \in [version : Version, items : Items, nonce : Nat]
    PROVE  /\ Subscription(s, t, names, mine) \in Incoming
           /\ Subscription(s, t, names, mine).nonce = mine.nonce
           /\ Subscription(s, t, names, mine).msg.names = names
           /\ \A u : Subscription(s, t, names, mine) \in Asks(s, u) <=> u = t
<1>1. mine.version \in Version /\ mine.nonce \in Nat
  OBVIOUS
<1> DEFINE m == Message(s, t, mine.version, names)
           r == [node |-> Sidecar, type |-> t, version |-> mine.version, names |-> names]
<1>2. m \in Messages /\ m.names = names /\ WithType(m, StreamType[s]) = r
  BY <1>1, MessageRead
<1>3. r.type = t
  OBVIOUS
<1> HIDE DEF m, r
<1>4. Subscription(s, t, names, mine) = [msg |-> m, nonce |-> mine.nonce]
  BY DEF Subscription, m
<1>5. [msg |-> m, nonce |-> mine.nonce] \in Incoming
  BY <1>1, <1>2 DEF Incoming
<1>6. \A u : [msg |-> m, nonce |-> mine.nonce] \in Asks(s, u) <=> u = t
  BY <1>2, <1>3, <1>5 DEF Asks
<1> QED
  BY <1>2, <1>4, <1>5, <1>6

-----------------------------------------------------------------------------
(* The server's part.                                                      *)

(* To the server the sidecar is one of the clients of XdsServer.           *)
LEMMA MeshStepServes ==
    ASSUME MeshTypeOK, NoncesKnown, XdsInv, [MeshNext]_meshVars
    PROVE  [XdsNext]_xdsVars \/ Restart
<1>1. CASE Connect
  <2>1. PICK s : s = CHOOSE r \in Stream : proc[r] = "idle"
    OBVIOUS
  <2>2. s \in Stream /\ OpenStream(s)
    BY <1>1, <2>1 DEF Connect
  <2> QED
    BY <2>2 DEF XdsNext
<1>2. ASSUME NEW s \in Stream, Arrive(s) PROVE XdsNext
  <2>1. PICK o : o = Head(toServer[s])
    OBVIOUS
  <2>2. /\ toServer[s] # <<>> /\ toServer[s] \in Seq(Incoming)
        /\ Recv(s, o.msg, o.nonce)
    BY <1>2, <2>1 DEF Arrive, MeshTypeOK
  <2>3. o \in Incoming /\ 1 \in DOMAIN toServer[s] /\ o = toServer[s][1]
    BY <2>1, <2>2, TailAt
  <2>4. o.msg \in Messages /\ o.nonce \in Nat /\ o.nonce <= streamNonce[s]
    BY <2>3 DEF Incoming, NoncesKnown
  <2>5. o.nonce \in 0..streamNonce[s]
    BY <2>4 DEF XdsInv, XdsTypeOK
  <2> QED
    BY <2>2, <2>4, <2>5 DEF XdsNext
<1>3. ASSUME NEW s \in Stream, Serve(s) \/ ReaderEnds(s) \/ Break(s) PROVE XdsNext
  BY <1>3 DEF Serve, ReaderEnds, Break, XdsNext
<1>4. CASE AcceptResponse \/ RejectResponse \/ NoticeLoss
             \/ \E t \in ResponseType, n \in Name : AddName(t, n)
  BY <1>4 DEF AcceptResponse, RejectResponse, TakeResponse, NoticeLoss, AddName
<1>5. ASSUME NEW snapshot \in Snapshots, PublishUpdate(snapshot) PROVE XdsNext
  BY <1>5, MeshAssumption DEF PublishUpdate, XdsNext
<1>6. CASE UNCHANGED meshVars
  BY <1>6 DEF meshVars
<1> QED
  BY <1>1, <1>2, <1>3, <1>4, <1>5, <1>6 DEF MeshNext

(* A restart leaves an empty cache and streams that have all ended.        *)
LEMMA RestartInv ==
    ASSUME StreamInv, Restart
    PROVE  StreamInv' /\ AnswersGenuine'
<1> USE DEF StreamInv
<1>1. /\ snapshots' = [n \in Node |-> Nil] /\ status' = {} /\ watches' = {}
      /\ watchCount' = 0 /\ buf' = [ch \in Chan |-> <<>>]
      /\ held' = [c \in Caller |-> NoHandle]
      /\ proc' = [s \in Stream |-> IF proc[s] = "idle" THEN "idle" ELSE "stopped"]
      /\ reader' = [s \in Stream |-> IF reader[s] = "idle" THEN "idle" ELSE "stopped"]
      /\ conn' = [s \in Stream |-> IF proc[s] = "idle" THEN conn[s] ELSE "lost"]
      /\ current' = [s \in Stream |-> Nil] /\ offered' = [s \in Stream |-> Nil]
      /\ pending' = [c \in Caller |-> Nil]
      /\ UNCHANGED <<cancelled, nonce, streamNonce, reqClosed, reqStop>>
  BY DEF Restart
<1>2. CacheInv'
  <2>1. CacheTypeOK'
    BY <1>1 DEF CacheTypeOK, NoHandle, Handle
  <2> QED
    BY <1>1, <2>1 DEF CacheInv, WatchesDistinct, WatchesFiled, OpenChannelsEmpty,
       ChannelsNeverBlock, HandlesDistinct, CancelIsOwn, CancelsIssued,
       OpenWatchesCurrent, NoHandle
<1>3. XdsInv'
  <2>1. XdsTypeOK'
    BY <1>1, <1>2 DEF XdsInv, XdsTypeOK, CacheInv
  <2>2. Handover'
    BY <1>1 DEF Handover
  <2> QED
    BY <1>2, <2>1, <2>2 DEF XdsInv
<1>4. \A c \in Caller : WaitingFor(c)' = Nil /\ AnswerFor(c)' = Nil /\ Serves(c)' = Nil
  BY <1>1 DEF WaitingFor, AnswerFor, Serves, NoHandle
<1>5. SlotsOwned'
  <2>1. \A s \in Stream : proc'[s] \in {"idle", "select", "create"} => cancelled'[s] = 0
    BY <1>1 DEF SlotInv, SlotsOwned
  <2>2. \A s \in Stream, type \in ResponseType : WaitingFor(<<s, type>>)' = Nil
    BY <1>4, XdsAssumption
  <2> QED
    BY <1>1, <2>1, <2>2 DEF SlotsOwned
<1>6. SlotsAnswer'
  <2>1. \A s \in Stream : proc'[s] \in {"idle", "stopped"}
    BY <1>1
  <2>2. \A s \in Stream, type \in ResponseType :
           Serves(<<s, type>>)' = Nil /\ pending'[<<s, type>>] = Nil
    BY <1>1, <1>4, XdsAssumption
  <2> QED
    BY <2>1, <2>2 DEF SlotsAnswer, Serving
<1>7. NoncesIdentify'
  BY <1>1 DEF SlotInv, NoncesIdentify
<1>8. AnswersGenuine'
  BY <1>1 DEF AnswersGenuine
<1> QED
  BY <1>3, <1>5, <1>6, <1>7, <1>8 DEF SlotInv

LEMMA ServerKept ==
    ASSUME MeshInv, [MeshNext]_meshVars
    PROVE  StreamInv' /\ AnswersGenuine'
<1>1. StreamInv /\ XdsInv /\ CacheInv /\ SlotInv /\ AnswersGenuine
  BY DEF MeshInv, StreamInv, XdsInv
<1>2. [XdsNext]_xdsVars \/ Restart
  BY <1>1, MeshStepServes DEF MeshInv
<1>3. CASE [XdsNext]_xdsVars
  <2>1. XdsInv'
    BY <1>1, <1>3, XdsNextInv
  <2>2. SlotInv'
    BY <1>1, <1>3, StreamNextInv
  <2>3. AnswersGenuine'
    BY <1>1, <1>3, XdsCalls, AnswersGenuineStep
  <2> QED
    BY <2>1, <2>2, <2>3 DEF StreamInv
<1>4. CASE Restart
  BY <1>1, <1>4, RestartInv
<1> QED
  BY <1>2, <1>3, <1>4

-----------------------------------------------------------------------------
(* How streams age.                                                        *)

(* What a step of the server does to the nonces and the phases of streams. *)
LEMMA StreamsAge ==
    ASSUME XdsInv, [XdsNext]_xdsVars \/ Restart, NEW q \in Stream
    PROVE  /\ streamNonce[q] \in Nat /\ streamNonce'[q] \in Nat
           /\ streamNonce[q] <= streamNonce'[q]
           /\ proc'[q] = "idle" => proc[q] = "idle" /\ streamNonce'[q] = streamNonce[q]
<1> DEFINE Aged == /\ streamNonce'[q] \in {streamNonce[q], streamNonce[q] + 1}
                   /\ proc'[q] = "idle" => proc[q] = "idle" /\ streamNonce'[q] = streamNonce[q]
<1>1. /\ streamNonce \in [Stream -> Nat]
      /\ proc \in [Stream -> {"idle", "select", "create", "closing", "returned", "stopped"}]
  BY DEF XdsInv, XdsTypeOK
<1> SUFFICES Aged
  BY <1>1
<1>2. ASSUME NEW s \in Stream,
             \/ OpenStream(s) \/ CloseSend(s) \/ Disconnect(s) \/ RecvError(s)
             \/ \E m, k : Recv(s, m, k)
      PROVE  Aged
  BY <1>1, <1>2 DEF OpenStream, CloseSend, Disconnect, RecvError, Recv, procVars
<1>3. ASSUME NEW s \in Stream, ProcessStep(s) PROVE Aged
  <2>1. ASSUME NEW t \in ResponseType, SendResponse(s, t) \/ SendError(s, t) PROVE Aged
    <3>1. /\ proc[s] = "select" /\ proc'[q] \in {proc[q], "closing"}
          /\ \/ streamNonce' = [streamNonce EXCEPT ![s] = streamNonce[s] + 1]
             \/ streamNonce' = [streamNonce EXCEPT ![s] = streamNonce[s]]
      BY <1>1, <2>1 DEF SendResponse, SendError, FromWatch
    <3> QED
      BY <1>1, <2>1, <3>1 DEF SendResponse, SendError
  <2>2. CASE RefuseRequest(s) \/ IgnoreRequest(s) \/ AcceptRequest(s) \/ CreateRequested(s)
    BY <1>1, <2>2 DEF RefuseRequest, IgnoreRequest, AcceptRequest, CreateRequested, procVars
  <2>3. CASE InputEnded(s) \/ CancelNext(s) \/ ProcessReturns(s) \/ HandlerReturns(s)
    BY <1>1, <2>3 DEF InputEnded, CancelNext, ProcessReturns, HandlerReturns
  <2> QED
    BY <1>3, <2>1, <2>2, <2>3 DEF ProcessStep
<1>4. ASSUME NEW n \in Node, NEW snapshot \in Snapshots, UpdateSnapshot(n, snapshot)
      PROVE  Aged
  BY <1>4 DEF UpdateSnapshot, serverVars, procVars
<1>5. CASE UNCHANGED xdsVars
  BY <1>5 DEF xdsVars, serverVars, procVars, readerVars, cacheVars
<1>6. CASE Restart
  BY <1>1, <1>6 DEF Restart
<1> HIDE DEF Aged
<1>7. CASE XdsNext
  <2>1. ASSUME NEW s \in Stream, \E m \in Messages \cup {Nil}, k \in 0..streamNonce[s] : Recv(s, m, k)
        PROVE  Aged
    BY <1>2, <2>1
  <2> QED
    BY <1>2, <1>3, <1>4, <1>7, <2>1 DEF XdsNext
<1> QED
  BY <1>5, <1>6, <1>7

(* What both ends agree on stands as long as neither of them moves.        *)
LEMMA ConversationFrame ==
    ASSUME NEW q \in Stream,
           ResponsesInOrder(q), \A t \in ResponseType : RequestsRemembered(q, t),
           toServer'[q] = toServer[q], toClient'[q] = toClient[q],
           reader'[q] = reader[q], offered'[q] = offered[q],
           \A t \in ResponseType : /\ pending'[<<q, t>>] = pending[<<q, t>>]
                                   /\ nonce'[<<q, t>>] = nonce[<<q, t>>],
           want' = want, have' = have
    PROVE  (ResponsesInOrder(q) /\ \A t \in ResponseType : RequestsRemembered(q, t))'
<1>1. ResponsesInOrder(q)'
  BY DEF ResponsesInOrder
<1>2. ASSUME NEW t \in ResponseType PROVE RequestsRemembered(q, t)'
  BY DEF RequestsRemembered
<1> QED
  BY <1>1, <1>2

-----------------------------------------------------------------------------
(* The two ends and what is between them: what MeshInv adds to the server. *)
EndsInv == MeshTypeOK /\ NoncesKnown /\ Conversation /\ WantsKept /\ SidecarConsistent

(* The server stands still while the sidecar moves.                        *)
LEMMA ServerStill ==
    ASSUME UNCHANGED xdsVars
    PROVE  UNCHANGED <<snapshots, proc, reader, conn, offered, pending, nonce, streamNonce>>
BY DEF xdsVars, cacheVars, serverVars, procVars, readerVars

-----------------------------------------------------------------------------
(* What a step must not do to the parts that speak of every stream.        *)

StreamsOlder ==
    \A p \in Stream :
        /\ streamNonce[p] \in Nat /\ streamNonce'[p] \in Nat
        /\ streamNonce[p] <= streamNonce'[p]
        /\ proc'[p] = "idle" => proc[p] = "idle" /\ streamNonce'[p] = streamNonce[p]

(* What is on its way was so before, or is new and as it has to be.        *)
RequestsCarried ==
    \A p \in Stream : \A i \in DOMAIN toServer'[p] :
        \/ \E j \in DOMAIN toServer[p] : toServer'[p][i] = toServer[p][j]
        \/ toServer'[p][i].nonce <= streamNonce'[p] /\ Asking(p, toServer'[p][i])

ResponsesCarried ==
    \A p \in Stream :
        /\ proc'[p] = "idle" => toClient'[p] \in {toClient[p], <<>>}
        /\ \A i \in DOMAIN toClient'[p] :
              \/ \E j \in DOMAIN toClient[p] : toClient'[p][i] = toClient[p][j]
              \/ /\ toClient'[p][i].nonce <= streamNonce'[p]
                 /\ Copied(toClient'[p][i].type, toClient'[p][i])

LEMMA NoncesKept ==
    ASSUME MeshTypeOK, NoncesKnown, StreamsOlder, RequestsCarried, ResponsesCarried,
           using' # Nil => \A t \in ResponseType : have'[t].nonce <= streamNonce'[using']
    PROVE  NoncesKnown'
<1> SUFFICES ASSUME NEW p \in Stream
             PROVE  /\ proc'[p] = "idle" => toClient'[p] = <<>> /\ streamNonce'[p] = 0
                    /\ \A i \in DOMAIN toServer'[p] : toServer'[p][i].nonce <= streamNonce'[p]
                    /\ \A i \in DOMAIN toClient'[p] : toClient'[p][i].nonce <= streamNonce'[p]
  BY DEF NoncesKnown
<1>1. /\ streamNonce[p] \in Nat /\ streamNonce'[p] \in Nat
      /\ streamNonce[p] <= streamNonce'[p]
  BY DEF StreamsOlder
<1>2. proc'[p] = "idle" => toClient'[p] = <<>> /\ streamNonce'[p] = 0
  BY DEF NoncesKnown, StreamsOlder, ResponsesCarried
<1>3. \A j \in DOMAIN toServer[p] : toServer[p][j].nonce \in Nat
  <2>1. toServer[p] \in Seq(Incoming)
    BY DEF MeshTypeOK
  <2>2. \A j \in DOMAIN toServer[p] : toServer[p][j] \in Incoming
    BY <2>1
  <2> QED
    BY <2>2 DEF Incoming
<1>4. \A j \in DOMAIN toClient[p] : toClient[p][j].nonce \in Nat
  <2>1. toClient[p] \in Seq(Outgoing)
    BY DEF MeshTypeOK
  <2>2. \A j \in DOMAIN toClient[p] : toClient[p][j] \in Outgoing
    BY <2>1
  <2> QED
    BY <2>2 DEF Outgoing
<1>5. ASSUME NEW i \in DOMAIN toServer'[p] PROVE toServer'[p][i].nonce <= streamNonce'[p]
  BY <1>1, <1>3 DEF NoncesKnown, RequestsCarried
<1>6. ASSUME NEW i \in DOMAIN toClient'[p] PROVE toClient'[p][i].nonce <= streamNonce'[p]
  BY <1>1, <1>4 DEF NoncesKnown, ResponsesCarried
<1> QED
  BY <1>2, <1>5, <1>6

LEMMA WantsAreKept ==
    ASSUME WantsKept, RequestsCarried,
           \A t \in ResponseType : Wants(t, want'[t]),
           \A p \in Stream : reader'[p] = "offer" => Asking(p, offered'[p]),
           \A p \in Stream, t \in ResponseType : pending'[<<p, t>>] # Nil =>
              pending'[<<p, t>>].type = t /\ Wants(t, pending'[<<p, t>>].names)
    PROVE  WantsKept'
<1>1. ASSUME NEW p \in Stream, NEW i \in DOMAIN toServer'[p] PROVE Asking(p, toServer'[p][i])
  BY DEF WantsKept, RequestsCarried
<1> QED
  BY <1>1 DEF WantsKept, Asking, Wants, Asks

LEMMA ConsistencyKept ==
    ASSUME SidecarConsistent, ResponsesCarried,
           \A t \in ResponseType :
              \/ have'[t].version = NoVersion /\ have'[t].items = NoItems
              \/ Copied(t, have'[t])
    PROVE  SidecarConsistent'
<1>1. ASSUME NEW p \in Stream, NEW i \in DOMAIN toClient'[p]
      PROVE  Copied(toClient'[p][i].type, toClient'[p][i])
  BY DEF SidecarConsistent, ResponsesCarried
<1> QED
  BY <1>1 DEF SidecarConsistent, Copied, Asked

LEMMA StreamsGetOlder ==
    ASSUME MeshInv, [MeshNext]_meshVars
    PROVE  StreamsOlder
<1>1. MeshTypeOK /\ NoncesKnown /\ XdsInv
  BY DEF MeshInv, StreamInv
<1>2. [XdsNext]_xdsVars \/ Restart
  BY <1>1, MeshStepServes
<1> QED
  BY <1>1, <1>2, StreamsAge DEF StreamsOlder

-----------------------------------------------------------------------------
(* The sidecar's steps.                                                    *)

(* The sidecar handles a response and acknowledges it.                     *)
LEMMA TakeResponseKeeps ==
    ASSUME MeshInv, using # Nil, toClient[using] # <<>>,
           NEW r, r = Head(toClient[using]),
           NEW mine, mine \in [version : Version, items : Items, nonce : Nat],
           mine.nonce = r.nonce,
           \/ Copied(r.type, mine)
           \/ mine.version = have[r.type].version /\ mine.items = have[r.type].items,
           TakeResponse(r.type, mine), events' \in Nat
    PROVE  EndsInv'
<1>0. StreamInv /\ MeshTypeOK /\ NoncesKnown /\ Conversation /\ WantsKept /\ SidecarConsistent
  BY DEF MeshInv
<1>1. PICK s \in Stream : s = using
  BY <1>0 DEF MeshTypeOK
<1>2. PICK q \in Seq(Outgoing) : q = toClient[s] /\ q # <<>>
  BY <1>0, <1>1 DEF MeshTypeOK
<1>3. r \in Outgoing /\ 1 \in DOMAIN q /\ r = q[1] /\ Tail(q) \in Seq(Outgoing)
  BY <1>1, <1>2, TailAt
<1>4. PICK t \in ResponseType : t = r.type
  BY <1>3 DEF Outgoing
<1>5. PICK o : o = Subscription(s, t, want[t], mine)
  OBVIOUS
<1>6. /\ o \in Incoming /\ o.nonce = mine.nonce /\ o.msg.names = want[t]
      /\ \A u : o \in Asks(s, u) <=> u = t
  <2>1. PICK names \in SUBSET Name : names = want[t]
    BY <1>0 DEF MeshTypeOK
  <2>2. mine \in [version : Version, items : Items, nonce : Nat]
    OBVIOUS
  <2>3. /\ Subscription(s, t, names, mine) \in Incoming
        /\ Subscription(s, t, names, mine).nonce = mine.nonce
        /\ Subscription(s, t, names, mine).msg.names = names
        /\ \A u : Subscription(s, t, names, mine) \in Asks(s, u) <=> u = t
    BY ONLY <2>2, s \in Stream, t \in ResponseType, names \in SUBSET Name,
       SubscriptionKnown, Zenon
  <2> QED
    BY <1>5, <2>1, <2>3
<1>7. /\ have' = [have EXCEPT ![t] = mine]
      /\ toClient' = [toClient EXCEPT ![s] = Tail(q)]
      /\ toServer' = [toServer EXCEPT ![s] = Append(toServer[s], o)]
      /\ UNCHANGED <<using, want, updates>>
      /\ UNCHANGED <<snapshots, proc, reader, conn, offered, pending, nonce, streamNonce>>
  BY <1>1, <1>2, <1>4, <1>5, ServerStill DEF TakeResponse
<1>8. /\ toServer[s] \in Seq(Incoming) /\ Append(toServer[s], o) \in Seq(Incoming)
      /\ have[t] \in [version : Version, items : Items, nonce : Nat]
  BY <1>0, <1>6, AppendAt DEF MeshTypeOK
<1>9. MeshTypeOK'
  BY <1>0, <1>3, <1>7, <1>8 DEF MeshTypeOK
<1>10. RequestsCarried /\ ResponsesCarried
  <2>1. o.nonce <= streamNonce'[s] /\ Asking(s, o)
    <3>1. o.nonce <= streamNonce[s] /\ Wants(t, want[t])
      BY <1>0, <1>2, <1>3, <1>6 DEF NoncesKnown, WantsKept
    <3> QED
      BY <1>6, <1>7, <3>1 DEF Asking
  <2>2. ASSUME NEW p \in Stream, NEW i \in DOMAIN toServer'[p]
        PROVE  \/ \E j \in DOMAIN toServer[p] : toServer'[p][i] = toServer[p][j]
               \/ toServer'[p][i].nonce <= streamNonce'[p] /\ Asking(p, toServer'[p][i])
    <3>1. CASE p = s
      <4>1. toServer'[p] = Append(toServer[s], o)
        BY <1>0, <1>7, <3>1 DEF MeshTypeOK
      <4>2. toServer'[p][i] = o \/ (i \in DOMAIN toServer[p] /\ toServer'[p][i] = toServer[p][i])
        BY <1>6, <1>8, <3>1, <4>1, AppendAt
      <4> QED
        BY <2>1, <3>1, <4>2
    <3>2. CASE p # s
      BY <1>0, <1>7, <3>2 DEF MeshTypeOK
    <3> QED
      BY <3>1, <3>2
  <2>3. ASSUME NEW p \in Stream, NEW i \in DOMAIN toClient'[p]
        PROVE  \E j \in DOMAIN toClient[p] : toClient'[p][i] = toClient[p][j]
    <3>1. CASE p = s
      <4>1. toClient'[p] = Tail(q)
        BY <1>0, <1>7, <3>1 DEF MeshTypeOK
      <4>2. i + 1 \in DOMAIN q /\ Tail(q)[i] = q[i + 1]
        BY <1>2, <4>1, TailAt
      <4> QED
        BY <1>2, <3>1, <4>1, <4>2
    <3>2. CASE p # s
      BY <1>0, <1>7, <3>2 DEF MeshTypeOK
    <3> QED
      BY <3>1, <3>2
  <2>4. ASSUME NEW p \in Stream, proc'[p] = "idle" PROVE toClient'[p] = toClient[p]
    BY <1>0, <1>2, <1>7, <2>4 DEF MeshTypeOK, NoncesKnown
  <2> QED
    BY <2>2, <2>3, <2>4 DEF RequestsCarried, ResponsesCarried
<1>11. NoncesKnown' /\ WantsKept'
  <2>1. StreamsOlder
    BY <1>0, <1>7 DEF StreamsOlder, StreamInv, XdsInv, XdsTypeOK
  <2>2. ASSUME NEW u \in ResponseType PROVE have'[u].nonce <= streamNonce'[using']
    BY <1>0, <1>1, <1>2, <1>3, <1>7 DEF MeshTypeOK, NoncesKnown
  <2>3. \A u \in ResponseType : Wants(u, want'[u])
    BY <1>0, <1>7 DEF WantsKept
  <2>4. /\ \A p \in Stream : reader'[p] = "offer" => Asking(p, offered'[p])
        /\ \A p \in Stream, u \in ResponseType : pending'[<<p, u>>] # Nil =>
              pending'[<<p, u>>].type = u /\ Wants(u, pending'[<<p, u>>].names)
    BY <1>0, <1>7 DEF WantsKept
  <2> QED
    BY <1>0, <1>10, <2>1, <2>2, <2>3, <2>4, NoncesKept, WantsAreKept
<1>12. SidecarConsistent'
  <2>1. ASSUME NEW u \in ResponseType
        PROVE  \/ have'[u].version = NoVersion /\ have'[u].items = NoItems
               \/ Copied(u, have'[u])
    <3>1. CASE u = t
      <4>1. have'[u] = mine
        BY <1>0, <1>7, <3>1 DEF MeshTypeOK
      <4>2. CASE Copied(r.type, mine)
        BY <1>4, <3>1, <4>1, <4>2
      <4>3. CASE mine.version = have[r.type].version /\ mine.items = have[r.type].items
        <5>1. PICK h : h = have[t]
          OBVIOUS
        <5>2. mine.version = h.version /\ mine.items = h.items
          BY <1>4, <4>3, <5>1
        <5>3. (h.version = NoVersion /\ h.items = NoItems) \/ Copied(t, h)
          BY <1>0, <5>1 DEF SidecarConsistent
        <5>4. Copied(t, h) => Copied(t, mine)
          BY <5>2 DEF Copied
        <5> QED
          BY <3>1, <4>1, <5>2, <5>3, <5>4
      <4> QED
        BY <4>2, <4>3
    <3>2. CASE u # t
      BY <1>0, <1>7, <3>2 DEF MeshTypeOK, SidecarConsistent
    <3> QED
      BY <3>1, <3>2
  <2> QED
    BY <1>0, <1>10, <2>1, ConsistencyKept
<1>13. Conversation'
  <2> SUFFICES ASSUME Live(s)'
               PROVE  (ResponsesInOrder(s) /\ \A u \in ResponseType : RequestsRemembered(s, u))'
    BY <1>0, <1>1, <1>7 DEF Conversation, Live
  <2>1. Live(s)
    BY <1>7 DEF Live
  <2>2. /\ ResponsesInOrder(s) /\ \A u \in ResponseType : RequestsRemembered(s, u)
        /\ toClient'[s] = Tail(q) /\ toServer'[s] = Append(toServer[s], o)
        /\ have'[t] = mine /\ \A u \in ResponseType : u # t => have'[u] = have[u]
    BY <1>0, <1>7, <2>1 DEF Conversation, MeshTypeOK
  <2>3. /\ \A i \in DOMAIN Tail(q) : i \in Nat /\ i + 1 \in DOMAIN q /\ Tail(q)[i] = q[i + 1]
        /\ \A i \in DOMAIN q : i # 1 => i - 1 \in DOMAIN Tail(q) /\ Tail(q)[i - 1] = q[i]
        /\ DOMAIN q \subseteq Nat \ {0}
    BY <1>2, TailAt
  <2>4. /\ \A i, j \in DOMAIN q : i < j => q[i].nonce < q[j].nonce
        /\ \A u \in ResponseType, i \in DOMAIN q : q[i].type = u =>
              have[u].nonce < q[i].nonce /\ q[i].nonce <= nonce[<<s, u>>]
        /\ \A u \in ResponseType :
              \/ have[u].nonce = nonce[<<s, u>>]
              \/ \E i \in DOMAIN q : q[i].type = u /\ q[i].nonce = nonce[<<s, u>>]
    BY <1>2, <2>2 DEF ResponsesInOrder
  <2>5. \A i \in DOMAIN q : q[i] \in Outgoing /\ q[i].nonce \in Nat
    <3>1. \A i \in DOMAIN q : q[i] \in Outgoing
      BY <1>2
    <3> QED
      BY <3>1 DEF Outgoing
  <2>6. \A i, j \in DOMAIN Tail(q) : i < j => Tail(q)[i].nonce < Tail(q)[j].nonce
    BY <2>3, <2>4
  <2>7. ASSUME NEW u \in ResponseType, NEW i \in DOMAIN Tail(q), Tail(q)[i].type = u
        PROVE  have'[u].nonce < Tail(q)[i].nonce /\ Tail(q)[i].nonce <= nonce[<<s, u>>]
    <3>1. i + 1 \in DOMAIN q /\ Tail(q)[i] = q[i + 1] /\ 1 < i + 1
      BY <2>3
    <3>2. CASE u = t
      BY <1>3, <2>2, <2>4, <2>7, <3>1, <3>2
    <3>3. CASE u # t
      BY <2>2, <2>4, <2>7, <3>1, <3>3
    <3> QED
      BY <3>2, <3>3
  <2>8. ASSUME NEW u \in ResponseType, have'[u].nonce # nonce[<<s, u>>]
        PROVE  \E i \in DOMAIN Tail(q) : Tail(q)[i].type = u /\ Tail(q)[i].nonce = nonce[<<s, u>>]
    <3>1. CASE u = t
      <4>1. have[t].nonce < q[1].nonce /\ q[1].nonce <= nonce[<<s, t>>]
            /\ q[1].nonce # nonce[<<s, t>>]
        BY <1>3, <1>4, <2>2, <2>4, <2>8, <3>1
      <4>2. have[t].nonce # nonce[<<s, t>>]
        <5>1. have[t].nonce \in Nat /\ q[1].nonce \in Nat /\ nonce[<<s, t>>] \in Nat
          BY <1>0, <1>3, <1>8, <2>5, XdsAssumption DEF StreamInv, XdsInv, XdsTypeOK
        <5> QED
          BY <4>1, <5>1
      <4>3. PICK i \in DOMAIN q : q[i].type = t /\ q[i].nonce = nonce[<<s, t>>]
        BY <2>4, <4>2
      <4>4. i # 1
        BY <4>1, <4>3
      <4> QED
        BY <2>3, <3>1, <4>3, <4>4
    <3>2. CASE u # t
      <4>1. PICK i \in DOMAIN q : q[i].type = u /\ q[i].nonce = nonce[<<s, u>>]
        BY <2>2, <2>4, <2>8, <3>2
      <4>2. i # 1
        BY <1>3, <1>4, <3>2, <4>1
      <4> QED
        BY <2>3, <4>1, <4>2
    <3> QED
      BY <3>1, <3>2
  <2>9. ResponsesInOrder(s)'
    <3>1. nonce' = nonce /\ toClient'[s] = Tail(q)
      BY <1>7, <2>2
    <3>2. \A u \in ResponseType :
             /\ \A i \in DOMAIN Tail(q) : Tail(q)[i].type = u =>
                   have'[u].nonce < Tail(q)[i].nonce /\ Tail(q)[i].nonce <= nonce[<<s, u>>]
             /\ have'[u].nonce # nonce[<<s, u>>] =>
                   \E i \in DOMAIN Tail(q) : Tail(q)[i].type = u /\ Tail(q)[i].nonce = nonce[<<s, u>>]
      BY <2>7, <2>8
    <3>3. \A i, j \in DOMAIN toClient'[s] : i < j => toClient'[s][i].nonce < toClient'[s][j].nonce
      BY <2>6, <3>1
    <3>4. ASSUME NEW u \in ResponseType
          PROVE  LET due == {i \in DOMAIN toClient'[s] : toClient'[s][i].type = u}
                 IN  /\ \A i \in due : /\ have'[u].nonce < toClient'[s][i].nonce
                                       /\ toClient'[s][i].nonce <= nonce'[<<s, u>>]
                     /\ \/ have'[u].nonce = nonce'[<<s, u>>]
                        \/ \E i \in due : toClient'[s][i].nonce = nonce'[<<s, u>>]
      BY <3>1, <3>2, SMTT(60)
    <3> QED
      BY <3>3, <3>4 DEF ResponsesInOrder
  <2>10. ASSUME NEW u \in ResponseType PROVE RequestsRemembered(s, u)'
    <3>1. CASE u = t
      <4>1. o \in Asks(s, u) /\ Subscription(s, u, want'[u], have'[u]) = o
        BY <1>5, <1>6, <1>7, <2>2, <3>1
      <4>2. LastOf(toServer'[s], Asks(s, u), o) /\ ~ NoneOf(toServer'[s], Asks(s, u))
        BY <1>6, <1>8, <2>2, <4>1, AppendLast
      <4> QED
        BY <4>1, <4>2 DEF RequestsRemembered, LastOf, NoneOf, Asks
    <3>2. CASE u # t
      <4>1. o \notin Asks(s, u) /\ have'[u] = have[u]
        BY <1>6, <2>2, <3>2
      <4>2. PICK x : x = Subscription(s, u, want[u], have[u])
        OBVIOUS
      <4>3. LastOf(toServer[s], Asks(s, u), x)
        BY <2>2, <4>2 DEF RequestsRemembered
      <4>4. /\ LastOf(toServer'[s], Asks(s, u), x)
            /\ NoneOf(toServer'[s], Asks(s, u)) => NoneOf(toServer[s], Asks(s, u))
        BY <1>6, <1>8, <2>2, <4>1, <4>3, AppendLast
      <4>5. Subscription(s, u, want'[u], have'[u]) = x
        BY <1>7, <4>1, <4>2
      <4> QED
        BY <1>7, <2>2, <4>1, <4>2, <4>4, <4>5 DEF RequestsRemembered
    <3> QED
      BY <3>1, <3>2
  <2> QED
    BY <2>9, <2>10
<1> QED
  BY <1>9, <1>11, <1>12, <1>13 DEF EndsInv

LEMMA AcceptResponseKeeps ==
    ASSUME MeshInv, AcceptResponse
    PROVE  EndsInv'
<1>1. using # Nil /\ toClient[using] # <<>> /\ UNCHANGED events
  BY DEF AcceptResponse
<1>2. PICK r : r = Head(toClient[using])
  OBVIOUS
<1>3. PICK mine : mine = [version |-> r.version, items |-> r.items, nonce |-> r.nonce]
  OBVIOUS
<1>4. TakeResponse(r.type, mine)
  BY <1>2, <1>3 DEF AcceptResponse
<1>5. MeshTypeOK /\ SidecarConsistent
  BY DEF MeshInv
<1>6. using \in Stream /\ toClient[using] \in Seq(Outgoing) /\ events' \in Nat
  BY <1>1, <1>5 DEF MeshTypeOK
<1>7. r \in Outgoing /\ 1 \in DOMAIN toClient[using] /\ r = toClient[using][1]
  BY <1>1, <1>2, <1>6, TailAt
<1>8. mine \in [version : Version, items : Items, nonce : Nat] /\ mine.nonce = r.nonce
  BY <1>3, <1>7 DEF Outgoing
<1>9. Copied(r.type, r)
  BY <1>5, <1>6, <1>7 DEF SidecarConsistent
<1>10. Copied(r.type, mine)
  BY <1>3, <1>9 DEF Copied
<1> QED
  BY <1>1, <1>2, <1>4, <1>6, <1>8, <1>10, TakeResponseKeeps

LEMMA RejectResponseKeeps ==
    ASSUME MeshInv, RejectResponse
    PROVE  EndsInv'
<1>1. using # Nil /\ toClient[using] # <<>> /\ events' = events + 1
  BY DEF RejectResponse
<1>2. PICK r : r = Head(toClient[using])
  OBVIOUS
<1>3. PICK mine : mine = [have[r.type] EXCEPT !.nonce = r.nonce]
  OBVIOUS
<1>4. TakeResponse(r.type, mine)
  BY <1>2, <1>3 DEF RejectResponse
<1>5. MeshTypeOK
  BY DEF MeshInv
<1>6. using \in Stream /\ toClient[using] \in Seq(Outgoing) /\ events' \in Nat
  BY <1>1, <1>5 DEF MeshTypeOK
<1>7. r \in Outgoing
  BY <1>1, <1>2, <1>6, TailAt
<1>8. r.type \in ResponseType /\ r.nonce \in Nat
  BY <1>7 DEF Outgoing
<1>9. have[r.type] \in [version : Version, items : Items, nonce : Nat]
  BY <1>5, <1>8 DEF MeshTypeOK
<1>10. /\ mine \in [version : Version, items : Items, nonce : Nat]
       /\ mine.nonce = r.nonce
       /\ mine.version = have[r.type].version /\ mine.items = have[r.type].items
  BY <1>3, <1>8, <1>9
<1> QED
  BY <1>1, <1>2, <1>4, <1>6, <1>10, TakeResponseKeeps

-----------------------------------------------------------------------------
(* Steps that leave the sidecar and the network alone.                     *)

(* A step that touches neither the sidecar nor the network: the reader has *)
(* nothing new to hand over, no request becomes pending, and a stream that *)
(* stays alive is as it was.                                               *)
LEMMA EndsFrame ==
    ASSUME MeshInv, StreamsOlder, UNCHANGED <<netVars, clientVars>>,
           updates' \in Nat, events' \in Nat,
           \A p \in Stream : reader'[p] = "offer" => reader[p] = "offer" /\ offered'[p] = offered[p],
           \A p \in Stream, t \in ResponseType :
              pending'[<<p, t>>] # Nil => pending'[<<p, t>>] = pending[<<p, t>>],
           \A p \in Stream : Live(p)' =>
              /\ Live(p) /\ reader'[p] = reader[p] /\ offered'[p] = offered[p]
              /\ \A t \in ResponseType : /\ pending'[<<p, t>>] = pending[<<p, t>>]
                                         /\ nonce'[<<p, t>>] = nonce[<<p, t>>]
    PROVE  EndsInv'
<1>1. MeshTypeOK /\ NoncesKnown /\ Conversation /\ WantsKept /\ SidecarConsistent
  BY DEF MeshInv
<1>2. /\ toServer' = toServer /\ toClient' = toClient
      /\ using' = using /\ want' = want /\ have' = have
  BY DEF netVars, clientVars
<1>3. MeshTypeOK'
  BY <1>1, <1>2 DEF MeshTypeOK
<1>4. RequestsCarried /\ ResponsesCarried
  BY <1>2 DEF RequestsCarried, ResponsesCarried
<1>5. NoncesKnown'
  <2>1. ASSUME using' # Nil, NEW t \in ResponseType PROVE have'[t].nonce <= streamNonce'[using']
    <3>1. using \in Stream /\ have[t].nonce <= streamNonce[using]
      BY <1>1, <1>2, <2>1 DEF NoncesKnown, MeshTypeOK
    <3>2. /\ streamNonce[using] \in Nat /\ streamNonce'[using] \in Nat
          /\ streamNonce[using] <= streamNonce'[using]
      BY <3>1 DEF StreamsOlder
    <3>3. have[t].nonce \in Nat
      BY <1>1 DEF MeshTypeOK
    <3> QED
      BY <1>2, <3>1, <3>2, <3>3
  <2> QED
    BY <1>1, <1>4, <2>1, NoncesKept
<1>6. WantsKept'
  <2>1. \A t \in ResponseType : Wants(t, want'[t])
    BY <1>1, <1>2 DEF WantsKept
  <2>2. \A p \in Stream : reader'[p] = "offer" => Asking(p, offered'[p])
    BY <1>1 DEF WantsKept
  <2>3. \A p \in Stream, t \in ResponseType : pending'[<<p, t>>] # Nil =>
           pending'[<<p, t>>].type = t /\ Wants(t, pending'[<<p, t>>].names)
    BY <1>1 DEF WantsKept
  <2> QED
    BY <1>1, <1>4, <2>1, <2>2, <2>3, WantsAreKept
<1>7. SidecarConsistent'
  <2>1. \A t \in ResponseType :
           \/ have'[t].version = NoVersion /\ have'[t].items = NoItems
           \/ Copied(t, have'[t])
    BY <1>1, <1>2 DEF SidecarConsistent
  <2> QED
    BY <1>1, <1>4, <2>1, ConsistencyKept
<1>8. Conversation'
  <2> SUFFICES ASSUME NEW p \in Stream, Live(p)'
               PROVE  (ResponsesInOrder(p) /\ \A t \in ResponseType : RequestsRemembered(p, t))'
    BY DEF Conversation
  <2>1. ResponsesInOrder(p) /\ \A t \in ResponseType : RequestsRemembered(p, t)
    BY <1>1 DEF Conversation
  <2>2. toServer'[p] = toServer[p] /\ toClient'[p] = toClient[p]
    BY <1>2
  <2> QED
    BY <1>2, <2>1, <2>2, ConversationFrame
<1> QED
  BY <1>1, <1>3, <1>5, <1>6, <1>7, <1>8 DEF EndsInv

LEMMA StillKeeps ==
    ASSUME MeshInv, UNCHANGED meshVars
    PROVE  EndsInv'
<1>1. StreamsOlder /\ MeshTypeOK
  BY StreamsGetOlder DEF MeshInv
<1>2. /\ UNCHANGED <<netVars, clientVars, xdsVars>> /\ updates' = updates /\ events' = events
  BY DEF meshVars, boundVars
<1>3. UNCHANGED <<using, proc, reader, conn, offered, pending, nonce>>
  BY <1>2, ServerStill DEF clientVars
<1>4. updates' \in Nat /\ events' \in Nat
  BY <1>1, <1>2 DEF MeshTypeOK
<1>5. \A p \in Stream : Live(p)' => Live(p)
  BY <1>3 DEF Live
<1> QED
  BY <1>1, <1>2, <1>3, <1>4, <1>5, EndsFrame

LEMMA RestartKeeps ==
    ASSUME MeshInv, Restart
    PROVE  EndsInv'
<1>1. StreamsOlder /\ MeshTypeOK /\ XdsTypeOK
  BY StreamsGetOlder DEF MeshInv, MeshNext, StreamInv, XdsInv
<1>2. UNCHANGED <<netVars, clientVars>> /\ updates' = updates /\ events' = events + 1
  BY DEF Restart
<1>3. updates' \in Nat /\ events' \in Nat
  BY <1>1, <1>2 DEF MeshTypeOK
<1>4. \A p \in Stream : reader'[p] \in {"idle", "stopped"} /\ proc'[p] \in {"idle", "stopped"}
  BY DEF Restart
<1>5. \A p \in Stream, t \in ResponseType : pending'[<<p, t>>] = Nil
  BY XdsAssumption DEF Restart
<1>6. \A p \in Stream : ~ Live(p)'
  BY <1>4 DEF Live
<1> QED
  BY <1>1, <1>2, <1>3, <1>4, <1>5, <1>6, EndsFrame

LEMMA PublishUpdateKeeps ==
    ASSUME MeshInv, NEW snapshot \in Snapshots, PublishUpdate(snapshot)
    PROVE  EndsInv'
<1>1. StreamsOlder /\ MeshTypeOK
  BY StreamsGetOlder DEF MeshInv, MeshNext
<1>2. /\ UNCHANGED <<netVars, clientVars, serverVars>> /\ events' = events
      /\ updates' \in {updates, updates + 1}
  BY DEF PublishUpdate, UpdateSnapshot
<1>3. UNCHANGED <<using, proc, reader, conn, offered, pending, nonce>>
  BY <1>2 DEF clientVars, serverVars, procVars, readerVars
<1>4. updates' \in Nat /\ events' \in Nat
  BY <1>1, <1>2 DEF MeshTypeOK
<1>5. \A p \in Stream : Live(p)' => Live(p)
  BY <1>3 DEF Live
<1> QED
  BY <1>1, <1>2, <1>3, <1>4, <1>5, EndsFrame

(* The reader leaves, or the transport breaks.                             *)
LEMMA StreamEndKeeps ==
    ASSUME MeshInv, NEW s \in Stream, ReaderEnds(s) \/ Break(s)
    PROVE  EndsInv'
<1>1. StreamsOlder /\ MeshTypeOK /\ XdsTypeOK
  BY StreamsGetOlder DEF MeshInv, MeshNext, StreamInv, XdsInv
<1>2. /\ UNCHANGED <<netVars, clientVars, boundVars, procVars, offered>>
      /\ \/ reader' = [reader EXCEPT ![s] = "stopped"] /\ conn' = conn
         \/ conn' = [conn EXCEPT ![s] = "lost"] /\ reader' = reader
  BY DEF ReaderEnds, Break, RecvError, Disconnect, readerVars
<1>3. UNCHANGED <<using, proc, offered, pending, nonce, updates, events>>
  BY <1>2 DEF clientVars, procVars, boundVars
<1>4. updates' \in Nat /\ events' \in Nat
  BY <1>1, <1>3 DEF MeshTypeOK
<1>5. \A p \in Stream : /\ Live(p)' => Live(p) /\ reader'[p] = reader[p]
                        /\ reader'[p] = "offer" => reader[p] = "offer"
  BY <1>1, <1>2, <1>3 DEF Live, XdsTypeOK
<1> QED
  BY <1>1, <1>2, <1>3, <1>4, <1>5, EndsFrame

(* The sidecar gives its stream up, and what is on its way is lost.        *)
LEMMA NoticeLossKeeps ==
    ASSUME MeshInv, NoticeLoss
    PROVE  EndsInv'
<1>1. StreamsOlder /\ MeshTypeOK /\ NoncesKnown /\ WantsKept /\ SidecarConsistent
  BY StreamsGetOlder DEF MeshInv, MeshNext
<1>2. PICK s \in Stream : s = using
  BY <1>1 DEF MeshTypeOK, NoticeLoss
<1>3. /\ using' = Nil /\ want' = want /\ have' = have
      /\ toServer' = [toServer EXCEPT ![s] = <<>>]
      /\ toClient' = [toClient EXCEPT ![s] = <<>>]
      /\ UNCHANGED <<xdsVars, boundVars>>
  BY <1>2 DEF NoticeLoss
<1>4. UNCHANGED <<proc, reader, offered, pending, updates, events>>
  BY <1>3, ServerStill DEF boundVars
<1>5. MeshTypeOK'
  <2>1. <<>> \in Seq(Incoming) /\ <<>> \in Seq(Outgoing)
    OBVIOUS
  <2> QED
    BY <1>1, <1>3, <1>4, <2>1 DEF MeshTypeOK
<1>6. \A p \in Stream : /\ toServer'[p] \in {toServer[p], <<>>}
                        /\ toClient'[p] \in {toClient[p], <<>>}
  BY <1>1, <1>3 DEF MeshTypeOK
<1>7. RequestsCarried /\ ResponsesCarried
  BY <1>6 DEF RequestsCarried, ResponsesCarried
<1>8. NoncesKnown'
  BY <1>1, <1>3, <1>7, NoncesKept
<1>9. WantsKept'
  <2>1. /\ \A t \in ResponseType : Wants(t, want'[t])
        /\ \A p \in Stream : reader'[p] = "offer" => Asking(p, offered'[p])
        /\ \A p \in Stream, t \in ResponseType : pending'[<<p, t>>] # Nil =>
              pending'[<<p, t>>].type = t /\ Wants(t, pending'[<<p, t>>].names)
    BY <1>1, <1>3, <1>4 DEF WantsKept
  <2> QED
    BY <1>1, <1>7, <2>1, WantsAreKept
<1>10. SidecarConsistent'
  <2>1. \A t \in ResponseType :
           \/ have'[t].version = NoVersion /\ have'[t].items = NoItems
           \/ Copied(t, have'[t])
    BY <1>1, <1>3 DEF SidecarConsistent
  <2> QED
    BY <1>1, <1>7, <2>1, ConsistencyKept
<1>11. Conversation'
  BY <1>3, MeshAssumption DEF Conversation, Live
<1> QED
  BY <1>5, <1>8, <1>9, <1>10, <1>11 DEF EndsInv

(* The sidecar asks for one more name.                                     *)
LEMMA AddNameKeeps ==
    ASSUME MeshInv, NEW t \in ResponseType, NEW n \in Name, AddName(t, n)
    PROVE  EndsInv'
<1>1. /\ StreamsOlder /\ MeshTypeOK /\ NoncesKnown /\ Conversation
      /\ WantsKept /\ SidecarConsistent
  BY StreamsGetOlder DEF MeshInv, MeshNext
<1>2. PICK s \in Stream : s = using
  BY <1>1 DEF MeshTypeOK, AddName
<1>3. PICK names : names = want[t] \cup {n}
  OBVIOUS
<1>4. PICK mine : mine = have[t]
  OBVIOUS
<1>5. /\ names \in SUBSET Name /\ mine \in [version : Version, items : Items, nonce : Nat]
      /\ toServer[s] \in Seq(Incoming)
  BY <1>1, <1>3, <1>4 DEF MeshTypeOK
<1>6. PICK o : o = Subscription(s, t, names, mine)
  OBVIOUS
<1>7. /\ o \in Incoming /\ o.nonce = mine.nonce /\ o.msg.names = names
      /\ \A u : o \in Asks(s, u) <=> u = t
  <2>1. /\ Subscription(s, t, names, mine) \in Incoming
        /\ Subscription(s, t, names, mine).nonce = mine.nonce
        /\ Subscription(s, t, names, mine).msg.names = names
        /\ \A u : Subscription(s, t, names, mine) \in Asks(s, u) <=> u = t
    BY ONLY <1>5, s \in Stream, t \in ResponseType, SubscriptionKnown, Zenon
  <2> QED
    BY <1>6, <2>1
<1>8. want' = [want EXCEPT ![t] = names] /\ want'[t] = names
  BY <1>1, <1>3 DEF AddName, MeshTypeOK
<1>9. /\ toServer' = [toServer EXCEPT ![s] = Append(toServer[s], o)]
      /\ UNCHANGED <<xdsVars, toClient, using, have, updates>> /\ events' = events + 1
  BY <1>2, <1>4, <1>6, <1>8 DEF AddName
<1>10. UNCHANGED <<proc, reader, conn, offered, pending, nonce, streamNonce>>
  BY <1>9, ServerStill
<1>11. /\ Append(toServer[s], o) \in Seq(Incoming) /\ toServer'[s] = Append(toServer[s], o)
       /\ \A p \in Stream : p # s => toServer'[p] = toServer[p]
       /\ \A u \in ResponseType : u # t => want'[u] = want[u]
  BY <1>1, <1>5, <1>7, <1>8, <1>9, AppendAt DEF MeshTypeOK
<1>12. MeshTypeOK'
  BY <1>1, <1>5, <1>8, <1>9, <1>11 DEF MeshTypeOK
<1>13. Wants(t, names)
  BY <1>1, <1>3 DEF WantsKept, Wants, AddName
<1>14. RequestsCarried /\ ResponsesCarried
  <2>1. o.nonce <= streamNonce'[s] /\ Asking(s, o)
    <3>1. o.nonce <= streamNonce[s]
      BY <1>1, <1>2, <1>4, <1>7, MeshAssumption DEF NoncesKnown
    <3> QED
      BY <1>7, <1>10, <1>13, <3>1 DEF Asking
  <2>2. ASSUME NEW p \in Stream, NEW i \in DOMAIN toServer'[p]
        PROVE  \/ \E j \in DOMAIN toServer[p] : toServer'[p][i] = toServer[p][j]
               \/ toServer'[p][i].nonce <= streamNonce'[p] /\ Asking(p, toServer'[p][i])
    <3>1. CASE p = s
      <4>1. toServer'[p][i] = o \/ (i \in DOMAIN toServer[p] /\ toServer'[p][i] = toServer[p][i])
        BY <1>5, <1>7, <1>11, <3>1, AppendAt
      <4> QED
        BY <2>1, <3>1, <4>1
    <3>2. CASE p # s
      BY <1>11, <3>2
    <3> QED
      BY <3>1, <3>2
  <2> QED
    BY <1>9, <2>2 DEF RequestsCarried, ResponsesCarried
<1>15. NoncesKnown'
  <2>1. using' # Nil => \A u \in ResponseType : have'[u].nonce <= streamNonce'[using']
    BY <1>1, <1>9, <1>10 DEF NoncesKnown
  <2> QED
    BY <1>1, <1>14, <2>1, NoncesKept
<1>16. WantsKept'
  <2>1. \A u \in ResponseType : Wants(u, want'[u])
    BY <1>1, <1>8, <1>11, <1>13 DEF WantsKept
  <2>2. /\ \A p \in Stream : reader'[p] = "offer" => Asking(p, offered'[p])
        /\ \A p \in Stream, u \in ResponseType : pending'[<<p, u>>] # Nil =>
              pending'[<<p, u>>].type = u /\ Wants(u, pending'[<<p, u>>].names)
    BY <1>1, <1>10 DEF WantsKept
  <2> QED
    BY <1>1, <1>14, <2>1, <2>2, WantsAreKept
<1>17. SidecarConsistent'
  <2>1. \A u \in ResponseType :
           \/ have'[u].version = NoVersion /\ have'[u].items = NoItems
           \/ Copied(u, have'[u])
    BY <1>1, <1>9 DEF SidecarConsistent
  <2> QED
    BY <1>1, <1>14, <2>1, ConsistencyKept
<1>18. Conversation'
  <2> SUFFICES ASSUME Live(s)'
               PROVE  (ResponsesInOrder(s) /\ \A u \in ResponseType : RequestsRemembered(s, u))'
    BY <1>2, <1>9 DEF Conversation, Live
  <2>1. Live(s)
    BY <1>9, <1>10 DEF Live
  <2>2. ResponsesInOrder(s) /\ \A u \in ResponseType : RequestsRemembered(s, u)
    BY <1>1, <2>1 DEF Conversation
  <2>3. ResponsesInOrder(s)'
    BY <1>9, <1>10, <2>2 DEF ResponsesInOrder
  <2>4. ASSUME NEW u \in ResponseType PROVE RequestsRemembered(s, u)'
    <3>1. CASE u = t
      <4>1. o \in Asks(s, u) /\ Subscription(s, u, want'[u], have'[u]) = o
        BY <1>4, <1>6, <1>7, <1>8, <1>9, <3>1
      <4>2. LastOf(toServer'[s], Asks(s, u), o) /\ ~ NoneOf(toServer'[s], Asks(s, u))
        BY <1>5, <1>7, <1>11, <4>1, AppendLast
      <4> QED
        BY <4>1, <4>2 DEF RequestsRemembered, LastOf, NoneOf, Asks
    <3>2. CASE u # t
      <4>1. o \notin Asks(s, u)
        BY <1>7, <3>2
      <4>2. PICK x : x = Subscription(s, u, want[u], have[u])
        OBVIOUS
      <4>3. LastOf(toServer[s], Asks(s, u), x)
        BY <2>2, <4>2 DEF RequestsRemembered
      <4>4. /\ LastOf(toServer'[s], Asks(s, u), x)
            /\ NoneOf(toServer'[s], Asks(s, u)) => NoneOf(toServer[s], Asks(s, u))
        BY <1>5, <1>7, <1>11, <4>1, <4>3, AppendLast
      <4>5. Subscription(s, u, want'[u], have'[u]) = x /\ have'[u] = have[u]
        BY <1>9, <1>11, <3>2, <4>2
      <4> QED
        BY <1>10, <2>2, <4>2, <4>4, <4>5 DEF RequestsRemembered
    <3> QED
      BY <3>1, <3>2
  <2> QED
    BY <2>3, <2>4
<1> QED
  BY <1>12, <1>15, <1>16, <1>17, <1>18 DEF EndsInv

(* The reader receives the next request of the sidecar.                    *)
LEMMA ArriveKeeps ==
    ASSUME MeshInv, NEW s \in Stream, Arrive(s)
    PROVE  EndsInv'
<1>1. /\ StreamsOlder /\ MeshTypeOK /\ NoncesKnown /\ Conversation
      /\ WantsKept /\ SidecarConsistent /\ XdsTypeOK
  BY StreamsGetOlder DEF MeshInv, MeshNext, StreamInv, XdsInv
<1>2. PICK q \in Seq(Incoming) : q = toServer[s] /\ q # <<>>
  BY <1>1 DEF MeshTypeOK, Arrive
<1>3. PICK o : o = Head(q)
  OBVIOUS
<1>4. o \in Incoming /\ 1 \in DOMAIN q /\ o = q[1] /\ Tail(q) \in Seq(Incoming)
  BY <1>2, <1>3, TailAt
<1>5. [msg |-> o.msg, nonce |-> o.nonce] = o
  BY <1>4 DEF Incoming
<1>6. /\ reader[s] = "recv" /\ UNCHANGED <<procVars, conn>>
      /\ \/ reader' = [reader EXCEPT ![s] = "stopped"] /\ offered' = offered
         \/ /\ reader' = [reader EXCEPT ![s] = "offer"]
            /\ offered' = [offered EXCEPT ![s] = o]
      /\ toServer' = [toServer EXCEPT ![s] = Tail(q)]
      /\ UNCHANGED <<toClient, clientVars, boundVars>>
  BY <1>2, <1>3, <1>5 DEF Arrive, Recv
<1>7. UNCHANGED <<proc, conn, pending, nonce, streamNonce, using, want, have, updates, events>>
  BY <1>6 DEF procVars, clientVars, boundVars
<1>8. /\ toServer'[s] = Tail(q)
      /\ reader'[s] = "stopped" \/ (reader'[s] = "offer" /\ offered'[s] = o)
      /\ \A p \in Stream : p # s => /\ toServer'[p] = toServer[p]
                                    /\ reader'[p] = reader[p] /\ offered'[p] = offered[p]
  BY <1>1, <1>6 DEF MeshTypeOK, XdsTypeOK
<1>9. MeshTypeOK'
  BY <1>1, <1>4, <1>6, <1>7 DEF MeshTypeOK
<1>10. RequestsCarried /\ ResponsesCarried
  <2>1. ASSUME NEW p \in Stream, NEW i \in DOMAIN toServer'[p]
        PROVE  \E j \in DOMAIN toServer[p] : toServer'[p][i] = toServer[p][j]
    <3>1. CASE p = s
      <4>1. i \in DOMAIN Tail(q) /\ toServer'[p][i] = Tail(q)[i]
        BY <1>8, <3>1
      <4>2. i + 1 \in DOMAIN q /\ Tail(q)[i] = q[i + 1]
        BY <1>2, <4>1, TailAt
      <4> QED
        BY <1>2, <3>1, <4>1, <4>2
    <3>2. CASE p # s
      BY <1>8, <3>2
    <3> QED
      BY <3>1, <3>2
  <2> QED
    BY <1>6, <2>1 DEF RequestsCarried, ResponsesCarried
<1>11. NoncesKnown'
  <2>1. using' # Nil => \A u \in ResponseType : have'[u].nonce <= streamNonce'[using']
    BY <1>1, <1>7 DEF NoncesKnown
  <2> QED
    BY <1>1, <1>10, <2>1, NoncesKept
<1>12. WantsKept'
  <2>1. /\ \A u \in ResponseType : Wants(u, want'[u])
        /\ \A p \in Stream, u \in ResponseType : pending'[<<p, u>>] # Nil =>
              pending'[<<p, u>>].type = u /\ Wants(u, pending'[<<p, u>>].names)
    BY <1>1, <1>7 DEF WantsKept
  <2>2. Asking(s, o)
    BY <1>1, <1>2, <1>4 DEF WantsKept
  <2>3. \A p \in Stream : reader'[p] = "offer" => Asking(p, offered'[p])
    BY <1>1, <1>8, <2>2 DEF WantsKept
  <2> QED
    BY <1>1, <1>10, <2>1, <2>3, WantsAreKept
<1>13. SidecarConsistent'
  <2>1. \A u \in ResponseType :
           \/ have'[u].version = NoVersion /\ have'[u].items = NoItems
           \/ Copied(u, have'[u])
    BY <1>1, <1>7 DEF SidecarConsistent
  <2> QED
    BY <1>1, <1>10, <2>1, ConsistencyKept
<1>14. Conversation'
  <2> SUFFICES ASSUME NEW p \in Stream, Live(p)'
               PROVE  (ResponsesInOrder(p) /\ \A u \in ResponseType : RequestsRemembered(p, u))'
    BY DEF Conversation
  <2>1. Live(p)
    BY <1>6, <1>7, <1>8 DEF Live
  <2>2. ResponsesInOrder(p) /\ \A u \in ResponseType : RequestsRemembered(p, u)
    BY <1>1, <2>1 DEF Conversation
  <2>3. CASE p # s
    <3>1. /\ toServer'[p] = toServer[p] /\ toClient'[p] = toClient[p]
          /\ reader'[p] = reader[p] /\ offered'[p] = offered[p]
      BY <1>6, <1>8, <2>3
    <3> QED
      BY <1>7, <2>2, <3>1, ConversationFrame
  <2>4. CASE p = s
    <3>1. reader'[s] = "offer" /\ offered'[s] = o
      BY <1>8, <2>4 DEF Live
    <3>2. ResponsesInOrder(s)'
      BY <1>6, <1>7, <2>2, <2>4 DEF ResponsesInOrder
    <3>3. ASSUME NEW u \in ResponseType PROVE RequestsRemembered(s, u)'
      <4>1. PICK x : x = Subscription(s, u, want[u], have[u])
        OBVIOUS
      <4>2. /\ LastOf(q, Asks(s, u), x)
            /\ NoneOf(q, Asks(s, u)) => (have[u].nonce = nonce[<<s, u>>] =>
                  pending[<<s, u>>] = WithType(x.msg, StreamType[s]))
        BY <1>2, <1>6, <2>2, <2>4, <4>1 DEF RequestsRemembered
      <4>3. /\ LastOf(Tail(q), Asks(s, u), x)
            /\ NoneOf(Tail(q), Asks(s, u)) /\ o \in Asks(s, u) => o = x
            /\ NoneOf(Tail(q), Asks(s, u)) /\ o \notin Asks(s, u) => NoneOf(q, Asks(s, u))
        BY <1>2, <1>3, <4>2, TailLast
      <4>4. Subscription(s, u, want'[u], have'[u]) = x
        BY <1>7, <4>1
      <4>5. CASE o \in Asks(s, u)
        BY <1>8, <3>1, <4>3, <4>4, <4>5 DEF RequestsRemembered
      <4>6. CASE o \notin Asks(s, u)
        BY <1>7, <1>8, <3>1, <4>2, <4>3, <4>4, <4>6 DEF RequestsRemembered
      <4> QED
        BY <4>5, <4>6
    <3> QED
      BY <2>4, <3>2, <3>3
  <2> QED
    BY <2>3, <2>4
<1> QED
  BY <1>9, <1>11, <1>12, <1>13, <1>14 DEF EndsInv

(* The sidecar repeats its subscriptions on a new stream.                  *)
LEMMA ConnectKeeps ==
    ASSUME MeshInv, Connect
    PROVE  EndsInv'
<1>1. /\ StreamsOlder /\ MeshTypeOK /\ NoncesKnown /\ WantsKept /\ SidecarConsistent
      /\ XdsTypeOK /\ NoncesIdentify
  BY StreamsGetOlder DEF MeshInv, MeshNext, StreamInv, XdsInv, SlotInv
<1>2. PICK s : s = CHOOSE r \in Stream : proc[r] = "idle"
  OBVIOUS
<1>3. PICK mine : mine = [t \in ResponseType |-> [have[t] EXCEPT !.nonce = 0]]
  OBVIOUS
<1>4. PICK names : names = want
  OBVIOUS
<1>5. PICK q : q = [i \in DOMAIN CancelOrder |->
                      Subscription(s, CancelOrder[i], names[CancelOrder[i]], mine[CancelOrder[i]])]
  OBVIOUS
<1>6. s \in Stream /\ OpenStream(s) /\ using' = s /\ have' = mine
  BY <1>2, <1>3 DEF Connect
<1>7. /\ toServer' = [toServer EXCEPT ![s] = q]
      /\ UNCHANGED <<toClient, want, updates, events>>
  BY <1>2, <1>4, <1>5, <1>6 DEF Connect, boundVars
<1>8. /\ proc[s] = "idle" /\ reader' = [reader EXCEPT ![s] = "recv"]
      /\ UNCHANGED <<offered, pending, nonce, streamNonce>>
  BY <1>6 DEF OpenStream
<1>9. ASSUME NEW t \in ResponseType
      PROVE  /\ mine[t] \in [version : Version, items : Items, nonce : Nat]
             /\ mine[t].version = have[t].version /\ mine[t].items = have[t].items
             /\ mine[t].nonce = 0
             /\ names[t] \in SUBSET Name
  <2>1. have[t] \in [version : Version, items : Items, nonce : Nat] /\ want[t] \in SUBSET Name
    BY <1>1 DEF MeshTypeOK
  <2>2. mine[t] = [have[t] EXCEPT !.nonce = 0]
    BY <1>3
  <2> QED
    BY <1>4, <2>1, <2>2
<1>10. ASSUME NEW i \in DOMAIN CancelOrder, NEW t \in ResponseType, t = CancelOrder[i]
       PROVE  /\ q[i] = Subscription(s, t, names[t], mine[t])
              /\ q[i] \in Incoming /\ q[i].nonce = 0 /\ q[i].msg.names = names[t]
              /\ \A u : q[i] \in Asks(s, u) <=> u = t
  <2>1. q[i] = Subscription(s, t, names[t], mine[t])
    BY <1>5, <1>10
  <2>2. /\ mine[t] \in [version : Version, items : Items, nonce : Nat]
        /\ names[t] \in SUBSET Name
    BY <1>9
  <2>3. /\ Subscription(s, t, names[t], mine[t]) \in Incoming
        /\ Subscription(s, t, names[t], mine[t]).nonce = mine[t].nonce
        /\ Subscription(s, t, names[t], mine[t]).msg.names = names[t]
        /\ \A u : Subscription(s, t, names[t], mine[t]) \in Asks(s, u) <=> u = t
    BY ONLY <2>2, <1>6, t \in ResponseType, SubscriptionKnown, Zenon
  <2> QED
    BY <1>9, <2>1, <2>3
<1>11. /\ DOMAIN CancelOrder = 1..Len(CancelOrder) /\ Len(CancelOrder) \in Nat
       /\ \A i \in DOMAIN CancelOrder : CancelOrder[i] \in ResponseType
       /\ \A t \in ResponseType : \E i \in DOMAIN CancelOrder : CancelOrder[i] = t
  BY XdsAssumption
<1>12. DOMAIN q = DOMAIN CancelOrder /\ q \in Seq(Incoming)
  <2>1. DOMAIN q = DOMAIN CancelOrder /\ q = [i \in DOMAIN CancelOrder |-> q[i]]
    BY <1>5
  <2>2. \A i \in DOMAIN CancelOrder : q[i] \in Incoming
    BY <1>10, <1>11
  <2>3. q \in [1..Len(CancelOrder) -> Incoming]
    BY <1>11, <2>1, <2>2
  <2> QED
    BY <1>11, <2>1, <2>3
<1>13. /\ toServer'[s] = q /\ toClient[s] = <<>> /\ streamNonce[s] = 0
       /\ \A p \in Stream : p # s => toServer'[p] = toServer[p]
  BY <1>1, <1>6, <1>7, <1>8 DEF MeshTypeOK, NoncesKnown
<1>14. MeshTypeOK'
  <2>1. have' \in [ResponseType -> [version : Version, items : Items, nonce : Nat]]
    BY <1>3, <1>6, <1>9
  <2> QED
    BY <1>1, <1>6, <1>7, <1>12, <2>1 DEF MeshTypeOK
<1>15. RequestsCarried /\ ResponsesCarried
  <2>1. ASSUME NEW i \in DOMAIN q PROVE q[i].nonce <= streamNonce'[s] /\ Asking(s, q[i])
    <3>1. PICK t \in ResponseType : t = CancelOrder[i]
      BY <1>11, <1>12
    <3>2. /\ q[i] \in Asks(s, t) /\ q[i].nonce = 0 /\ q[i].msg.names = want[t]
      BY <1>4, <1>10, <1>12, <3>1
    <3>3. Wants(t, want[t])
      BY <1>1 DEF WantsKept
    <3> QED
      BY <1>8, <1>13, <3>2, <3>3 DEF Asking
  <2> QED
    BY <1>7, <1>13, <2>1 DEF RequestsCarried, ResponsesCarried
<1>16. NoncesKnown'
  <2>1. \A t \in ResponseType : have'[t].nonce <= streamNonce'[using']
    BY <1>6, <1>8, <1>9, <1>13
  <2> QED
    BY <1>1, <1>15, <2>1, NoncesKept
<1>17. WantsKept'
  <2>1. /\ \A t \in ResponseType : Wants(t, want'[t])
        /\ \A p \in Stream, t \in ResponseType : pending'[<<p, t>>] # Nil =>
              pending'[<<p, t>>].type = t /\ Wants(t, pending'[<<p, t>>].names)
    BY <1>1, <1>7, <1>8 DEF WantsKept
  <2>2. \A p \in Stream : reader'[p] = "offer" => Asking(p, offered'[p])
    BY <1>1, <1>6, <1>8 DEF WantsKept, XdsTypeOK
  <2> QED
    BY <1>1, <1>15, <2>1, <2>2, WantsAreKept
<1>18. SidecarConsistent'
  <2>1. ASSUME NEW t \in ResponseType
        PROVE  \/ have'[t].version = NoVersion /\ have'[t].items = NoItems
               \/ Copied(t, have'[t])
    BY <1>1, <1>6, <1>9 DEF SidecarConsistent, Copied
  <2> QED
    BY <1>1, <1>15, <2>1, ConsistencyKept
<1>19. Conversation'
  <2> SUFFICES (ResponsesInOrder(s) /\ \A u \in ResponseType : RequestsRemembered(s, u))'
    BY <1>6 DEF Conversation, Live
  <2>1. toClient'[s] = <<>> /\ nonce' = nonce /\ DOMAIN <<>> = {}
    BY <1>7, <1>8, <1>13
  <2>2. \A u \in ResponseType : have'[u].nonce = nonce[<<s, u>>]
    <3>1. ASSUME NEW u \in ResponseType PROVE nonce[<<s, u>>] = 0
      <4>1. nonce[<<s, u>>] \in Nat /\ nonce[<<s, u>>] <= streamNonce[s]
        BY <1>1, <1>6, XdsAssumption DEF XdsTypeOK, NoncesIdentify
      <4> QED
        BY <1>13, <4>1
    <3> QED
      BY <1>6, <1>9, <3>1
  <2>3. ResponsesInOrder(s)'
    BY <2>1, <2>2 DEF ResponsesInOrder
  <2>4. ASSUME NEW u \in ResponseType PROVE RequestsRemembered(s, u)'
    <3>1. PICK x : x = Subscription(s, u, names[u], mine[u])
      OBVIOUS
    <3>2. Subscription(s, u, want'[u], have'[u]) = x
      BY <1>4, <1>6, <1>7, <3>1
    <3>3. ASSUME NEW i \in DOMAIN q, q[i] \in Asks(s, u) PROVE q[i] = x
      <4>1. PICK t \in ResponseType : t = CancelOrder[i]
        BY <1>11, <1>12
      <4> QED
        BY <1>10, <1>12, <3>1, <3>3, <4>1
    <3>4. LastOf(q, Asks(s, u), x)
      BY <3>3 DEF LastOf
    <3>5. PICK i \in DOMAIN CancelOrder : CancelOrder[i] = u
      BY <1>11
    <3>6. ~ NoneOf(q, Asks(s, u))
      BY <1>10, <1>12, <3>5 DEF NoneOf
    <3> QED
      BY <1>13, <3>2, <3>4, <3>6 DEF RequestsRemembered, LastOf, NoneOf, Asks
  <2> QED
    BY <2>3, <2>4
<1> QED
  BY <1>14, <1>16, <1>17, <1>18, <1>19 DEF EndsInv

-----------------------------------------------------------------------------
(* The steps of process.                                                   *)

(* Without a new nonce no response is on its way.                          *)
LEMMA ServeSilently ==
    ASSUME MeshInv, NEW s \in Stream, Serve(s), nonce' = nonce
    PROVE  /\ UNCHANGED <<netVars, clientVars>>
           /\ updates' = updates /\ events' = events
           /\ updates' \in Nat /\ events' \in Nat
<1>1. MeshTypeOK
  BY DEF MeshInv
<1>2. toClient' = [toClient EXCEPT ![s] = toClient[s]]
  BY DEF Serve
<1>3. toClient' = toClient
  BY <1>1, <1>2 DEF MeshTypeOK
<1>4. UNCHANGED <<toServer, clientVars, boundVars>>
  BY DEF Serve
<1> QED
  BY <1>1, <1>3, <1>4 DEF netVars, boundVars, MeshTypeOK

(* process ends the stream, or works on its end.                           *)
LEMMA ServeEndKeeps ==
    ASSUME MeshInv, NEW s \in Stream, Serve(s),
           \/ RefuseRequest(s) \/ InputEnded(s) \/ CancelNext(s)
           \/ ProcessReturns(s) \/ HandlerReturns(s)
           \/ \E u \in ResponseType : SendError(s, u)
    PROVE  EndsInv'
<1>1. StreamsOlder /\ MeshTypeOK /\ XdsTypeOK
  BY StreamsGetOlder DEF MeshInv, MeshNext, StreamInv, XdsInv
<1>2. /\ UNCHANGED <<nonce, pending, conn>>
      /\ \/ UNCHANGED <<reader, offered>>
         \/ /\ reader' = [reader EXCEPT ![s] = "recv"]
            /\ offered' = [offered EXCEPT ![s] = Nil]
      /\ \/ \E x \in {"closing", "returned", "stopped"} : proc' = [proc EXCEPT ![s] = x]
         \/ proc' = proc /\ proc[s] = "closing"
  BY DEF RefuseRequest, FromReader, InputEnded, CancelNext, ProcessReturns, HandlerReturns,
     SendError, readerVars
<1>3. /\ UNCHANGED <<netVars, clientVars>> /\ using' = using
      /\ updates' \in Nat /\ events' \in Nat
  BY <1>2, ServeSilently DEF clientVars
<1>4. /\ ~ Live(s)' /\ (reader'[s] = "offer" => reader[s] = "offer" /\ offered'[s] = offered[s])
      /\ \A p \in Stream : p # s =>
            proc'[p] = proc[p] /\ reader'[p] = reader[p] /\ offered'[p] = offered[p]
  BY <1>1, <1>2 DEF Live, XdsTypeOK
<1>5. \A p \in Stream : Live(p)' => Live(p) /\ reader'[p] = reader[p] /\ offered'[p] = offered[p]
  BY <1>2, <1>3, <1>4 DEF Live
<1>6. \A p \in Stream : reader'[p] = "offer" => reader[p] = "offer" /\ offered'[p] = offered[p]
  BY <1>4
<1> QED
  BY <1>1, <1>2, <1>3, <1>5, <1>6, EndsFrame

(* The watch of an accepted request is created.                            *)
LEMMA ServeCreateKeeps ==
    ASSUME MeshInv, NEW s \in Stream, Serve(s), CreateRequested(s)
    PROVE  EndsInv'
<1>1. StreamsOlder /\ MeshTypeOK /\ XdsTypeOK
  BY StreamsGetOlder DEF MeshInv, MeshNext, StreamInv, XdsInv
<1>2. /\ UNCHANGED <<nonce, pending, conn, reader, offered>>
      /\ proc[s] = "create" /\ proc' = [proc EXCEPT ![s] = "select"]
  BY DEF CreateRequested, readerVars
<1>3. /\ UNCHANGED <<netVars, clientVars>> /\ using' = using
      /\ updates' \in Nat /\ events' \in Nat
  BY <1>2, ServeSilently DEF clientVars
<1>4. \A p \in Stream : Live(p)' => Live(p)
  BY <1>1, <1>2, <1>3 DEF Live, XdsTypeOK
<1> QED
  BY <1>1, <1>2, <1>3, <1>4, EndsFrame

(* process takes a request from the reader and ignores it as outdated, or  *)
(* it becomes the pending one.                                             *)
LEMMA ServeRequestKeeps ==
    ASSUME MeshInv, NEW s \in Stream, Serve(s), IgnoreRequest(s) \/ AcceptRequest(s)
    PROVE  EndsInv'
<1>1. /\ StreamsOlder /\ MeshTypeOK /\ NoncesKnown /\ Conversation /\ WantsKept
      /\ SidecarConsistent /\ XdsTypeOK /\ Handover
  BY StreamsGetOlder DEF MeshInv, MeshNext, StreamInv, XdsInv
<1>2. PICK o : o = offered[s]
  OBVIOUS
<1>3. PICK request : request = WithType(o.msg, StreamType[s])
  OBVIOUS
<1>4. /\ reader[s] = "offer" /\ ~ Malformed(s, o.msg)
      /\ reader' = [reader EXCEPT ![s] = "recv"] /\ offered' = [offered EXCEPT ![s] = Nil]
      /\ UNCHANGED <<nonce, conn, streamNonce>> /\ proc[s] = "select"
  BY <1>2 DEF IgnoreRequest, AcceptRequest, FromReader, procVars
<1>5. \/ ~ Accepts(s, request.type, o.nonce) /\ UNCHANGED <<proc, pending>>
      \/ /\ Accepts(s, request.type, o.nonce)
         /\ proc' = [proc EXCEPT ![s] = "create"]
         /\ pending' = [pending EXCEPT ![<<s, request.type>>] = request]
  BY <1>2, <1>3 DEF IgnoreRequest, AcceptRequest, procVars
<1>6. o \in Incoming /\ \A u : o \in Asks(s, u) <=> u = request.type
  <2>1. o \in Offer /\ o.msg # Nil
    BY <1>1, <1>2, <1>4 DEF XdsTypeOK, Handover, Malformed
  <2>2. o.msg \in Messages /\ o \in Incoming
    BY <2>1 DEF Offer, Incoming
  <2> QED
    BY <1>3, <2>2 DEF Asks
<1>7. /\ UNCHANGED <<netVars, clientVars>> /\ updates' \in Nat /\ events' \in Nat
      /\ toServer' = toServer /\ toClient' = toClient
      /\ using' = using /\ want' = want /\ have' = have
  BY <1>4, ServeSilently DEF clientVars, netVars
<1>8. MeshTypeOK'
  BY <1>1, <1>7 DEF MeshTypeOK
<1>9. RequestsCarried /\ ResponsesCarried
  BY <1>7 DEF RequestsCarried, ResponsesCarried
<1>10. NoncesKnown'
  <2>1. using' # Nil => \A u \in ResponseType : have'[u].nonce <= streamNonce'[using']
    BY <1>1, <1>4, <1>7 DEF NoncesKnown
  <2> QED
    BY <1>1, <1>9, <2>1, NoncesKept
<1>11. ASSUME NEW p \in Stream, NEW u \in ResponseType
       PROVE  \/ pending'[<<p, u>>] = pending[<<p, u>>] /\ (p = s /\ u = request.type =>
                    ~ Accepts(s, request.type, o.nonce))
              \/ p = s /\ u = request.type /\ pending'[<<p, u>>] = request
  <2>1. pending \in [Caller -> Request \cup {Nil}] /\ <<p, u>> \in Caller
    BY <1>1, SlotIsCaller DEF XdsTypeOK
  <2>2. <<p, u>> = <<s, request.type>> <=> p = s /\ u = request.type
    BY SlotsDiffer
  <2> QED
    BY <1>5, <2>1, <2>2
<1>12. WantsKept'
  <2>1. \A u \in ResponseType : Wants(u, want'[u])
    BY <1>1, <1>7 DEF WantsKept
  <2>2. \A p \in Stream : reader'[p] = "offer" => Asking(p, offered'[p])
    BY <1>1, <1>4 DEF WantsKept, XdsTypeOK
  <2>3. request.type \in ResponseType => Wants(request.type, request.names)
    <3>1. Asking(s, o)
      BY <1>1, <1>2, <1>4 DEF WantsKept
    <3>2. Wants(request.type, o.msg.names)
      BY <1>6, <3>1 DEF Asking
    <3>3. o.msg.names = request.names
      <4>1. o.msg \in [node : Node \cup {Nil}, type : Type \cup {AnyType},
                       version : Version, names : SUBSET Name]
        BY <1>6, XdsAssumption DEF Incoming
      <4> QED
        BY <1>3, <4>1 DEF WithType
    <3> QED
      BY <3>2, <3>3
  <2>4. ASSUME NEW p \in Stream, NEW u \in ResponseType, pending'[<<p, u>>] # Nil
        PROVE  pending'[<<p, u>>].type = u /\ Wants(u, pending'[<<p, u>>].names)
    BY <1>1, <1>11, <2>3, <2>4 DEF WantsKept
  <2> QED
    BY <1>1, <1>9, <2>1, <2>2, <2>4, WantsAreKept
<1>13. SidecarConsistent'
  <2>1. \A u \in ResponseType :
           \/ have'[u].version = NoVersion /\ have'[u].items = NoItems
           \/ Copied(u, have'[u])
    BY <1>1, <1>7 DEF SidecarConsistent
  <2> QED
    BY <1>1, <1>9, <2>1, ConsistencyKept
<1>14. Conversation'
  <2> SUFFICES ASSUME NEW p \in Stream, Live(p)'
               PROVE  (ResponsesInOrder(p) /\ \A u \in ResponseType : RequestsRemembered(p, u))'
    BY DEF Conversation
  <2>1. Live(p)
    BY <1>1, <1>4, <1>5, <1>7 DEF Live, XdsTypeOK
  <2>2. ResponsesInOrder(p) /\ \A u \in ResponseType : RequestsRemembered(p, u)
    BY <1>1, <2>1 DEF Conversation
  <2>3. CASE p # s
    <3>1. reader'[p] = reader[p] /\ offered'[p] = offered[p]
      BY <1>1, <1>4, <2>3 DEF XdsTypeOK
    <3>2. \A u \in ResponseType : pending'[<<p, u>>] = pending[<<p, u>>]
      BY <1>11, <2>3
    <3> QED
      BY <1>4, <1>7, <2>2, <3>1, <3>2, ConversationFrame
  <2>4. CASE p = s
    <3>1. ResponsesInOrder(s)'
      BY <1>4, <1>7, <2>2, <2>4 DEF ResponsesInOrder
    <3>2. ASSUME NEW u \in ResponseType PROVE RequestsRemembered(s, u)'
      <4>1. PICK x : x = Subscription(s, u, want[u], have[u])
        OBVIOUS
      <4>2. /\ LastOf(toServer[s], Asks(s, u), x)
            /\ NoneOf(toServer[s], Asks(s, u)) =>
                  IF o \in Asks(s, u)
                  THEN o = x
                  ELSE have[u].nonce = nonce[<<s, u>>] =>
                          pending[<<s, u>>] = WithType(x.msg, StreamType[s])
        BY <1>2, <1>4, <2>2, <2>4, <4>1 DEF RequestsRemembered
      <4>3. x.nonce = have[u].nonce
        BY <4>1 DEF Subscription
      <4>4. ASSUME NoneOf(toServer[s], Asks(s, u)), have[u].nonce = nonce[<<s, u>>]
            PROVE  pending'[<<s, u>>] = WithType(x.msg, StreamType[s])
        <5>1. CASE u = request.type
          <6>1. o = x
            BY <1>6, <4>2, <4>4, <5>1
          <6>2. Accepts(s, request.type, o.nonce)
            BY <4>3, <4>4, <5>1, <6>1 DEF Accepts
          <6> QED
            BY <1>3, <1>11, <5>1, <6>1, <6>2
        <5>2. CASE u # request.type
          BY <1>6, <1>11, <4>2, <4>4, <5>2
        <5> QED
          BY <5>1, <5>2
      <4>5. reader'[s] = "recv" /\ Subscription(s, u, want'[u], have'[u]) = x
        BY <1>1, <1>4, <1>7, <4>1 DEF XdsTypeOK
      <4> QED
        BY <1>4, <1>7, <4>2, <4>4, <4>5 DEF RequestsRemembered
    <3> QED
      BY <2>4, <3>1, <3>2
  <2> QED
    BY <2>3, <2>4
<1> QED
  BY <1>8, <1>10, <1>12, <1>13, <1>14 DEF EndsInv

(* A response that is ready was made from one published snapshot, for a    *)
(* request that asks for all that the sidecar asked for from the start.    *)
LEMMA AnswerCopied ==
    ASSUME MeshInv, NEW s \in Stream, NEW u \in ResponseType, proc[s] = "select",
           AnswerFor(<<s, u>>) # Nil
    PROVE  AnswerFor(<<s, u>>) \in Response /\ Copied(u, AnswerFor(<<s, u>>))
<1>1. CacheInv /\ SlotsAnswer /\ AnswersGenuine /\ WantsKept
  BY DEF MeshInv, StreamInv, XdsInv, SlotInv
<1>2. PICK c \in Caller : c = <<s, u>>
  BY SlotIsCaller
<1>3. PICK a \in Response : a = AnswerFor(c)
  BY <1>1, <1>2, WaitingType
<1>4. a.request \in Request /\ a.request # Nil
  BY <1>3, NilIsNoRecord DEF Response
<1>5. Serves(c) = a.request
  BY <1>2, <1>3 DEF Serves
<1>6. a.request = pending[c]
  BY <1>1, <1>2, <1>4, <1>5 DEF SlotsAnswer, Serving
<1>7. a.request.type = u /\ Wants(u, a.request.names)
  BY <1>1, <1>2, <1>4, <1>6 DEF WantsKept
<1>8. Genuine(a)
  <2>1. PICK ch : ch = held[c].chan
    OBVIOUS
  <2>2. ch # Nil /\ buf[ch] # <<>> /\ a = Head(buf[ch])
    BY <1>2, <1>3, <2>1 DEF AnswerFor
  <2>3. ch \in Chan /\ buf[ch] \in Seq(Response)
    BY <1>1, <2>1, <2>2 DEF CacheInv, CacheTypeOK, Handle
  <2>4. 1 \in DOMAIN buf[ch] /\ a = buf[ch][1]
    BY <2>2, <2>3, TailAt
  <2> QED
    BY <1>1, <2>3, <2>4 DEF AnswersGenuine
<1>9. PICK snapshot \in Snapshots :
         a = CreateResponse(a.request, GetResources(snapshot, u), GetVersion(snapshot, u))
  BY <1>7, <1>8 DEF Genuine
<1>10. snapshot \in SnapshotSet /\ snapshot # Nil
  BY CacheAssumption, NilIsNoRecord
<1>11. GetResources(snapshot, u) = snapshot[u].items /\ GetVersion(snapshot, u) = snapshot[u].version
  BY <1>10 DEF GetResources, GetVersion
<1>12. /\ a.version = snapshot[u].version
       /\ \A n \in Name : a.items[n] = IF a.request.names = {} \/ n \in a.request.names
                                       THEN snapshot[u].items[n] ELSE Nil
  <2>1. PICK rq, it, ve : rq = a.request /\ it = snapshot[u].items /\ ve = snapshot[u].version
    OBVIOUS
  <2>2. a = CreateResponse(rq, it, ve)
    BY <1>9, <1>11, <2>1
  <2>3. /\ a.version = ve
        /\ \A n \in Name : a.items[n] = IF rq.names = {} \/ n \in rq.names THEN it[n] ELSE Nil
    BY <2>2 DEF CreateResponse
  <2> QED
    BY <2>1, <2>3
<1>13. ASSUME NEW n \in Name, a.items[n] # snapshot[u].items[n]
       PROVE  n \notin Asked(u) /\ a.items[n] = Nil
  BY <1>7, <1>12, <1>13 DEF Wants, Asked
<1> QED
  BY <1>2, <1>3, <1>12, <1>13 DEF Copied

(* process sends a response, and the sidecar will find it.                 *)
LEMMA ServeResponseKeeps ==
    ASSUME MeshInv, NEW s \in Stream, Serve(s), NEW u \in ResponseType, SendResponse(s, u)
    PROVE  EndsInv'
<1>1. /\ StreamsOlder /\ MeshTypeOK /\ NoncesKnown /\ Conversation /\ WantsKept
      /\ SidecarConsistent /\ XdsTypeOK /\ NoncesIdentify
  BY StreamsGetOlder DEF MeshInv, MeshNext, StreamInv, XdsInv, SlotInv
<1>2. PICK k \in Nat : k = streamNonce[s]
  BY <1>1 DEF XdsTypeOK
<1>3. /\ nonce' = [nonce EXCEPT ![<<s, u>>] = k + 1]
      /\ streamNonce' = [streamNonce EXCEPT ![s] = k + 1]
      /\ pending' = [pending EXCEPT ![<<s, u>>] = Nil]
      /\ UNCHANGED <<proc, reader, offered, conn>> /\ proc[s] = "select"
  BY <1>2 DEF SendResponse, FromWatch, readerVars
<1>4. /\ \A p \in Stream, t \in ResponseType :
            IF p = s /\ t = u
            THEN nonce'[<<p, t>>] = k + 1 /\ pending'[<<p, t>>] = Nil
            ELSE nonce'[<<p, t>>] = nonce[<<p, t>>] /\ pending'[<<p, t>>] = pending[<<p, t>>]
      /\ streamNonce'[s] = k + 1
  <2>1. nonce \in [Caller -> Nat] /\ pending \in [Caller -> Request \cup {Nil}]
    BY <1>1 DEF XdsTypeOK
  <2>2. ASSUME NEW p \in Stream, NEW t \in ResponseType
        PROVE  IF p = s /\ t = u
               THEN nonce'[<<p, t>>] = k + 1 /\ pending'[<<p, t>>] = Nil
               ELSE nonce'[<<p, t>>] = nonce[<<p, t>>] /\ pending'[<<p, t>>] = pending[<<p, t>>]
    <3>1. <<p, t>> \in Caller /\ (<<p, t>> = <<s, u>> <=> p = s /\ t = u)
      BY SlotIsCaller, SlotsDiffer
    <3> QED
      BY <1>3, <2>1, <3>1
  <2> QED
    BY <1>1, <1>3, <2>2 DEF XdsTypeOK
<1>5. \A t \in ResponseType : nonce[<<s, t>>] \in Nat /\ nonce[<<s, t>>] <= k
  BY <1>1, <1>2, SlotIsCaller DEF XdsTypeOK, NoncesIdentify
<1>6. PICK a : a = AnswerFor(<<s, u>>)
  OBVIOUS
<1>7. a # Nil
  <2>1. PICK ch : ch = held[<<s, u>>].chan
    OBVIOUS
  <2>2. ch # Nil /\ buf[ch] # <<>>
    BY <2>1 DEF SendResponse, FromWatch, Receive
  <2>3. <<s, u>> \in Caller /\ CacheTypeOK
    BY <1>1, SlotIsCaller DEF XdsTypeOK
  <2>4. buf[ch] \in Seq(Response)
    BY <2>1, <2>2, <2>3 DEF CacheTypeOK, Handle
  <2>5. Head(buf[ch]) \in Response
    BY <2>2, <2>4, TailAt
  <2> QED
    BY <1>6, <2>1, <2>2, <2>5, NilIsNoRecord DEF AnswerFor
<1>8. a \in Response /\ Copied(u, a)
  BY <1>3, <1>6, <1>7, AnswerCopied
<1>9. PICK x : x = [type |-> u, version |-> a.version, items |-> a.items, nonce |-> k + 1]
  OBVIOUS
<1>10. /\ x \in Outgoing /\ x.type = u /\ x.nonce = k + 1 /\ Copied(x.type, x)
  BY <1>8, <1>9 DEF Outgoing, Response, Copied
<1>11. /\ toClient' = [toClient EXCEPT ![s] = Append(toClient[s], x)]
       /\ UNCHANGED <<toServer, clientVars, boundVars>>
  <2> DEFINE sent(t) == nonce'[<<s, t>>] # nonce[<<s, t>>]
  <2>1. \A t \in ResponseType : sent(t) <=> t = u
    BY <1>4, <1>5
  <2>2. (CHOOSE t \in ResponseType : sent(t)) = u /\ \E t \in ResponseType : sent(t)
    BY <2>1
  <2> DEFINE response(t) == [type    |-> t,
                             version |-> AnswerFor(<<s, t>>).version,
                             items   |-> AnswerFor(<<s, t>>).items,
                             nonce   |-> nonce'[<<s, t>>]]
  <2>3. response(u) = x
    BY <1>4, <1>6, <1>9
  <2>4. /\ toClient' = [toClient EXCEPT ![s] =
              IF \E t \in ResponseType : sent(t)
              THEN Append(@, response(CHOOSE t \in ResponseType : sent(t)))
              ELSE @]
        /\ UNCHANGED <<toServer, clientVars, boundVars>>
    BY DEF Serve
  <2> HIDE DEF sent, response
  <2> QED
    BY <2>2, <2>3, <2>4
<1>12. UNCHANGED <<using, want, have, updates, events>>
  BY <1>11 DEF clientVars, boundVars
<1>13. PICK q \in Seq(Outgoing) : q = toClient[s]
  BY <1>1 DEF MeshTypeOK
<1>14. /\ toClient'[s] = Append(q, x) /\ Append(q, x) \in Seq(Outgoing)
       /\ \A p \in Stream : p # s => toClient'[p] = toClient[p]
       /\ DOMAIN Append(q, x) = DOMAIN q \cup {Len(q) + 1}
       /\ Append(q, x)[Len(q) + 1] = x
       /\ \A i \in DOMAIN q : i \in Nat /\ i <= Len(q) /\ Append(q, x)[i] = q[i]
       /\ Len(q) \in Nat
  BY <1>1, <1>10, <1>11, <1>13, AppendAt DEF MeshTypeOK
<1>15. MeshTypeOK'
  BY <1>1, <1>11, <1>12, <1>13, <1>14 DEF MeshTypeOK
<1>16. RequestsCarried /\ ResponsesCarried
  <2>1. ASSUME NEW p \in Stream, NEW i \in DOMAIN toClient'[p]
        PROVE  \/ \E j \in DOMAIN toClient[p] : toClient'[p][i] = toClient[p][j]
               \/ /\ toClient'[p][i].nonce <= streamNonce'[p]
                  /\ Copied(toClient'[p][i].type, toClient'[p][i])
    <3>1. CASE p = s
      <4>1. toClient'[p][i] = x \/ (i \in DOMAIN q /\ toClient'[p][i] = q[i])
        BY <1>14, <3>1
      <4> QED
        BY <1>4, <1>10, <1>13, <3>1, <4>1
    <3>2. CASE p # s
      BY <1>14, <3>2
    <3> QED
      BY <3>1, <3>2
  <2>2. \A p \in Stream : proc'[p] = "idle" => toClient'[p] = toClient[p]
    BY <1>3, <1>14
  <2> QED
    BY <1>11, <2>1, <2>2 DEF RequestsCarried, ResponsesCarried
<1>17. NoncesKnown'
  <2>1. ASSUME using' # Nil, NEW t \in ResponseType PROVE have'[t].nonce <= streamNonce'[using']
    <3>1. using \in Stream /\ have[t].nonce <= streamNonce[using]
      BY <1>1, <1>12, <2>1 DEF NoncesKnown, MeshTypeOK
    <3>2. /\ streamNonce[using] \in Nat /\ streamNonce'[using] \in Nat
          /\ streamNonce[using] <= streamNonce'[using]
      BY <1>1, <3>1 DEF StreamsOlder
    <3>3. have[t].nonce \in Nat
      BY <1>1 DEF MeshTypeOK
    <3> QED
      BY <1>12, <3>1, <3>2, <3>3
  <2> QED
    BY <1>1, <1>16, <2>1, NoncesKept
<1>18. WantsKept'
  <2>1. \A t \in ResponseType : Wants(t, want'[t])
    BY <1>1, <1>12 DEF WantsKept
  <2>2. \A p \in Stream : reader'[p] = "offer" => Asking(p, offered'[p])
    BY <1>1, <1>3 DEF WantsKept
  <2>3. ASSUME NEW p \in Stream, NEW t \in ResponseType, pending'[<<p, t>>] # Nil
        PROVE  pending'[<<p, t>>].type = t /\ Wants(t, pending'[<<p, t>>].names)
    <3>1. pending'[<<p, t>>] = pending[<<p, t>>]
      BY <1>4, <2>3
    <3> QED
      BY <1>1, <2>3, <3>1 DEF WantsKept
  <2> QED
    BY <1>1, <1>16, <2>1, <2>2, <2>3, WantsAreKept
<1>19. SidecarConsistent'
  <2>1. \A t \in ResponseType :
           \/ have'[t].version = NoVersion /\ have'[t].items = NoItems
           \/ Copied(t, have'[t])
    BY <1>1, <1>12 DEF SidecarConsistent
  <2> QED
    BY <1>1, <1>16, <2>1, ConsistencyKept
<1>20. Conversation'
  <2> SUFFICES ASSUME NEW p \in Stream, Live(p)'
               PROVE  (ResponsesInOrder(p) /\ \A t \in ResponseType : RequestsRemembered(p, t))'
    BY DEF Conversation
  <2>1. Live(p)
    BY <1>3, <1>12 DEF Live
  <2>2. ResponsesInOrder(p) /\ \A t \in ResponseType : RequestsRemembered(p, t)
    BY <1>1, <2>1 DEF Conversation
  <2>3. CASE p # s
    <3>1. /\ toServer'[p] = toServer[p] /\ toClient'[p] = toClient[p]
          /\ reader'[p] = reader[p] /\ offered'[p] = offered[p]
      BY <1>3, <1>11, <1>14, <2>3
    <3>2. \A t \in ResponseType : /\ pending'[<<p, t>>] = pending[<<p, t>>]
                                  /\ nonce'[<<p, t>>] = nonce[<<p, t>>]
      BY <1>4, <2>3
    <3> QED
      BY <1>12, <2>2, <3>1, <3>2, ConversationFrame
  <2>4. CASE p = s
    <3>1. /\ \A i, j \in DOMAIN q : i < j => q[i].nonce < q[j].nonce
          /\ \A t \in ResponseType, i \in DOMAIN q : q[i].type = t =>
                have[t].nonce < q[i].nonce /\ q[i].nonce <= nonce[<<s, t>>]
          /\ \A t \in ResponseType :
                \/ have[t].nonce = nonce[<<s, t>>]
                \/ \E i \in DOMAIN q : q[i].type = t /\ q[i].nonce = nonce[<<s, t>>]
      BY <1>13, <2>2, <2>4 DEF ResponsesInOrder
    <3>2. \A i \in DOMAIN q : q[i].nonce \in Nat /\ q[i].nonce <= k
      <4>1. \A i \in DOMAIN q : q[i] \in Outgoing /\ q[i].nonce <= k
        BY <1>1, <1>2, <1>13 DEF NoncesKnown
      <4> QED
        BY <4>1 DEF Outgoing
    <3>3. \A t \in ResponseType : have[t].nonce \in Nat /\ have[t].nonce <= k
      <4>1. using = s
        BY <2>1, <2>4 DEF Live
      <4> QED
        BY <1>1, <1>2, <4>1, MeshAssumption DEF MeshTypeOK, NoncesKnown
    <3>4. ASSUME NEW i \in DOMAIN Append(q, x), NEW j \in DOMAIN Append(q, x), i < j
          PROVE  Append(q, x)[i].nonce < Append(q, x)[j].nonce
      <4>1. i \in DOMAIN q
        BY <1>14, <3>4
      <4>2. CASE j \in DOMAIN q
        BY <1>14, <3>1, <3>4, <4>1, <4>2
      <4>3. CASE j = Len(q) + 1
        <5>1. Append(q, x)[i] = q[i] /\ Append(q, x)[j] = x
          BY <1>14, <4>1, <4>3
        <5>2. q[i].nonce \in Nat /\ q[i].nonce <= k /\ x.nonce = k + 1
          BY <1>10, <3>2, <4>1
        <5> QED
          BY <5>1, <5>2
      <4> QED
        BY <1>14, <4>2, <4>3
    <3>5. ASSUME NEW t \in ResponseType, NEW i \in DOMAIN Append(q, x), Append(q, x)[i].type = t
          PROVE  /\ have[t].nonce < Append(q, x)[i].nonce
                 /\ Append(q, x)[i].nonce <= nonce'[<<s, t>>]
      <4>1. CASE i \in DOMAIN q
        <5>1. /\ Append(q, x)[i] = q[i] /\ q[i].nonce \in Nat /\ q[i].nonce <= k
              /\ have[t].nonce < q[i].nonce /\ q[i].nonce <= nonce[<<s, t>>]
          BY <1>14, <3>1, <3>2, <3>5, <4>1
        <5>2. nonce'[<<s, t>>] = k + 1 \/ nonce'[<<s, t>>] = nonce[<<s, t>>]
          BY <1>4
        <5> QED
          BY <5>1, <5>2
      <4>2. CASE i = Len(q) + 1
        <5>1. Append(q, x)[i] = x /\ x.nonce = k + 1 /\ t = u
          BY <1>10, <1>14, <3>5, <4>2
        <5>2. nonce'[<<s, t>>] = k + 1 /\ have[t].nonce \in Nat /\ have[t].nonce <= k
          BY <1>4, <3>3, <5>1
        <5> QED
          BY <5>1, <5>2
      <4> QED
        BY <1>14, <4>1, <4>2
    <3>6. ASSUME NEW t \in ResponseType, have[t].nonce # nonce'[<<s, t>>]
          PROVE  \E i \in DOMAIN Append(q, x) :
                    Append(q, x)[i].type = t /\ Append(q, x)[i].nonce = nonce'[<<s, t>>]
      <4>1. CASE t = u
        BY <1>4, <1>10, <1>14, <4>1
      <4>2. CASE t # u
        <5>1. nonce'[<<s, t>>] = nonce[<<s, t>>]
          BY <1>4, <4>2
        <5>2. PICK i \in DOMAIN q : q[i].type = t /\ q[i].nonce = nonce[<<s, t>>]
          BY <3>1, <3>6, <5>1
        <5> QED
          BY <1>14, <5>1, <5>2
      <4> QED
        BY <4>1, <4>2
    <3>7. ResponsesInOrder(s)'
      <4>1. toClient'[s] = Append(q, x) /\ have' = have
        BY <1>12, <1>14
      <4>2. \A t \in ResponseType :
               /\ \A i \in DOMAIN Append(q, x) : Append(q, x)[i].type = t =>
                     /\ have[t].nonce < Append(q, x)[i].nonce
                     /\ Append(q, x)[i].nonce <= nonce'[<<s, t>>]
               /\ \/ have[t].nonce = nonce'[<<s, t>>]
                  \/ \E i \in DOMAIN Append(q, x) :
                        Append(q, x)[i].type = t /\ Append(q, x)[i].nonce = nonce'[<<s, t>>]
        BY <3>5, <3>6
      <4> QED
        BY <3>4, <4>1, <4>2 DEF ResponsesInOrder
    <3>8. ASSUME NEW t \in ResponseType PROVE RequestsRemembered(s, t)'
      <4>1. RequestsRemembered(s, t)
        BY <2>2, <2>4
      <4>2. toServer'[s] = toServer[s] /\ reader'[s] = reader[s] /\ offered'[s] = offered[s]
        BY <1>3, <1>11
      <4>3. CASE t = u
        <5>1. have'[t].nonce # nonce'[<<s, t>>]
          BY <1>4, <1>12, <3>3, <4>3
        <5> QED
          BY <1>12, <4>1, <4>2, <5>1 DEF RequestsRemembered
      <4>4. CASE t # u
        <5>1. nonce'[<<s, t>>] = nonce[<<s, t>>] /\ pending'[<<s, t>>] = pending[<<s, t>>]
          BY <1>4, <4>4
        <5> QED
          BY <1>12, <4>1, <4>2, <5>1 DEF RequestsRemembered
      <4> QED
        BY <4>3, <4>4
    <3> QED
      BY <2>4, <3>7, <3>8
  <2> QED
    BY <2>3, <2>4
<1> QED
  BY <1>15, <1>17, <1>18, <1>19, <1>20 DEF EndsInv

-----------------------------------------------------------------------------
LEMMA MeshInitInv == MeshInit => MeshInv
<1> SUFFICES ASSUME MeshInit PROVE MeshInv
  OBVIOUS
<1>1. StreamInv
  BY XdsInitInv, StreamInitInv DEF MeshInit, StreamInv
<1>2. AnswersGenuine
  BY DEF MeshInit, XdsInit, CacheInit, AnswersGenuine
<1>3. MeshTypeOK
  <2>1. <<>> \in Seq(Incoming) /\ <<>> \in Seq(Outgoing) /\ NoItems \in Items
    BY DEF NoItems, Items
  <2> QED
    BY <2>1, SnapshotAssumption, MeshAssumption DEF MeshInit, MeshTypeOK
<1>4. NoncesKnown
  BY DEF MeshInit, XdsInit, NoncesKnown
<1>5. Conversation
  BY MeshAssumption DEF MeshInit, Conversation, Live
<1>6. WantsKept
  <2>1. \A p \in Stream, t \in ResponseType : pending[<<p, t>>] = Nil
    BY SlotIsCaller DEF MeshInit, XdsInit
  <2> QED
    BY <2>1 DEF MeshInit, XdsInit, WantsKept, Wants
<1>7. SidecarConsistent
  BY DEF MeshInit, SidecarConsistent
<1> QED
  BY <1>1, <1>2, <1>3, <1>4, <1>5, <1>6, <1>7 DEF MeshInv

LEMMA ServeKeeps ==
    ASSUME MeshInv, NEW s \in Stream, Serve(s)
    PROVE  EndsInv'
<1>1. ProcessStep(s)
  BY DEF Serve
<1>2. ASSUME NEW u \in ResponseType, SendResponse(s, u) PROVE EndsInv'
  BY <1>2, ServeResponseKeeps
<1>3. CASE IgnoreRequest(s) \/ AcceptRequest(s)
  BY <1>3, ServeRequestKeeps
<1>4. CASE CreateRequested(s)
  BY <1>4, ServeCreateKeeps
<1>5. CASE \/ RefuseRequest(s) \/ InputEnded(s) \/ CancelNext(s)
           \/ ProcessReturns(s) \/ HandlerReturns(s)
           \/ \E u \in ResponseType : SendError(s, u)
  BY <1>5, ServeEndKeeps
<1> QED
  BY <1>1, <1>2, <1>3, <1>4, <1>5 DEF ProcessStep

LEMMA MeshNextInv == MeshInv /\ [MeshNext]_meshVars => MeshInv'
<1> SUFFICES ASSUME MeshInv, [MeshNext]_meshVars PROVE MeshInv'
  OBVIOUS
<1>1. EndsInv'
  <2>1. CASE Connect
    BY <2>1, ConnectKeeps
  <2>2. ASSUME NEW s \in Stream, Arrive(s) \/ Serve(s) \/ ReaderEnds(s) \/ Break(s)
        PROVE  EndsInv'
    BY <2>2, ArriveKeeps, ServeKeeps, StreamEndKeeps
  <2>3. CASE AcceptResponse \/ RejectResponse
    BY <2>3, AcceptResponseKeeps, RejectResponseKeeps
  <2>4. ASSUME NEW t \in ResponseType, NEW n \in Name, AddName(t, n) PROVE EndsInv'
    BY <2>4, AddNameKeeps
  <2>5. ASSUME NEW snapshot \in Snapshots, PublishUpdate(snapshot) PROVE EndsInv'
    BY <2>5, PublishUpdateKeeps
  <2>6. CASE NoticeLoss \/ Restart \/ UNCHANGED meshVars
    BY <2>6, NoticeLossKeeps, RestartKeeps, StillKeeps
  <2> QED
    BY <2>1, <2>2, <2>3, <2>4, <2>5, <2>6 DEF MeshNext
<1>2. StreamInv' /\ AnswersGenuine'
  BY ServerKept
<1> QED
  BY <1>1, <1>2 DEF EndsInv, MeshInv

(* The inductive invariant of the two ends and the network holds: the last *)
(* request, the pending one and the last response of every type fit        *)
(* together, through rejections, crossing messages, broken streams and     *)
(* restarts.                                                               *)
THEOREM MeshInvariant == MeshSpec => []MeshInv
<1>1. MeshInit => MeshInv
  BY MeshInitInv
<1>2. MeshInv /\ [MeshNext]_meshVars => MeshInv'
  BY MeshNextInv
<1> QED
  BY <1>1, <1>2, PTL DEF MeshSpec

(* A restart of the control plane takes nothing from what the server and   *)
(* the cache promise: no watch of the old process is left behind.          *)
THEOREM MeshLeaksNoWatch == MeshSpec => []NoOrphanWatch
<1>1. MeshInv => NoOrphanWatch
  BY SlotsHoldWatches DEF MeshInv
<1> QED
  BY <1>1, MeshInvariant, PTL

(* And no request that process accepted from the sidecar is lost.          *)
THEOREM MeshLosesNoRequest == MeshSpec => []RequestNotLost
<1>1. MeshInv => RequestNotLost
  BY DEF MeshInv, StreamInv, SlotInv, SlotsAnswer, Serving, RequestNotLost
<1> QED
  BY <1>1, MeshInvariant, PTL

(* What the sidecar has of a type is never put together from two           *)
(* snapshots, and lacks nothing that it asked for from the start.          *)
THEOREM SidecarIsConsistent == MeshSpec => []SidecarConsistent
<1>1. MeshInv => SidecarConsistent
  BY DEF MeshInv
<1> QED
  BY <1>1, MeshInvariant, PTL

-----------------------------------------------------------------------------
(* On a quiet stream the pending request of a type is the sidecar's last   *)
(* one, and its watch is open.                                             *)
LEMMA QuietWaits ==
    ASSUME MeshInv, NEW s \in Stream, Quiet(s), NEW t \in ResponseType
    PROVE  /\ WaitingFor(<<s, t>>) = [node    |-> Sidecar, type |-> t,
                                      version |-> have[t].version, names |-> want[t]]
           /\ WaitingFor(<<s, t>>) # Nil
<1>1. MeshTypeOK /\ Conversation /\ SlotsAnswer /\ CacheInv
  BY DEF MeshInv, StreamInv, XdsInv, SlotInv
<1>2. /\ proc[s] = "select" /\ reader[s] = "recv" /\ Live(s)
      /\ toServer[s] = <<>> /\ toClient[s] = <<>>
      /\ AnswerFor(<<s, t>>) = Nil
  BY DEF Quiet, Live
<1>3. PICK mine : mine = have[t]
  OBVIOUS
<1>4. PICK names \in SUBSET Name : names = want[t]
  BY <1>1 DEF MeshTypeOK
<1>5. mine \in [version : Version, items : Items, nonce : Nat] /\ mine.version \in Version
  BY <1>1, <1>3 DEF MeshTypeOK
<1>6. PICK r : r = [node |-> Sidecar, type |-> t, version |-> mine.version, names |-> names]
  OBVIOUS
<1>7. WithType(Subscription(s, t, names, mine).msg, StreamType[s]) = r
  <2>1. Subscription(s, t, names, mine).msg = Message(s, t, mine.version, names)
    BY DEF Subscription
  <2>2. WithType(Message(s, t, mine.version, names), StreamType[s])
          = [node |-> Sidecar, type |-> t, version |-> mine.version, names |-> names]
    <3>1. PICK v \in Version : v = mine.version
      BY <1>5
    <3>2. WithType(Message(s, t, v, names), StreamType[s])
            = [node |-> Sidecar, type |-> t, version |-> v, names |-> names]
      BY ONLY s \in Stream, t \in ResponseType, v \in Version, names \in SUBSET Name,
         MessageRead, Zenon
    <3> QED
      BY <3>1, <3>2
  <2> QED
    BY <1>6, <2>1, <2>2
<1>8. pending[<<s, t>>] = r
  <2>1. have[t].nonce = nonce[<<s, t>>]
    BY <1>1, <1>2 DEF Conversation, ResponsesInOrder
  <2>2. NoneOf(toServer[s], Asks(s, t))
    BY <1>2 DEF NoneOf
  <2>3. RequestsRemembered(s, t)
    BY <1>1, <1>2 DEF Conversation
  <2>4. pending[<<s, t>>] = WithType(Subscription(s, t, want[t], have[t]).msg, StreamType[s])
    BY <1>2, <2>1, <2>2, <2>3 DEF RequestsRemembered
  <2> QED
    BY <1>3, <1>4, <1>7, <2>4
<1>9. r \in Request /\ r # Nil
  <2>1. r \in Request
    BY <1>5, <1>6, SnapshotAssumption, MeshAssumption DEF Request
  <2> QED
    BY <2>1, NilIsNoRecord
<1>10. Serves(<<s, t>>) = r
  BY <1>1, <1>2, <1>8, <1>9, MeshAssumption DEF SlotsAnswer, Serving
<1>11. WaitingFor(<<s, t>>) = r
  BY <1>2, <1>10 DEF Serves
<1> QED
  BY <1>3, <1>4, <1>6, <1>9, <1>11

(* An open watch of the sidecar has its latest version.                    *)
LEMMA WaitsForNews ==
    ASSUME MeshInv, NEW s \in Stream, NEW t \in ResponseType, snapshots[Sidecar] # Nil,
           NEW r, r = WaitingFor(<<s, t>>), r # Nil, r.node = Sidecar, r.type = t
    PROVE  snapshots[Sidecar] \in Snapshots /\ r.version = Latest(t).version
<1>1. CacheInv /\ AnswersGenuine
  BY DEF MeshInv, StreamInv, XdsInv
<1>2. PICK c \in Caller : c = <<s, t>>
  BY SlotIsCaller
<1>3. PICK w \in watches : w.chan = held[c].chan
  BY <1>1, <1>2, WaitingIs
<1>4. w.request = r
  BY <1>1, <1>2, <1>3, WaitingIs
<1>5. w.node = Sidecar
  BY <1>1, <1>4, SnapshotAssumption, MeshAssumption DEF CacheInv, WatchesFiled, NodeID
<1>6. snapshots[Sidecar] \in Snapshots
  BY <1>1, MeshAssumption DEF AnswersGenuine
<1>7. GetVersion(snapshots[Sidecar], t) = r.version
  BY <1>1, <1>4, <1>5 DEF CacheInv, OpenWatchesCurrent
<1> QED
  BY <1>6, <1>7 DEF GetVersion, Latest

(* No update gets lost between the two ends: when nothing is on its way,   *)
(* the sidecar has what it asked for of every type, and waits for more.    *)
THEOREM QuietIsCurrent == MeshSpec => []QuietMeansCurrent
<1>1. ASSUME MeshInv, NEW s \in Stream, Quiet(s), NEW t \in ResponseType
      PROVE  /\ WaitingFor(<<s, t>>) # Nil
             /\ WaitingFor(<<s, t>>).names = want[t]
             /\ snapshots[Sidecar] # Nil => UpToDate(t)
  <2>1. PICK r : r = WaitingFor(<<s, t>>)
    OBVIOUS
  <2>2. /\ r # Nil /\ r.names = want[t] /\ r.node = Sidecar /\ r.type = t
        /\ r.version = have[t].version
    <3>1. PICK v, names : v = have[t].version /\ names = want[t]
      OBVIOUS
    <3>2. r # Nil /\ r = [node |-> Sidecar, type |-> t, version |-> v, names |-> names]
      BY <1>1, <2>1, <3>1, QuietWaits
    <3> QED
      BY <3>1, <3>2
  <2>3. ASSUME snapshots[Sidecar] # Nil PROVE UpToDate(t)
    <3>1. PICK x \in Snapshots : x = snapshots[Sidecar]
      BY <1>1, <2>1, <2>2, <2>3, WaitsForNews
    <3>2. have[t].version = x[t].version /\ Latest(t) = x[t]
      BY <1>1, <2>1, <2>2, <2>3, <3>1, WaitsForNews DEF Latest
    <3>3. ASSUME VersionsIdentify(t), NEW n \in Asked(t)
          PROVE  have[t].items[n] = x[t].items[n]
      <4>1. n \in Name
        BY MeshAssumption DEF Asked
      <4>2. CASE have[t].version = NoVersion /\ have[t].items = NoItems
        <5>1. x[t].items = NoItems
          BY <3>2, <4>2, MeshAssumption
        <5> QED
          BY <4>2, <5>1
      <4>3. CASE Copied(t, have[t])
        <5>1. PICK y \in Snapshots :
                 /\ have[t].version = y[t].version
                 /\ \A m \in Name : \/ have[t].items[m] = y[t].items[m]
                                    \/ m \notin Asked(t) /\ have[t].items[m] = Nil
          BY <4>3 DEF Copied
        <5>2. y[t].items = x[t].items
          BY <3>2, <3>3, <5>1 DEF VersionsIdentify
        <5> QED
          BY <3>3, <4>1, <5>1, <5>2
      <4> QED
        BY <1>1, <4>2, <4>3 DEF MeshInv, SidecarConsistent
    <3> QED
      BY <3>2, <3>3 DEF UpToDate
  <2> QED
    BY <2>1, <2>2, <2>3
<1>2. MeshInv => QuietMeansCurrent
  BY <1>1 DEF QuietMeansCurrent
<1> QED
  BY <1>2, MeshInvariant, PTL
=============================================================================
