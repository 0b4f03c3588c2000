-------------------------------- MODULE Mesh --------------------------------
(***************************************************************************)
(* One sidecar and the control plane, end to end: the streaming server of  *)
(* XdsServer, the network, an Envoy that subscribes to it, the updater,    *)
(* and the crash and restart of the control plane (cmd/bent/main.go).      *)
(*                                                                         *)
(* Envoy is external; it follows the xDS protocol that the server expects: *)
(* it repeats its subscriptions on every new stream with the version it    *)
(* has, answers each response with its nonce, and with the new version if  *)
(* it accepted it and its old version if it did not.  gRPC delivers the    *)
(* messages of a stream in order and drops them when the stream breaks.    *)
(***************************************************************************)
EXTENDS XdsServer

CONSTANTS
    Sidecar,      \* the node ID of the sidecar
    InitialWant,  \* the names it subscribes to at first, per type
    MaxUpdates,   \* bound: snapshots the updater publishes of its own accord
    MaxEvents     \* bound: rejected responses, names that the sidecar adds to
                  \* a subscription, and crashes of the control plane

(* The request for type t that the sidecar sends on stream s.  A stream of *)
(* one type implies the type URL.                                          *)
Message(s, t, version, names) ==
    [node    |-> Sidecar,
     type    |-> IF StreamType[s] = AnyType THEN t ELSE AnyType,
     version |-> version,
     names   |-> names]

(* cmd/bent makes a cache that is not in ADS mode.  The updater's versions *)
(* are hashes and never empty; only the secrets, which it never sets, have *)
(* no version.  A stream carries all of ResponseType: an aggregated stream *)
(* all the types, and a stream of one type that type.  bent's bootstrap    *)
(* (bootstrap.conf.tmpl:115), its clusters (node.go:183) and its listeners *)
(* (listener.go:106) give a sidecar a stream per type, so the conversation *)
(* about one type is an instance with that type alone.                     *)
ASSUME MeshAssumption ==
    /\ Sidecar \in Node
    /\ InitialWant \in [ResponseType -> SUBSET Name]
    /\ MaxUpdates \in Nat /\ MaxEvents \in Nat
    /\ ~ ADS
    /\ Nil \notin Stream
    /\ \A s \in Stream : StreamType[s] = AnyType \/ ResponseType = {StreamType[s]}
    /\ \A s \in Stream, t \in ResponseType, version \in Version, names \in SUBSET Name :
          Message(s, t, version, names) \in Messages
    /\ \A snapshot \in Snapshots, t \in ResponseType :
          snapshot[t].version = NoVersion => snapshot[t].items = NoItems

VARIABLES
    toServer,  \* requests on their way, per stream
    toClient,  \* responses on their way, per stream
    using,     \* the stream that the sidecar uses, or Nil
    want,      \* the names it subscribes to, per type
    have,      \* per type the version and resources it accepted, and the
               \* nonce of the last response on the stream
    updates,   \* bound: updates so far
    events     \* bound: rejections, added names and crashes so far

netVars == <<toServer, toClient>>
clientVars == <<using, want, have>>
boundVars == <<updates, events>>
meshVars == <<xdsVars, netVars, clientVars, boundVars>>

MeshInit ==
    /\ XdsInit
    /\ toServer = [s \in Stream |-> <<>>]
    /\ toClient = [s \in Stream |-> <<>>]
    /\ using = Nil
    /\ want = InitialWant
    /\ have = [t \in ResponseType |-> [version |-> NoVersion, items |-> NoItems, nonce |-> 0]]
    /\ updates = 0
    /\ events = 0

-----------------------------------------------------------------------------
(* The sidecar.                                                            *)

(* What it sends on stream s for type t, given the names it wants and what *)
(* it has.                                                                 *)
Subscription(s, t, names, mine) ==
    [msg |-> Message(s, t, mine.version, names), nonce |-> mine.nonce]

(* It opens a new stream, no matter which one, and repeats its             *)
(* subscriptions.                                                          *)
Connect ==
    LET s == CHOOSE r \in Stream : proc[r] = "idle"
    IN  /\ using = Nil
        /\ \E r \in Stream : proc[r] = "idle"
        /\ OpenStream(s)
        /\ using' = s
        /\ have' = [t \in ResponseType |-> [have[t] EXCEPT !.nonce = 0]]
        /\ toServer' = [toServer EXCEPT ![s] =
              [i \in DOMAIN CancelOrder |->
                  Subscription(s, CancelOrder[i], want[CancelOrder[i]], have'[CancelOrder[i]])]]
        /\ UNCHANGED <<toClient, want, boundVars>>

(* It takes the next response and answers it.                              *)
TakeResponse(t, mine) ==
    /\ have' = [have EXCEPT ![t] = mine]
    /\ toClient' = [toClient EXCEPT ![using] = Tail(@)]
    /\ toServer' = [toServer EXCEPT ![using] = Append(@, Subscription(using, t, want[t], mine))]
    /\ UNCHANGED <<xdsVars, using, want, updates>>

AcceptResponse ==
    /\ using # Nil /\ toClient[using] # <<>>
    /\ LET r == Head(toClient[using])
       IN  TakeResponse(r.type, [version |-> r.version, items |-> r.items, nonce |-> r.nonce])
    /\ UNCHANGED events

RejectResponse ==
    /\ using # Nil /\ toClient[using] # <<>> /\ events < MaxEvents
    /\ LET r == Head(toClient[using])
       IN  TakeResponse(r.type, [have[r.type] EXCEPT !.nonce = r.nonce])
    /\ events' = events + 1

(* It subscribes to one more name.                                         *)
AddName(t, n) ==
    /\ using # Nil /\ events < MaxEvents
    /\ want[t] # {} /\ n \notin want[t]
    /\ events' = events + 1
    /\ want' = [want EXCEPT ![t] = @ \cup {n}]
    /\ toServer' = [toServer EXCEPT ![using] =
          Append(@, Subscription(using, t, want'[t], have[t]))]
    /\ UNCHANGED <<xdsVars, toClient, using, have, updates>>

(* It finds its stream broken; what was on its way is lost.                *)
NoticeLoss ==
    /\ using # Nil
    /\ conn[using] = "lost" \/ proc[using] = "stopped"
    /\ using' = Nil
    /\ toServer' = [toServer EXCEPT ![using] = <<>>]
    /\ toClient' = [toClient EXCEPT ![using] = <<>>]
    /\ UNCHANGED <<xdsVars, want, have, boundVars>>

-----------------------------------------------------------------------------
(* The server, with the network at its ends.                               *)
Arrive(s) ==
    /\ toServer[s] # <<>>
    /\ Recv(s, Head(toServer[s]).msg, Head(toServer[s]).nonce)
    /\ toServer' = [toServer EXCEPT ![s] = Tail(@)]
    /\ UNCHANGED <<toClient, clientVars, boundVars>>

(* A step of process; a response that it sends sets the nonce of its type. *)
Serve(s) ==
    LET sent(t) == nonce'[<<s, t>>] # nonce[<<s, t>>]
        response(t) == [type    |-> t,
                        version |-> AnswerFor(<<s, t>>).version,
                        items   |-> AnswerFor(<<s, t>>).items,
                        nonce   |-> nonce'[<<s, t>>]]
    IN  /\ ProcessStep(s)
        /\ toClient' = [toClient EXCEPT ![s] =
              IF \E t \in ResponseType : sent(t)
              THEN Append(@, response(CHOOSE t \in ResponseType : sent(t)))
              ELSE @]
        /\ UNCHANGED <<toServer, clientVars, boundVars>>

ReaderEnds(s) == RecvError(s) /\ UNCHANGED <<netVars, clientVars, boundVars>>

(* The transport breaks, as long as there is a stream left to go on with.  *)
Break(s) ==
    /\ \E r \in Stream : proc[r] = "idle"
    /\ Disconnect(s)
    /\ UNCHANGED <<netVars, clientVars, boundVars>>

(* The updater has something new, or has not published since the start.    *)
PublishUpdate(snapshot) ==
    /\ IF snapshots[Sidecar] = Nil
       THEN UNCHANGED updates
       ELSE updates < MaxUpdates /\ updates' = updates + 1
    /\ UpdateSnapshot(Sidecar, snapshot)
    /\ UNCHANGED <<netVars, clientVars, events>>

(* The control plane dies and starts again: NewSnapshotCache is empty, and *)
(* all streams are gone.                                                   *)
Restart ==
    /\ events < MaxEvents
    /\ \E r \in Stream : proc[r] = "idle"
    /\ events' = events + 1
    /\ snapshots' = [n \in Node |-> Nil]
    /\ status' = {}
    /\ watches' = {}
    /\ watchCount' = 0
    /\ buf' = [ch \in Chan |-> <<>>]
    /\ held' = [c \in Caller |-> NoHandle]
    /\ proc' = [s \in Stream |-> IF proc[s] = "idle" THEN "idle" ELSE "stopped"]
    /\ reader' = [s \in Stream |-> IF reader[s] = "idle" THEN "idle" ELSE "stopped"]
    /\ conn' = [s \in Stream |-> IF proc[s] = "idle" THEN conn[s] ELSE "lost"]
    /\ current' = [s \in Stream |-> Nil]
    /\ offered' = [s \in Stream |-> Nil]
    /\ pending' = [c \in Caller |-> Nil]
    /\ UNCHANGED <<cancelled, nonce, streamNonce, reqClosed, reqStop,
                   netVars, clientVars, updates>>

MeshNext ==
    \/ Connect
    \/ \E s \in Stream : Arrive(s) \/ Serve(s) \/ ReaderEnds(s) \/ Break(s)
    \/ AcceptResponse
    \/ RejectResponse
    \/ \E t \in ResponseType, n \in Name : AddName(t, n)
    \/ NoticeLoss
    \/ \E snapshot \in Snapshots : PublishUpdate(snapshot)
    \/ Restart

(* The server's goroutines run, the network delivers, Envoy reconnects and *)
(* handles what it receives, and the updater publishes after a start.      *)
MeshFairness ==
    /\ \A s \in Stream :
          /\ WF_meshVars(Arrive(s))
          /\ WF_meshVars(Serve(s))
          /\ WF_meshVars(ReaderEnds(s))
    /\ WF_meshVars(Connect)
    /\ WF_meshVars(AcceptResponse \/ RejectResponse)
    /\ WF_meshVars(NoticeLoss)
    /\ WF_meshVars(snapshots[Sidecar] = Nil
                     /\ \E snapshot \in Snapshots : PublishUpdate(snapshot))

MeshSpec == MeshInit /\ [][MeshNext]_meshVars /\ MeshFairness

-----------------------------------------------------------------------------
(* Nothing is on its way on stream s and nobody has anything left to do.   *)
Quiet(s) ==
    /\ using = s
    /\ conn[s] = "open" /\ proc[s] = "select" /\ reader[s] = "recv"
    /\ toServer[s] = <<>> /\ toClient[s] = <<>>
    /\ \A t \in ResponseType : AnswerFor(<<s, t>>) = Nil

Latest(t) == snapshots[Sidecar][t]

(* The resources of type t that the sidecar has asked for from the start.  *)
Asked(t) == IF InitialWant[t] = {} THEN Name ELSE InitialWant[t]

(* A version of type t stands for the same resources in every snapshot: so *)
(* it is with endpoints, the only resources that computeVersion hashes.    *)
VersionsIdentify(t) ==
    \A x, y \in Snapshots : x[t].version = y[t].version => x[t].items = y[t].items

(* The sidecar has the latest version of type t, and the resources of that *)
(* version that it asked for from the start.  A name that it adds later at *)
(* an unchanged version is left out: CreateWatch compares versions only    *)
(* and answers it with the next one, although cache.go says "Value channel *)
(* produces requested resources, once they are available."                 *)
UpToDate(t) ==
    /\ have[t].version = Latest(t).version
    /\ VersionsIdentify(t) =>
          \A n \in Asked(t) : have[t].items[n] = Latest(t).items[n]

(* No update gets lost between the two ends: when a stream is quiet and    *)
(* there is a snapshot, the sidecar has what it asked for of every type    *)
(* and has a watch open for the next one, for the names it wants.  A       *)
(* rejected, outdated or crossing request never ends the conversation, nor *)
(* does a restart leave the sidecar with what the last process served.     *)
QuietMeansCurrent ==
    \A s \in Stream : Quiet(s) =>
        \A t \in ResponseType :
            /\ WaitingFor(<<s, t>>) # Nil
            /\ WaitingFor(<<s, t>>).names = want[t]
            /\ snapshots[Sidecar] # Nil => UpToDate(t)

(* Once the updates, the crashes and the broken streams cease, the sidecar *)
(* ends up with, and keeps, the latest version of what it asked for from   *)
(* the start.                                                              *)
SidecarConverges ==
    <>[](snapshots[Sidecar] # Nil /\ \A t \in ResponseType : UpToDate(t))

-----------------------------------------------------------------------------
(* The named parts of the inductive invariant.                             *)

Incoming == [msg : Messages, nonce : Nat]

Outgoing == [type : ResponseType, version : Version, items : Items, nonce : Nat]

MeshTypeOK ==
    /\ toServer \in [Stream -> Seq(Incoming)]
    /\ toClient \in [Stream -> Seq(Outgoing)]
    /\ using \in Stream \cup {Nil}
    /\ want \in [ResponseType -> SUBSET Name]
    /\ have \in [ResponseType -> [version : Version, items : Items, nonce : Nat]]
    /\ updates \in Nat /\ events \in Nat

(* A stream that was never opened has said nothing, and no nonce is known  *)
(* anywhere before the stream has used it.                                 *)
NoncesKnown ==
    /\ \A s \in Stream :
          /\ proc[s] = "idle" => toClient[s] = <<>> /\ streamNonce[s] = 0
          /\ \A i \in DOMAIN toServer[s] : toServer[s][i].nonce <= streamNonce[s]
          /\ \A i \in DOMAIN toClient[s] : toClient[s][i].nonce <= streamNonce[s]
    /\ using # Nil => \A t \in ResponseType : have[t].nonce <= streamNonce[using]

(* The messages on stream s that process takes for requests of type t.     *)
Asks(s, t) == {o \in Incoming : WithType(o.msg, StreamType[s]).type = t}

NoneOf(queue, S) == \A i \in DOMAIN queue : queue[i] \notin S

LastOf(queue, S, x) ==
    \A i \in DOMAIN queue :
        queue[i] \in S /\ (\A j \in DOMAIN queue : queue[j] \in S => j <= i) => queue[i] = x

(* Both ends of the sidecar's stream are at work.                          *)
Live(s) ==
    /\ using = s /\ conn[s] = "open"
    /\ proc[s] \in {"select", "create"} /\ reader[s] \in {"recv", "offer"}

(* Responses arrive in the order of their nonces, those of a type after    *)
(* the one the sidecar handled last, and the last one sent has been        *)
(* handled or is on its way.                                               *)
ResponsesInOrder(s) ==
    /\ \A i, j \in DOMAIN toClient[s] : i < j => toClient[s][i].nonce < toClient[s][j].nonce
    /\ \A t \in ResponseType :
          LET due == {i \in DOMAIN toClient[s] : toClient[s][i].type = t}
          IN  /\ \A i \in due : /\ have[t].nonce < toClient[s][i].nonce
                                /\ toClient[s][i].nonce <= nonce[<<s, t>>]
              /\ \/ have[t].nonce = nonce[<<s, t>>]
                 \/ \E i \in due : toClient[s][i].nonce = nonce[<<s, t>>]

(* The last request for a type says what the sidecar wants and has, while  *)
(* it is on its way and when it is handed to process.  Once it is read it  *)
(* is the pending one, unless a response that it crossed is on its way.    *)
RequestsRemembered(s, t) ==
    LET mine    == Subscription(s, t, want[t], have[t])
        handing == reader[s] = "offer" /\ offered[s] \in Asks(s, t)
    IN  /\ LastOf(toServer[s], Asks(s, t), mine)
        /\ NoneOf(toServer[s], Asks(s, t)) =>
              IF handing
              THEN offered[s] = mine
              ELSE have[t].nonce = nonce[<<s, t>>] =>
                      pending[<<s, t>>] = WithType(mine.msg, StreamType[s])

Conversation ==
    \A s \in Stream : Live(s) =>
        ResponsesInOrder(s) /\ \A t \in ResponseType : RequestsRemembered(s, t)

(* The sidecar keeps asking for what it asked for at first.                *)
Wants(t, names) ==
    IF InitialWant[t] = {} THEN names = {} ELSE InitialWant[t] \subseteq names

(* A message on stream s that asks for all of that.                        *)
Asking(s, o) == \E t \in ResponseType : o \in Asks(s, t) /\ Wants(t, o.msg.names)

WantsKept ==
    /\ \A t \in ResponseType : Wants(t, want[t])
    /\ \A s \in Stream :
          /\ \A i \in DOMAIN toServer[s] : Asking(s, toServer[s][i])
          /\ reader[s] = "offer" => Asking(s, offered[s])
          /\ \A t \in ResponseType : pending[<<s, t>>] # Nil =>
                pending[<<s, t>>].type = t /\ Wants(t, pending[<<s, t>>].names)

(* One published snapshot has this version of type t and these resources,  *)
(* and of those that the sidecar asked for from the start none is missing. *)
Copied(t, x) ==
    \E snapshot \in Snapshots :
        /\ x.version = snapshot[t].version
        /\ \A n \in Name : \/ x.items[n] = snapshot[t].items[n]
                           \/ n \notin Asked(t) /\ x.items[n] = Nil

(* The sidecar never mixes two snapshots: what it has of a type, or is on  *)
(* its way to it, is from a single one, also when the control plane dies   *)
(* and when responses are rejected or cross its requests.                  *)
SidecarConsistent ==
    /\ \A t \in ResponseType :
          \/ have[t].version = NoVersion /\ have[t].items = NoItems
          \/ Copied(t, have[t])
    /\ \A s \in Stream : \A i \in DOMAIN toClient[s] :
          Copied(toClient[s][i].type, toClient[s][i])

(* The inductive invariant of the two ends and the network: that of the    *)
(* server and the cache, and what the last request, the pending one and    *)
(* the last response of every type have to do with each other.             *)
MeshInv ==
    /\ StreamInv
    /\ AnswersGenuine
    /\ MeshTypeOK
    /\ NoncesKnown
    /\ Conversation
    /\ WantsKept
    /\ SidecarConsistent
=============================================================================
