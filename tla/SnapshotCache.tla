--------------------------- MODULE SnapshotCache ---------------------------
(***************************************************************************)
(* The snapshot cache of pkg/cache/simple.go and pkg/cache/status.go.      *)
(*                                                                         *)
(* Every exported method runs its whole body under cache.mu, so each one   *)
(* is a single action.  CreateWatch returns a response channel and an      *)
(* optional cancel function; what a caller keeps of them is held[c].       *)
(***************************************************************************)
EXTENDS Snapshot

CONSTANTS
    Caller,      \* who holds the result of CreateWatch
    Chan,        \* channel objects; an unreachable one is garbage collected
    Snapshots,   \* the snapshots the owner of the cache may set
    Requests,    \* the requests callers may make
    MaxWatches   \* bound: the run opens at most this many watches

ASSUME CacheAssumption ==
    /\ Nil \notin Chan \cup [node : Node, id : Nat]
    /\ Snapshots \subseteq SnapshotSet
    /\ Requests \subseteq Request
    /\ MaxWatches \in Nat

VARIABLES
    snapshots,   \* cache.snapshots, Nil where the map has no entry
    status,      \* the keys of cache.status
    watches,     \* the statusInfo.watches of all nodes
    watchCount,  \* cache.watchCount
    buf,         \* the contents of every channel
    held         \* the channel and the cancel function each caller keeps

cacheVars == <<snapshots, status, watches, watchCount, buf, held>>

Cancel == [node : Node, id : Nat]

Watch == [node : Node, id : Nat, request : Request, chan : Chan]

Handle == [chan : Chan \cup {Nil}, cancel : Cancel \cup {Nil}]

CacheTypeOK ==
    /\ snapshots \in [Node -> SnapshotSet \cup {Nil}]
    /\ status \subseteq Node
    /\ watches \subseteq Watch
    /\ watchCount \in Nat
    /\ buf \in [Chan -> Seq(Response)]
    /\ held \in [Caller -> Handle]

NoHandle == [chan |-> Nil, cancel |-> Nil]

CacheInit ==
    /\ snapshots = [n \in Node |-> Nil]
    /\ status = {}
    /\ watches = {}
    /\ watchCount = 0
    /\ buf = [ch \in Chan |-> <<>>]
    /\ held = [c \in Caller |-> NoHandle]

-----------------------------------------------------------------------------
(* respond sends on the watch's channel unless the response is withheld.   *)
(* The channel has capacity one; a send on a full one would block with     *)
(* cache.mu held, which the model shows as a channel with two elements.    *)
Respond(contents, request, items, version) ==
    IF Withheld(request, items)
    THEN contents
    ELSE Append(contents, CreateResponse(request, items, version))

(* SetSnapshot without the comparison of versions.                         *)
TriggeredAlways(n, snapshot) == {w \in watches : w.node = n}

(* The open watches of node n whose version is not the snapshot's.         *)
Triggered(n, snapshot) ==
    {w \in watches : /\ w.node = n
                     /\ GetVersion(snapshot, w.request.type) # w.request.version}

(* SetSnapshot with "delete(info.watches, id)" forgotten.                  *)
SetSnapshotKeepingWatches(n, snapshot) ==
    /\ snapshots' = [snapshots EXCEPT ![n] = snapshot]
    /\ buf' = [ch \in Chan |->
                 IF \E w \in Triggered(n, snapshot) : w.chan = ch
                 THEN LET w == CHOOSE w \in Triggered(n, snapshot) : w.chan = ch
                      IN  Respond(buf[ch], w.request,
                                  GetResources(snapshot, w.request.type),
                                  GetVersion(snapshot, w.request.type))
                 ELSE buf[ch]]
    /\ UNCHANGED <<status, watches, watchCount, held>>

(* SetSnapshot storing the snapshot without triggering the watches.        *)
SetSnapshotSilently(n, snapshot) ==
    /\ snapshots' = [snapshots EXCEPT ![n] = snapshot]
    /\ UNCHANGED <<status, watches, watchCount, buf, held>>

(* SetSnapshot answering from the entry it has just replaced.              *)
SetSnapshotStale(n, snapshot) ==
    LET triggered == Triggered(n, snapshot)
    IN  /\ snapshots' = [snapshots EXCEPT ![n] = snapshot]
        /\ buf' = [ch \in Chan |->
                     IF \E w \in triggered : w.chan = ch
                     THEN LET w == CHOOSE w \in triggered : w.chan = ch
                          IN  Respond(buf[ch], w.request,
                                      GetResources(snapshots[n], w.request.type),
                                      GetVersion(snapshot, w.request.type))
                     ELSE buf[ch]]
        /\ watches' = watches \ triggered
        /\ UNCHANGED <<status, watchCount, held>>

(* SetSnapshot discarding the watches that it does not answer as well.     *)
SetSnapshotDropping(n, snapshot) ==
    LET triggered == Triggered(n, snapshot)
    IN  /\ snapshots' = [snapshots EXCEPT ![n] = snapshot]
        /\ buf' = [ch \in Chan |->
                     IF \E w \in triggered : w.chan = ch
                     THEN LET w == CHOOSE w \in triggered : w.chan = ch
                          IN  Respond(buf[ch], w.request,
                                      GetResources(snapshot, w.request.type),
                                      GetVersion(snapshot, w.request.type))
                     ELSE buf[ch]]
        /\ watches' = {w \in watches : w.node # n}
        /\ UNCHANGED <<status, watchCount, held>>

(* SetSnapshot answers and discards every open watch of the node that has  *)
(* another version than the snapshot.                                      *)
SetSnapshot(n, snapshot) ==
    LET triggered == Triggered(n, snapshot)
    IN  /\ snapshots' = [snapshots EXCEPT ![n] = snapshot]
        /\ buf' = [ch \in Chan |->
                     IF \E w \in triggered : w.chan = ch
                     THEN LET w == CHOOSE w \in triggered : w.chan = ch
                          IN  Respond(buf[ch], w.request,
                                      GetResources(snapshot, w.request.type),
                                      GetVersion(snapshot, w.request.type))
                     ELSE buf[ch]]
        /\ watches' = watches \ triggered
        /\ UNCHANGED <<status, watchCount, held>>

(* ClearSnapshot without "delete(cache.status, node)".                     *)
ClearSnapshotOnly(n) ==
    /\ snapshots' = [snapshots EXCEPT ![n] = Nil]
    /\ UNCHANGED <<status, watches, watchCount, buf, held>>

(* ClearSnapshot drops the snapshot and the whole statusInfo of the node:  *)
(* its open watches are forgotten and never answered.                      *)
ClearSnapshot(n) ==
    /\ snapshots' = [snapshots EXCEPT ![n] = Nil]
    /\ status' = status \ {n}
    /\ watches' = {w \in watches : w.node # n}
    /\ UNCHANGED <<watchCount, buf, held>>

-----------------------------------------------------------------------------
FreeChan == Chan \ ({w.chan : w \in watches} \cup {held[c].chan : c \in Caller})

(* make(chan Response, 1), and the caller's previous channel is dropped    *)
(* together with what it still held.                                       *)
MakeChan(c, ch, contents) ==
    buf' = [x \in Chan |-> IF x = ch THEN contents
                           ELSE IF x = held[c].chan THEN <<>> ELSE buf[x]]

(* CreateWatch numbering the watches of all callers alike.                 *)
OpenWatchUnnumbered(c, request, ch) ==
    LET n == NodeID(request)
    IN  /\ snapshots[n] = Nil \/ request.version = GetVersion(snapshots[n], request.type)
        /\ watchCount' = 1
        /\ watches' = watches \cup
              {[node |-> n, id |-> 1, request |-> request, chan |-> ch]}
        /\ held' = [held EXCEPT ![c] =
              [chan |-> ch, cancel |-> [node |-> n, id |-> 1]]]
        /\ MakeChan(c, ch, <<>>)

(* The request is up to date, or there is no snapshot yet: leave a watch   *)
(* open and return a cancel function for it.                               *)
OpenWatch(c, request, ch) ==
    LET n  == NodeID(request)
        id == watchCount + 1
    IN  /\ snapshots[n] = Nil \/ request.version = GetVersion(snapshots[n], request.type)
        /\ watchCount' = id
        /\ watches' = watches \cup
              {[node |-> n, id |-> id, request |-> request, chan |-> ch]}
        /\ held' = [held EXCEPT ![c] =
              [chan |-> ch, cancel |-> [node |-> n, id |-> id]]]
        /\ MakeChan(c, ch, <<>>)

(* The snapshot has another version: respond at once, no cancel function.  *)
AnswerAtOnce(c, request, ch) ==
    LET snapshot == snapshots[NodeID(request)]
        version  == GetVersion(snapshot, request.type)
    IN  /\ snapshot # Nil /\ request.version # version
        /\ held' = [held EXCEPT ![c] = [chan |-> ch, cancel |-> Nil]]
        /\ MakeChan(c, ch, Respond(<<>>, request,
                                   GetResources(snapshot, request.type), version))
        /\ UNCHANGED <<watches, watchCount>>

(* make returns the channel ch, which nobody refers to.                    *)
CreateWatch(c, request, ch) ==
    /\ ch \in FreeChan
    /\ status' = status \cup {NodeID(request)}
    /\ OpenWatch(c, request, ch) \/ AnswerAtOnce(c, request, ch)
    /\ UNCHANGED snapshots

(* What a cancel function does: cancelWatch's closure.                     *)
Cancelled(cancel) ==
    IF cancel # Nil /\ cancel.node \in status
    THEN {w \in watches : w.node = cancel.node /\ w.id = cancel.id}
    ELSE {}

(* The caller runs its cancel function; it keeps it and may run it again.  *)
CancelWatch(c) ==
    /\ held[c].cancel # Nil
    /\ watches' = watches \ Cancelled(held[c].cancel)
    /\ UNCHANGED <<snapshots, status, watchCount, buf, held>>

(* The caller receives from its channel.                                   *)
Receive(c) ==
    /\ held[c].chan # Nil
    /\ buf[held[c].chan] # <<>>
    /\ buf' = [buf EXCEPT ![held[c].chan] = Tail(@)]
    /\ UNCHANGED <<snapshots, status, watches, watchCount, held>>

(* Fetch answering only a client that has no version yet.                  *)
FetchFirstOnly(request) ==
    LET snapshot == snapshots[NodeID(request)]
    IN  IF snapshot = Nil \/ request.version # NoVersion THEN Nil
        ELSE CreateResponse(request, GetResources(snapshot, request.type),
                            GetVersion(snapshot, request.type))

(* Fetch answers a poll from the current snapshot; it changes nothing.     *)
(* Nil stands for its two errors, "missing snapshot" and "up to date".     *)
Fetch(request) ==
    LET snapshot == snapshots[NodeID(request)]
        version  == GetVersion(snapshot, request.type)
    IN  IF snapshot = Nil \/ request.version = version
        THEN Nil
        ELSE CreateResponse(request, GetResources(snapshot, request.type), version)

-----------------------------------------------------------------------------
CacheNext ==
    \/ \E n \in Node, snapshot \in Snapshots : SetSnapshot(n, snapshot)
    \/ \E n \in Node : ClearSnapshot(n)
    \/ \E c \in Caller, request \in Requests :
           watchCount < MaxWatches /\ \E ch \in Chan : CreateWatch(c, request, ch)
    \/ \E c \in Caller : CancelWatch(c)
    \/ \E c \in Caller : Receive(c)

CacheSpec == CacheInit /\ [][CacheNext]_cacheVars

-----------------------------------------------------------------------------
(* The named parts of the inductive invariant.                             *)

(* Watch IDs and channels identify an open watch, whatever its node.       *)
WatchesDistinct ==
    /\ \A w \in watches : w.id <= watchCount
    /\ \A v, w \in watches : v.id = w.id \/ v.chan = w.chan => v = w

(* An open watch is filed under the node of its request, and that node has *)
(* a status entry, so a cancel function finds it.                          *)
WatchesFiled ==
    \A w \in watches : w.node = NodeID(w.request) /\ w.node \in status

(* The channel of an open watch is still empty.                            *)
OpenChannelsEmpty == \A w \in watches : buf[w.chan] = <<>>

(* No send of respond ever blocks: no channel is asked to hold more than   *)
(* the one element it has room for.  A blocked send would keep cache.mu    *)
(* and info.mu locked and stop every stream and the updater.               *)
ChannelsNeverBlock == \A ch \in Chan : Len(buf[ch]) <= 1

(* A caller's channel is its own.                                          *)
HandlesDistinct ==
    \A c, d \in Caller : held[c].chan = held[d].chan /\ held[c].chan # Nil => c = d

(* A cancel function, however old, closes only the watch CreateWatch       *)
(* returned it with: a watch that has its node and ID sends to the channel *)
(* the caller still holds, and the watch on that channel is that one.      *)
CancelIsOwn ==
    \A c \in Caller, w \in watches :
        w.chan = held[c].chan <=> held[c].cancel = [node |-> w.node, id |-> w.id]

(* Every cancel function carries an ID that was really given out, so none  *)
(* can meet a watch opened later.                                          *)
CancelsIssued ==
    \A c \in Caller : held[c].cancel # Nil => held[c].cancel.id <= watchCount

(* An open watch has nothing to wait for but a newer snapshot: its node    *)
(* has no snapshot, or the one its request acknowledges.  No update is     *)
(* lost between SetSnapshot and CreateWatch in any order of the two.       *)
OpenWatchesCurrent ==
    \A w \in watches :
        \/ snapshots[w.node] = Nil
        \/ GetVersion(snapshots[w.node], w.request.type) = w.request.version

CacheInv ==
    /\ CacheTypeOK
    /\ WatchesDistinct
    /\ WatchesFiled
    /\ OpenChannelsEmpty
    /\ ChannelsNeverBlock
    /\ HandlesDistinct
    /\ CancelIsOwn
    /\ CancelsIssued
    /\ OpenWatchesCurrent

-----------------------------------------------------------------------------
(* What a watch is sent where a poll is answered with fetched: the same,   *)
(* or nothing if the poll is refused or ADS mode withholds it.             *)
SentAs(contents, fetched) ==
    \/ fetched = Nil /\ contents = <<>>
    \/ fetched # Nil /\ contents = <<fetched>>
    \/ ADS /\ contents = <<>>

(* Polling and watching agree: a Fetch is refused exactly where a watch    *)
(* with the same request waits, when the watch is created and whenever a   *)
(* snapshot is set, and is answered with what the watch is sent.           *)
FetchAgrees ==
    [][/\ \A c \in Caller, request \in Requests, ch \in Chan :
             CreateWatch(c, request, ch) =>
                 /\ Fetch(request) = Nil <=> \E w \in watches' : w.chan = ch
                 /\ SentAs(buf'[ch], Fetch(request))
       /\ \A n \in Node, snapshot \in Snapshots :
             SetSnapshot(n, snapshot) =>
                 \A w \in watches :
                     /\ Fetch(w.request)' = Nil <=> w \in watches'
                     /\ SentAs(buf'[w.chan], Fetch(w.request)')
      ]_cacheVars

(* No response is sent for nothing: what a caller's channel holds has      *)
(* another version than the request it answers, whether SetSnapshot or     *)
(* CreateWatch put it there.                                               *)
NoEmptyUpdate ==
    \A c \in Caller :
        held[c].chan # Nil =>
            \A i \in DOMAIN buf[held[c].chan] :
                LET r == buf[held[c].chan][i] IN r.version # r.request.version

(* "In ADS mode, EDS/RDS requests are responded only when all resources in *)
(* the snapshot xDS response are named": in ADS mode a response never      *)
(* leaves out a resource of the snapshot it was made from.                 *)
NoPartialAnswer ==
    ADS => \A ch \in Chan : \A i \in DOMAIN buf[ch] :
              \E snapshot \in Snapshots :
                  LET r == buf[ch][i]
                  IN  /\ r.version = GetVersion(snapshot, r.request.type)
                      /\ r.items = GetResources(snapshot, r.request.type)

(* The response is the answer to its request from a snapshot that was      *)
(* published, had news for it and was not to be withheld.                  *)
Genuine(response) ==
    \E snapshot \in Snapshots :
        LET request == response.request
            items   == GetResources(snapshot, request.type)
            version == GetVersion(snapshot, request.type)
        IN  /\ version # request.version
            /\ ~ Withheld(request, items)
            /\ response = CreateResponse(request, items, version)

(* Every response that waits in a channel, also in one its caller has left *)
(* behind, is the whole answer to its request from one published snapshot: *)
(* no response mixes two snapshots, whatever replaced the entry meanwhile. *)
AnswersGenuine ==
    /\ \A n \in Node : snapshots[n] \in Snapshots \cup {Nil}
    /\ \A ch \in Chan : \A i \in DOMAIN buf[ch] : Genuine(buf[ch][i])

(* "This method will cause the server to respond to all open watches, for  *)
(* which the version differs": when the snapshot of a node is replaced, a  *)
(* watch of the node stays open if it has the new version, and otherwise   *)
(* its channel holds the response made from the new snapshot and nothing   *)
(* else, unless the response is withheld in ADS mode.                      *)
SetSnapshotAnswers ==
    [][\A w \in watches :
         LET snapshot == snapshots'[w.node]
             version  == GetVersion(snapshot, w.request.type)
             items    == GetResources(snapshot, w.request.type)
         IN  snapshot # snapshots[w.node] /\ snapshot # Nil =>
               IF version = w.request.version
               THEN w \in watches'
               ELSE /\ w \notin watches'
                    /\ ~ Withheld(w.request, items) =>
                          buf'[w.chan] = <<CreateResponse(w.request, items, version)>>
      ]_cacheVars

(* Outside ADS mode a caller is never forgotten: as long as the status of  *)
(* its node stands, the watch on its channel leaves the cache only by      *)
(* being answered or by the caller's own cancel function.                  *)
NeverDropped ==
    [][\A c \in Caller, w \in watches :
         /\ ~ ADS
         /\ w.chan = held[c].chan
         /\ w \notin watches'
         /\ w.node \in status'
         => buf'[w.chan] # <<>> \/ CancelWatch(c)]_cacheVars

-----------------------------------------------------------------------------
(* What a caller sees of the cache through the channel it holds.           *)
WaitingFor(c) ==
    IF \E w \in watches : w.chan = held[c].chan
    THEN (CHOOSE w \in watches : w.chan = held[c].chan).request
    ELSE Nil

AnswerFor(c) ==
    IF held[c].chan = Nil \/ buf[held[c].chan] = <<>>
    THEN Nil
    ELSE Head(buf[held[c].chan])

Watcher == INSTANCE ConfigWatcher WITH
              published <- snapshots,
              waiting   <- [c \in Caller |-> WaitingFor(c)],
              answer    <- [c \in Caller |-> AnswerFor(c)]

(* The cache implements the ConfigWatcher interface: with IDs, channels,   *)
(* status entries and cancel functions hidden, every step is a step of the *)
(* abstract subscription service or no step at all.  A watch that another  *)
(* caller leaked, an old cancel function or a second response would show.  *)
ImplementsConfigWatcher == Watcher!WatcherSpec
=============================================================================
