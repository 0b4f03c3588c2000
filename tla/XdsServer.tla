----------------------------- MODULE XdsServer -----------------------------
(***************************************************************************)
(* The streaming server of pkg/server/server.go on top of the snapshot     *)
(* cache.  Per stream there are two goroutines: process, which selects     *)
(* between the response channels of its watches and the request channel,   *)
(* and a reader that turns blocking Recv calls into sends on that channel. *)
(* The owner of the cache (the updater) calls SetSnapshot concurrently.    *)
(*                                                                         *)
(* Cancelling a watch and creating the next one are two critical sections  *)
(* of cache.mu, so they are two steps; so is each cancel of the deferred   *)
(* Cancel.  A stream stands for its streamID (an atomic counter).          *)
(***************************************************************************)
EXTENDS SnapshotCache

CONSTANTS
    Stream,        \* the streams the run opens
    StreamType,    \* defaultTypeURL of each stream; AnyType for ADS
    AnyType,       \* cache.AnyType, the empty type URL
    CancelOrder,   \* the order in which watches.Cancel visits the types
    Callbacks,     \* whether the server has callbacks, which may fail
    BadContent,    \* payloads that proto.Marshal refuses
    Messages,      \* the requests clients send; AnyType is no type URL
    MaxNonce       \* bound: a client that was sent this many responses on a
                   \* stream is silent.  Up to there, and as long as fewer
                   \* than MaxWatches watches were opened, requests may arrive
                   \* for ever.

(* process substitutes the stream's own type URL for an empty one.         *)
WithType(m, type) == IF m.type = AnyType THEN [m EXCEPT !.type = type] ELSE m

(* What the reader hands to process; Recv may yield no message at all.     *)
Offer == [msg : Messages \cup {Nil}, nonce : Nat]

ASSUME XdsAssumption ==
    /\ AnyType \notin Type
    /\ StreamType \in [Stream -> ResponseType \cup {AnyType}]
    /\ Caller = Stream \X ResponseType
    /\ CancelOrder \in Seq(ResponseType)
    /\ \A t \in ResponseType : \E i \in 1..Len(CancelOrder) : CancelOrder[i] = t
    /\ Callbacks \in BOOLEAN
    /\ BadContent \subseteq Content
    /\ Nil \notin Messages \cup Offer
    /\ \A m \in Messages :
          /\ m \in [node : Node \cup {Nil}, type : Type \cup {AnyType},
                    version : Version, names : SUBSET Name]
          /\ \A t \in ResponseType : WithType(m, t) \in Requests
    /\ MaxNonce \in Nat

VARIABLES
    proc,         \* where the process goroutine of a stream is
    current,      \* the request it is about to create a watch for
    cancelled,    \* how many watches the deferred Cancel has visited
    nonce,        \* the last nonce sent per stream and type, 0 for ""
    streamNonce,  \* the nonce generator of a stream
    reader,       \* where the reader goroutine of a stream is
    offered,      \* the request it is sending on reqCh, with its nonce
    reqClosed,    \* reqCh is closed
    reqStop,      \* the reqStop flag
    conn,         \* the transport: "open", "half" (client done) or "lost"
    pending       \* the accepted request that has no response yet, or Nil

procVars == <<proc, current, cancelled, nonce, streamNonce, pending>>
readerVars == <<reader, offered, reqClosed>>
serverVars == <<procVars, readerVars, reqStop, conn>>
xdsVars == <<cacheVars, serverVars>>

XdsTypeOK ==
    /\ CacheTypeOK
    /\ proc \in [Stream -> {"idle", "select", "create", "closing", "returned", "stopped"}]
    /\ current \in [Stream -> Request \cup {Nil}]
    /\ cancelled \in [Stream -> 0..Len(CancelOrder)]
    /\ nonce \in [Caller -> Nat]
    /\ streamNonce \in [Stream -> Nat]
    /\ reader \in [Stream -> {"idle", "recv", "offer", "stopped"}]
    /\ offered \in [Stream -> Offer \cup {Nil}]
    /\ reqClosed \in [Stream -> BOOLEAN]
    /\ reqStop \in [Stream -> BOOLEAN]
    /\ conn \in [Stream -> {"open", "half", "lost"}]
    /\ pending \in [Caller -> Request \cup {Nil}]

XdsInit ==
    /\ CacheInit
    /\ proc = [s \in Stream |-> "idle"]
    /\ current = [s \in Stream |-> Nil]
    /\ cancelled = [s \in Stream |-> 0]
    /\ nonce = [c \in Caller |-> 0]
    /\ streamNonce = [s \in Stream |-> 0]
    /\ reader = [s \in Stream |-> "idle"]
    /\ offered = [s \in Stream |-> Nil]
    /\ reqClosed = [s \in Stream |-> FALSE]
    /\ reqStop = [s \in Stream |-> FALSE]
    /\ conn = [s \in Stream |-> "open"]
    /\ pending = [c \in Caller |-> Nil]

-----------------------------------------------------------------------------
(* handler starts the reader and enters process; OnStreamOpen may fail.    *)
OpenStream(s) ==
    /\ proc[s] = "idle"
    /\ reader' = [reader EXCEPT ![s] = "recv"]
    /\ \/ proc' = [proc EXCEPT ![s] = "select"]
       \/ Callbacks /\ proc' = [proc EXCEPT ![s] = "closing"]
    /\ UNCHANGED <<cacheVars, current, cancelled, nonce, streamNonce, pending,
                   offered, reqClosed, reqStop, conn>>

(* The client closes its direction of the stream: responses still reach it *)
CloseSend(s) ==
    /\ proc[s] # "idle" /\ conn[s] = "open"
    /\ conn' = [conn EXCEPT ![s] = "half"]
    /\ UNCHANGED <<cacheVars, procVars, readerVars, reqStop>>

(* The transport breaks.                                                   *)
Disconnect(s) ==
    /\ proc[s] # "idle" /\ conn[s] # "lost"
    /\ conn' = [conn EXCEPT ![s] = "lost"]
    /\ UNCHANGED <<cacheVars, procVars, readerVars, reqStop>>

-----------------------------------------------------------------------------
(* The reader: Recv returns the request m with nonce k, and it is offered   *)
(* on the unbuffered reqCh.                                                *)
Recv(s, m, k) ==
    /\ reader[s] = "recv" /\ conn[s] = "open"
    /\ streamNonce[s] < MaxNonce /\ watchCount < MaxWatches
    /\ IF reqStop[s]
       THEN reader' = [reader EXCEPT ![s] = "stopped"] /\ UNCHANGED offered
       ELSE /\ reader' = [reader EXCEPT ![s] = "offer"]
            /\ offered' = [offered EXCEPT ![s] = [msg |-> m, nonce |-> k]]
    /\ UNCHANGED <<cacheVars, procVars, reqClosed, reqStop, conn>>

(* The reader leaving without closing reqCh.                               *)
RecvErrorUnclosed(s) ==
    /\ reader[s] = "recv" /\ (conn[s] # "open" \/ proc[s] = "stopped")
    /\ reader' = [reader EXCEPT ![s] = "stopped"]
    /\ UNCHANGED <<cacheVars, procVars, offered, reqClosed, reqStop, conn>>

(* Recv fails: end of input, a lost transport, or handler has returned.    *)
RecvError(s) ==
    /\ reader[s] = "recv" /\ (conn[s] # "open" \/ proc[s] = "stopped")
    /\ reader' = [reader EXCEPT ![s] = "stopped"]
    /\ reqClosed' = [reqClosed EXCEPT ![s] = ~ reqStop[s]]
    /\ UNCHANGED <<cacheVars, procVars, offered, reqStop, conn>>

-----------------------------------------------------------------------------
(* process receives from reqCh: the reader goes back to Recv.              *)
FromReader(s) ==
    /\ proc[s] = "select" /\ reader[s] = "offer"
    /\ reader' = [reader EXCEPT ![s] = "recv"]
    /\ offered' = [offered EXCEPT ![s] = Nil]
    /\ UNCHANGED reqClosed

(* A request without type URL on an ADS stream, or no request at all.      *)
Malformed(s, m) == m # Nil => m.type = AnyType /\ StreamType[s] = AnyType

(* The request ends the stream: malformed, or refused by OnStreamRequest.  *)
RefuseRequest(s) ==
    /\ FromReader(s)
    /\ Malformed(s, offered[s].msg) \/ Callbacks
    /\ proc' = [proc EXCEPT ![s] = "closing"]
    /\ UNCHANGED <<cacheVars, current, cancelled, nonce, streamNonce, pending,
                   reqStop, conn>>

(* The switch accepting only what precedes the first response.             *)
AcceptsUnanswered(s, type, k) ==
    /\ type \in ResponseType
    /\ nonce[<<s, type>>] = 0

(* The switch of process: a type with a watch slot and no stale nonce.     *)
Accepts(s, type, k) ==
    /\ type \in ResponseType
    /\ nonce[<<s, type>>] = 0 \/ nonce[<<s, type>>] = k

(* No case of the switch applies: the request is ignored.                  *)
IgnoreRequest(s) ==
    LET m == offered[s].msg
    IN  /\ FromReader(s)
        /\ ~ Malformed(s, m)
        /\ ~ Accepts(s, WithType(m, StreamType[s]).type, offered[s].nonce)
        /\ UNCHANGED <<cacheVars, procVars, reqStop, conn>>

(* The case forgetting to cancel the watch of its slot.                    *)
AcceptUncancelled(s) ==
    LET m       == offered[s].msg
        request == WithType(m, StreamType[s])
        c       == <<s, request.type>>
    IN  /\ FromReader(s)
        /\ ~ Malformed(s, m)
        /\ Accepts(s, request.type, offered[s].nonce)
        /\ proc' = [proc EXCEPT ![s] = "create"]
        /\ current' = [current EXCEPT ![s] = request]
        /\ pending' = [pending EXCEPT ![c] = request]
        /\ UNCHANGED <<cacheVars, cancelled, nonce, streamNonce, reqStop, conn>>

(* A case applies; the watch that its slot holds is cancelled first.       *)
AcceptRequest(s) ==
    LET m       == offered[s].msg
        request == WithType(m, StreamType[s])
        c       == <<s, request.type>>
    IN  /\ FromReader(s)
        /\ ~ Malformed(s, m)
        /\ Accepts(s, request.type, offered[s].nonce)
        /\ IF held[c].cancel # Nil THEN CancelWatch(c) ELSE UNCHANGED cacheVars
        /\ proc' = [proc EXCEPT ![s] = "create"]
        /\ current' = [current EXCEPT ![s] = request]
        /\ pending' = [pending EXCEPT ![c] = request]
        /\ UNCHANGED <<cancelled, nonce, streamNonce, reqStop, conn>>

(* The slot takes over the channel and cancel function of a new watch.     *)
(* Which free channel it gets does not matter to anybody.                  *)
CreateRequested(s) ==
    /\ proc[s] = "create"
    /\ FreeChan # {}
    /\ CreateWatch(<<s, current[s].type>>, current[s], CHOOSE ch \in FreeChan : TRUE)
    /\ proc' = [proc EXCEPT ![s] = "select"]
    /\ current' = [current EXCEPT ![s] = Nil]
    /\ UNCHANGED <<cancelled, nonce, streamNonce, pending, readerVars, reqStop, conn>>

-----------------------------------------------------------------------------
(* A select that looks at the watches only when no request waits.          *)
FromWatchUnlessAsked(s, type) ==
    proc[s] = "select" /\ reader[s] # "offer" /\ Receive(<<s, type>>)

(* process receives a response of the given type from its watch channel.   *)
(* The case that the channel is closed is left out: no cache closes it.    *)
FromWatch(s, type) == proc[s] = "select" /\ Receive(<<s, type>>)

Unencodable(response) == \E n \in Name : response.items[n] \in BadContent

(* send with one nonce generator per type.                                 *)
SendPerTypeNonce(s, type) ==
    /\ FromWatch(s, type)
    /\ ~ Unencodable(Head(buf[held[<<s, type>>].chan]))
    /\ conn[s] # "lost"
    /\ streamNonce' = [streamNonce EXCEPT ![s] = @ + 1]
    /\ nonce' = [nonce EXCEPT ![<<s, type>>] = @ + 1]
    /\ pending' = [pending EXCEPT ![<<s, type>>] = Nil]
    /\ UNCHANGED <<proc, current, cancelled, readerVars, reqStop, conn>>

(* send: the response goes out with the next nonce of the stream.  Only    *)
(* the reader could act during a Send that gRPC's flow control holds up;   *)
(* that the client goes on reading, or its transport breaks, is assumed.   *)
SendResponse(s, type) ==
    /\ FromWatch(s, type)
    /\ ~ Unencodable(Head(buf[held[<<s, type>>].chan]))
    /\ conn[s] # "lost"
    /\ streamNonce' = [streamNonce EXCEPT ![s] = @ + 1]
    /\ nonce' = [nonce EXCEPT ![<<s, type>>] = streamNonce[s] + 1]
    /\ pending' = [pending EXCEPT ![<<s, type>>] = Nil]
    /\ UNCHANGED <<proc, current, cancelled, readerVars, reqStop, conn>>

(* createResponse or stream.Send fails, which ends the stream.             *)
SendError(s, type) ==
    LET failed == Unencodable(Head(buf[held[<<s, type>>].chan]))
    IN  /\ FromWatch(s, type)
        /\ failed \/ conn[s] = "lost"
        /\ streamNonce' = [streamNonce EXCEPT ![s] = IF failed THEN @ ELSE @ + 1]
        /\ proc' = [proc EXCEPT ![s] = "closing"]
        /\ UNCHANGED <<current, cancelled, nonce, pending, readerVars, reqStop, conn>>

(* reqCh is closed: the input stream ended.                                *)
InputEnded(s) ==
    /\ proc[s] = "select" /\ reqClosed[s]
    /\ proc' = [proc EXCEPT ![s] = "closing"]
    /\ UNCHANGED <<cacheVars, current, cancelled, nonce, streamNonce, pending,
                   readerVars, reqStop, conn>>

(* One cancel of the deferred values.Cancel().                             *)
CancelNext(s) ==
    LET c == <<s, CancelOrder[cancelled[s] + 1]>>
    IN  /\ proc[s] = "closing" /\ cancelled[s] < Len(CancelOrder)
        /\ IF held[c].cancel # Nil THEN CancelWatch(c) ELSE UNCHANGED cacheVars
        /\ cancelled' = [cancelled EXCEPT ![s] = @ + 1]
        /\ UNCHANGED <<proc, current, nonce, streamNonce, pending, readerVars,
                       reqStop, conn>>

(* OnStreamClosed, and process returns.                                    *)
ProcessReturns(s) ==
    /\ proc[s] = "closing" /\ cancelled[s] = Len(CancelOrder)
    /\ proc' = [proc EXCEPT ![s] = "returned"]
    /\ UNCHANGED <<cacheVars, current, cancelled, nonce, streamNonce, pending,
                   readerVars, reqStop, conn>>

(* handler sets reqStop and returns.                                       *)
HandlerReturns(s) ==
    /\ proc[s] = "returned"
    /\ proc' = [proc EXCEPT ![s] = "stopped"]
    /\ reqStop' = [reqStop EXCEPT ![s] = TRUE]
    /\ UNCHANGED <<cacheVars, current, cancelled, nonce, streamNonce, pending,
                   readerVars, conn>>

-----------------------------------------------------------------------------
(* The updater publishes a snapshot for a node.                            *)
UpdateSnapshot(n, snapshot) == SetSnapshot(n, snapshot) /\ UNCHANGED serverVars

ProcessStep(s) ==
    \/ RefuseRequest(s)
    \/ IgnoreRequest(s)
    \/ AcceptRequest(s)
    \/ CreateRequested(s)
    \/ \E type \in ResponseType : SendResponse(s, type) \/ SendError(s, type)
    \/ InputEnded(s)
    \/ CancelNext(s)
    \/ ProcessReturns(s)
    \/ HandlerReturns(s)

(* A client sends any of its messages, with any nonce it can have seen or  *)
(* none.  Recv may also yield no message at all.                           *)
XdsNext ==
    \/ \E s \in Stream : \/ OpenStream(s)
                         \/ CloseSend(s)
                         \/ Disconnect(s)
                         \/ \E m \in Messages \cup {Nil}, k \in 0..streamNonce[s] :
                                Recv(s, m, k)
                         \/ RecvError(s)
                         \/ ProcessStep(s)
    \/ \E n \in Node, snapshot \in Snapshots : UpdateSnapshot(n, snapshot)

(* Goroutines that can run do run, Recv on an ended stream returns, and    *)
(* select, which picks at random among its ready cases, does not pass over *)
(* a watch channel for ever.                                               *)
XdsFairness ==
    \A s \in Stream :
        /\ WF_xdsVars(ProcessStep(s))
        /\ WF_xdsVars(RecvError(s))
        /\ \A type \in ResponseType :
               SF_xdsVars(SendResponse(s, type) \/ SendError(s, type))

XdsSpec == XdsInit /\ [][XdsNext]_xdsVars /\ XdsFairness

-----------------------------------------------------------------------------
(* process waits between its two cache calls with a request that has a     *)
(* watch slot, and the reader blocks with something to hand over.          *)
Handover ==
    \A s \in Stream :
        /\ proc[s] = "create" => /\ current[s] \in Requests
                                 /\ current[s].type \in ResponseType
        /\ reader[s] = "offer" => offered[s] # Nil

(* Streams use the cache as it expects to be used: in every order of their *)
(* goroutines' steps and the updater's, the cache's own invariant stands.  *)
XdsInv == XdsTypeOK /\ CacheInv /\ Handover

(* No watch is leaked: an open watch sits in the slot of its type of a     *)
(* stream that is still running, and when the stream ends in the middle of *)
(* anything the deferred Cancel has not passed that slot yet.  Replacing a *)
(* watch, a failed send or a refused request leaves none behind.           *)
NoOrphanWatch ==
    \A w \in watches : \E s \in Stream :
        /\ w.request.type \in ResponseType
        /\ w.chan = held[<<s, w.request.type>>].chan
        /\ \/ proc[s] \in {"select", "create"}
           \/ /\ proc[s] = "closing"
              /\ \A i \in 1..cancelled[s] : CancelOrder[i] # w.request.type

(* The request that a slot's channel answers or still waits to answer.     *)
Serves(c) == IF AnswerFor(c) # Nil THEN AnswerFor(c).request ELSE WaitingFor(c)

(* Outside ADS mode an accepted request is not lost: until its response is *)
(* sent, the slot's channel holds the response or its watch is open,       *)
(* whatever SetSnapshot did between the cancel and the CreateWatch.        *)
RequestNotLost ==
    \A s \in Stream, type \in ResponseType :
        ~ ADS /\ proc[s] = "select" /\ pending[<<s, type>>] # Nil
            => Serves(<<s, type>>) = pending[<<s, type>>]

(* A stream sends only what its client is waiting for: a response ready to *)
(* be sent, or a watch that may produce one, is for the last request that  *)
(* was accepted for its type and has had no response.                      *)
NothingUnasked ==
    \A s \in Stream, type \in ResponseType :
        proc[s] = "select" => Serves(<<s, type>>) \in {Nil, pending[<<s, type>>]}

(* A nonce is sent once on a stream, so a client's acknowledgement for one *)
(* type is never taken for another's.                                      *)
NoncesIdentify ==
    \A s \in Stream, t, u \in ResponseType :
        /\ nonce[<<s, t>>] <= streamNonce[s]
        /\ nonce[<<s, t>>] = nonce[<<s, u>>] /\ nonce[<<s, t>>] # 0 => t = u

(* process is not just replacing the watch of this slot.                   *)
Serving(s, type) ==
    \/ proc[s] = "select"
    \/ proc[s] = "create" /\ current[s].type # type

(* Every open watch belongs to a slot of its own type, which is not being  *)
(* replaced and which the deferred Cancel has still to visit; Cancel has   *)
(* not begun before process leaves its loop.                               *)
SlotsOwned ==
    /\ \A w \in watches : \E c \in Caller : w.chan = held[c].chan
    /\ \A s \in Stream : proc[s] \in {"idle", "select", "create"} => cancelled[s] = 0
    /\ \A s \in Stream, type \in ResponseType :
          WaitingFor(<<s, type>>) # Nil =>
              /\ WaitingFor(<<s, type>>).type = type
              /\ \/ Serving(s, type)
                 \/ /\ proc[s] = "closing"
                    /\ \A i \in 1..cancelled[s] : CancelOrder[i] # type

(* A slot that is served works on the request that is pending for it, and  *)
(* the one being replaced is about to.                                     *)
SlotsAnswer ==
    \A s \in Stream :
        /\ proc[s] = "create" => pending[<<s, current[s].type>>] = current[s]
        /\ \A type \in ResponseType :
              LET c == <<s, type>>
              IN  /\ proc[s] = "idle" => Serves(c) = Nil /\ pending[c] = Nil
                  /\ Serving(s, type) =>
                        /\ Serves(c) \in {Nil, pending[c]}
                        /\ ~ ADS /\ pending[c] # Nil => Serves(c) = pending[c]

SlotInv == SlotsOwned /\ SlotsAnswer /\ NoncesIdentify

(* The streams' inductive invariant: the cache's stands, and every slot    *)
(* is accounted for between the cancel and the CreateWatch of a request as *)
(* well, and while a stream is being closed.                               *)
StreamInv == XdsInv /\ SlotInv

(* When the client closes its stream, or the connection is lost, the       *)
(* handler returns and leaves no watch in the cache.                       *)
StreamCleanedUp ==
    \A s \in Stream :
        conn[s] # "open" ~>
            /\ proc[s] = "stopped"
            /\ \A type \in ResponseType : WaitingFor(<<s, type>>) = Nil

(* A response that is ready is sent, or its stream ends, or a new request  *)
(* takes its place: requests may keep arriving for ever, for other types   *)
(* or to be ignored, and select does not starve it.                        *)
ReadyIsSent ==
    \A s \in Stream, type \in ResponseType :
        proc[s] = "select" /\ AnswerFor(<<s, type>>) # Nil
            ~> AnswerFor(<<s, type>>) = Nil \/ proc[s] \in {"closing", "returned", "stopped"}
=============================================================================
