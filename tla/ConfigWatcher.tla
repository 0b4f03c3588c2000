--------------------------- MODULE ConfigWatcher ---------------------------
(***************************************************************************)
(* What the cache promises a caller (the ConfigWatcher and Cache           *)
(* interfaces of pkg/cache/cache.go), without watch IDs, channels, status  *)
(* maps or cancel functions: each caller has at most one subscription that *)
(* waits, and at most one answer that it has not taken yet.                *)
(***************************************************************************)
EXTENDS Snapshot

CONSTANTS Caller, Snapshots, Requests

VARIABLES
    published,   \* the current snapshot of every node, or Nil
    waiting,     \* the request each caller waits on, or Nil
    answer       \* the response ready for each caller, or Nil

watcherVars == <<published, waiting, answer>>

WatcherTypeOK ==
    /\ published \in [Node -> SnapshotSet \cup {Nil}]
    /\ waiting \in [Caller -> Request \cup {Nil}]
    /\ answer \in [Caller -> Response \cup {Nil}]

WatcherInit ==
    /\ published = [n \in Node |-> Nil]
    /\ waiting = [c \in Caller |-> Nil]
    /\ answer = [c \in Caller |-> Nil]

(* The snapshot has news for a request of node n.                          *)
IsNews(request, n, snapshot) ==
    /\ request # Nil
    /\ NodeID(request) = n
    /\ snapshot # Nil
    /\ GetVersion(snapshot, request.type) # request.version

(* The answer to a request from a snapshot that has news for it: none when *)
(* it is withheld in ADS mode, and the subscription ends all the same.     *)
AnswerFrom(request, snapshot) ==
    LET items == GetResources(snapshot, request.type)
    IN  IF Withheld(request, items)
        THEN Nil
        ELSE CreateResponse(request, items, GetVersion(snapshot, request.type))

(* SetSnapshot: everyone waiting for news about the node is served.        *)
Publish(n, snapshot) ==
    /\ published' = [published EXCEPT ![n] = snapshot]
    /\ answer' = [c \in Caller |-> IF IsNews(waiting[c], n, snapshot)
                                   THEN AnswerFrom(waiting[c], snapshot)
                                   ELSE answer[c]]
    /\ waiting' = [c \in Caller |-> IF IsNews(waiting[c], n, snapshot)
                                    THEN Nil ELSE waiting[c]]

(* ClearSnapshot: whoever waits on the node is forgotten.                  *)
Withdraw(n) ==
    /\ published' = [published EXCEPT ![n] = Nil]
    /\ waiting' = [c \in Caller |-> IF waiting[c] # Nil /\ NodeID(waiting[c]) = n
                                    THEN Nil ELSE waiting[c]]
    /\ UNCHANGED answer

(* CreateWatch: answered from the current snapshot, or left waiting.       *)
Subscribe(c, request) ==
    LET snapshot == published[NodeID(request)]
        news     == IsNews(request, NodeID(request), snapshot)
    IN  /\ waiting' = [waiting EXCEPT ![c] = IF news THEN Nil ELSE request]
        /\ answer' = [answer EXCEPT ![c] =
                         IF news THEN AnswerFrom(request, snapshot) ELSE Nil]
        /\ UNCHANGED published

(* The cancel function.                                                    *)
Unsubscribe(c) ==
    /\ waiting' = [waiting EXCEPT ![c] = Nil]
    /\ UNCHANGED <<published, answer>>

(* A receive from the response channel.                                    *)
Take(c) ==
    /\ answer[c] # Nil
    /\ answer' = [answer EXCEPT ![c] = Nil]
    /\ UNCHANGED <<published, waiting>>

WatcherNext ==
    \/ \E n \in Node, snapshot \in Snapshots : Publish(n, snapshot)
    \/ \E n \in Node : Withdraw(n)
    \/ \E c \in Caller, request \in Requests : Subscribe(c, request)
    \/ \E c \in Caller : Unsubscribe(c) \/ Take(c)

WatcherSpec == WatcherInit /\ [][WatcherNext]_watcherVars
=============================================================================
