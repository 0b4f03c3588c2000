# Bent, verified: TLA+ models of the service mesh control plane

Bent is a control plane for Envoy sidecars.  It polls a *provider* (AWS Fargate
or a YAML file) for the services of every node, transforms them into Envoy
resources, keeps one *snapshot* of resources per node in a cache, and serves the
snapshots to the sidecars over xDS streams.  This directory holds the TLA+
models of that program, the TLC configurations that check them on small
instances, and TLAPS proofs about them.

## 1. Inventory

| Part | State it keeps | Operations | Talks to |
|---|---|---|---|
| Snapshot cache (`pkg/cache/simple.go`, `status.go`) | `snapshots`, `status` with the open watches of each node, `watchCount`; response channels of capacity one | `SetSnapshot`, `ClearSnapshot`, `CreateWatch`, cancel functions, `Fetch`, `GetStatusInfo`, `GetStatusKeys` | called by the updater and by every stream, under `cache.mu` |
| Snapshots (`pkg/cache/snapshot.go`, `resource.go`) | versioned groups of named resources | `NewSnapshot`, `Consistent`, `GetResources`, `GetVersion` | pure |
| xDS server (`pkg/server/server.go`) | per stream: a watch channel, cancel function and last nonce per type, a nonce counter, `reqCh`, `reqStop` | `Stream*` = `handler` + `process`, `Fetch*` | two goroutines per stream; calls the cache, gRPC and optional callbacks |
| Updater (`pkg/provider/updater.go`) | none between rounds | `Run`: poll, `transform`, `SetSnapshot` per node, wait 10 s | provider, cache |
| Builders (`pkg/provider/node.go`, `listener.go`) | a node's clusters, endpoints, routes, listeners | `AddCluster`, `AddRoute`, `AddListener`, `Inject*` | pure, used by `transform` |
| Annotations (`pkg/provider/cluster.go`, `endpoint.go`, `util.go`) | none | the parsers | pure |
| Fargate provider (`pkg/provider/fargate`) | during a poll: what was listed and described so far | `GetClusters`: list clusters, tasks and task definitions in pages and windows, make node IDs and endpoints of them | AWS ECS |
| File provider (`pkg/provider/file`) | none | `GetClusters`: read and decode one file | file system |
| Envoy bootstrap (`cmd/envoy/metadata.go`) | attempts so far | `main`: ask the task metadata endpoint, retry, print the node ID | ECS metadata; the sidecar then asks the xDS server under that ID |
| Entry point (`cmd/bent/main.go`) | none | an empty cache with `ads = false`, the updater's goroutine, the gRPC server | everything above |
| `cmd/trace-fwd` | none | HTTP fan-out of a demonstration service | |

What is hard:

* **Locks and channels.** `respond` sends on a channel while both mutexes are
  held.  One send too many would stop the whole control plane.
* **Two critical sections per request.** `process` cancels the old watch and
  creates the next one separately, and the updater may publish in between.
* **Old cancel functions.** They are kept after their watch is gone, run again
  when a stream ends, and survive `ClearSnapshot`.
* **Streams end anywhere**: a failed `Send`, a payload that does not encode, a
  refused request, end of input, a callback's error.
* **Nonces**: several types share one stream and one counter.
* **Map order**: `transform` and `computeVersion` walk Go maps.
* **Versions**: the version decides what is sent, and it covers only part of the
  snapshot.
* **Rounds**: a poll may fail, panic, or be outdated before its snapshots are set.
* **Polling ECS** takes many calls, and tasks start and stop between them.
* **Both ends**: streams break with messages in flight, requests and responses
  cross, sidecars reject responses, and the control plane forgets everything when
  it restarts.
* **Node IDs** are cut out of ARNs by one function, which the provider and every
  sidecar apply to what two different services tell them of the task.

`PROJECT.json` lists each hazard at its line with the properties that watch it.

## 2. Modules

```
Snapshot ── ConfigWatcher            abstract: publish / subscribe / take
   │             ▲ implemented by
   └── SnapshotCache ─┬─ XdsServer ─┬─ Mesh ── MCMesh
                      │             └─ MCXdsServer
                      ├─ XdsPolling ── MCXdsPolling
                      └─ MCSnapshotCache
Annotations ─┬─ Transform ── Updater ── MCUpdater
             └─ FargateTasks ── FargateProvider ─┬─ MCFargate ──┐
                                                 └─ Sidecars ───┴─ MCSidecars
Proofs:
SnapshotCacheProofs ─┬─ ConfigWatcherProofs ── XdsServerProofs ── MeshProofs
                     └─ XdsPollingProofs
ListLemmas ─┬─ FargateProofs     (of FargateProvider and Sidecars)
            └─ UpdaterProofs     (of Annotations, Transform and Updater)
```

**Snapshot** – resource groups, requests, responses, and the pure functions
`GetVersion`, `GetResources`, `superset`, `createResponse`.  Names, payloads and
versions are opaque; a list of names is the set the code turns it into.

**SnapshotCache** – one action per method, since each holds `cache.mu` throughout.
`held[c]` is what a caller keeps of `CreateWatch`: a channel and an optional
cancel function (a node and a watch ID).  A channel nobody can reach is reused,
as garbage collection allows.  A send on a full channel appears as a channel
with two elements.  Status entries and watch IDs are kept because cancel
functions go through them; `lastWatchRequestTime` is not (only a getter reads it),
and `GetStatusInfo` and `GetStatusKeys`, which change nothing, are left out.

**ConfigWatcher** – what `pkg/cache/cache.go` promises: every caller has at most
one subscription that waits and one answer not yet taken.  No IDs, no channels.

**XdsServer** – `handler`, its reader goroutine and `process`.  `proc[s]` is
"select" in the select, "create" between `cancel()` and `CreateWatch`,
"closing" during the deferred `Cancel` (one step per cancel function), then
"returned" and "stopped".  The reader is in `Recv` or blocked on `reqCh`.  Clients
may send any nonce they can have seen, requests without type URL, of unknown
type, or none, and as many as they like; they may close their direction, and the
transport may break.  The cache never closes a response channel, so the cases of
`process` for closed ones are left out.
`pending` (no variable of the code) remembers the accepted request that has had
no response.  `CreateWatch` is given any free channel by the cache's own
specification and the first one by the server's: nobody refers to it, so the
choice makes no difference.

**XdsPolling** – the `Fetch*` methods with their callbacks, clients that poll with
the version they have, lost responses, and snapshots that change meanwhile.

**Mesh** – both ends of the conversation.  The control plane is `XdsServer` and a
restart that empties the cache and ends all streams.  The sidecar is external: it
repeats its subscriptions on a new stream with the version it has, answers each
response with its nonce, keeps its version when it rejects one, and may add a
name.  `toServer` and `toClient` are the messages on their way; a broken stream
loses them.  The model of the network is exactly the one gRPC gives: in order, at
most once, until the stream breaks.  `MeshAssumption` says that the cache is not in
ADS mode (`main.go:34`), that a stream carries all of `ResponseType`, and that only
secrets have no version.  `bent`'s sidecars have a stream per type
(`bootstrap.conf.tmpl:115`, `node.go:183`, `listener.go:106`): there `ResponseType` is the
one type of the stream, as in the run `mesh`, and each of a sidecar's conversations is an
instance of its own.  They share the snapshots and nothing else.  With more types
the module models an aggregated stream, which the server offers too.  Since a version is the hash of the
endpoints alone (finding 1), two snapshots may have the same version and different
clusters: `UpToDate` claims the version of every type, and the resources of a type
whose versions identify them (`VersionsIdentify`).

**Annotations**, **Transform** – the parsers and `transform` as operators.  A value
is the list of fields `strings.Split(val, "-")` gives, each a number, other text,
or empty.  Map iteration order is a parameter; a loop that builds a list is a
recursive function of the number of elements done, or `FlattenSeq`.  The constant parts of Envoy
messages (timeouts, access log, tracing) are left out; what a node's annotations,
names, addresses and filters determine is kept.  `uint32` wraps at `UInt32Size`.
`GetResourceName`, `IndexResourcesByName` and `GetResourceReferences` are what
`NewSnapshot` and `Consistent` are made of.

**Updater** – `Run`, with a provider that changes at any time, polls that fail
or panic, and one snapshot set per step.  `received[n]` is what a sidecar that
keeps its watch open has got: by `SetSnapshotAnswers` and `OpenWatchesCurrent` of
the cache that is the served snapshot unless its version is the one it has.
What a provider may report is `IsReport`: a map from nodes to slices of clusters,
each with a slice of endpoints and any annotations at all.

**FargateTasks**, **FargateProvider** – what `fargate.go` makes of a task's labels,
containers and ARN, and `GetClusters` as one step per AWS call: pages of a
listing of any size, windows of a describe call (`sliceWalk`), definitions that do
not load, the loop over clusters and tasks, and the panic when a definition is
missing, or a network interface of a targeted container has no address
(`fargate.go:110`).  Tasks start and stop between any two calls; a call may fail, and a
page may be empty.  `steady`
and `seen` (no variables of the code) are the tasks that ran throughout, and at
some time of, the current poll.

**Sidecars** – `main` of `cmd/envoy/metadata.go` in every task, next to the polls:
attempts that fail, a body that cannot be used, and the node ID that is printed.
The five second timeout and the pause between attempts are one failed attempt.

## 3. Runs

| Run | Instance | Shows |
|---|---|---|
| `cache` | 2 nodes, 2 callers, 4 channels, 3 watches, 2 snapshots, ADS off | the invariant of the cache, a poll gets what a watch is sent and is refused where it waits, no answer without news, every watch is answered or kept when a snapshot is set, nobody is forgotten |
| `cache_ads` | the same, ADS on | no partial answers, none that mixes two snapshots; the cache implements `ConfigWatcher` |
| `xds` | 1 ADS stream, 2 types, 2 watches, 2 responses and any number of requests up to there, failing callbacks, unencodable payload | no leaked watch, no lost request, nothing sent unasked, nonces identify their response; an ended stream is cleaned up and a ready response is sent although requests may keep arriving |
| `mesh` | 1 sidecar, 2 single-type streams, 1 update, 2 events (rejection, added name, restart), a broken stream | when nothing is on its way the sidecar is up to date and subscribed; the invariant of the conversation, restarts included: two streams of a node leak no watch and lose no request, responses arrive in order and come of one snapshot each; the sidecar converges |
| `xds_polling` | 2 polling clients of different types, failing callbacks, lost responses | version and resources belong together; clients end up with the latest version, and with its resources where the version identifies them: two of the three snapshots differ at one version |
| `updater` | 2 nodes, 2 services, 5 reports, 1 change during a run | what each round serves is complete, resolvable, consistent and ordered; sidecars converge to the provider's endpoints |
| `fargate` | 4 tasks in 2 clusters, one of them without an address, windows of 2 | a task that ran throughout a poll is reported with its endpoints; nothing is carried over from an earlier poll |
| `sidecars` | 2 tasks with the same task ID in 2 clusters, 2 attempts, windows of 1 | sidecars ask under the node ID the polls report; no exit before the last attempt; polls end, reports become exact, running tasks join |
| `updater_annotations` | one service, with or without fault injection | **violated**: finding 1 |
| `updater_empty_node` | a node that exposes nothing | **violated**: finding 2 |
| `updater_status` | `healthcheck.expected-status: 200-299` | **violated**: finding 3 |
| `fargate_definition` | one definition fails to load | **violated**: finding 4 |

The runs also check the inductive invariants of the proofs (`CacheInv`,
`StreamInv`, `AnswersGenuine`, `MeshInv`, `UpdaterInv`, `FargateInv`), which
say how things stand between two steps of a handler, a round or a poll.

*Bounds.* `MaxWatches` = 3 lets a watch be opened, abandoned and replaced while
another caller has one.  In `xds` `MaxWatches` = 2 and `MaxNonce` = 2: a request, its
response, an acknowledgement that is accepted, and the next response, or one of
each type; two types are enough to confuse nonces.  The client falls silent only
after so many responses or watches.  Requests that open none (stale, malformed, of
unknown type) may arrive for ever, with a response ready all the while: that is the
case `ReadyIsSent` is about, and a `select` that preferred requests violates it.  Two snapshots and
three versions (none, old, new) give every outcome of the version test.
`MaxChanges` = 1 lets a report change before, during or after a round.  Channels:
each caller holds one and one must be free; the cache run has one more for a
leaked watch.  `UInt32Size` is 1024 (4096 where ports occur) instead of 2^32,
beyond all other constants that are compared with it.  `WindowSize` is 2 or 1
instead of 100: three tasks in a cluster give a full and a short window, and two
an even division.  `maxRetries` is 2 instead of 4: the loop counts only.  In `mesh`
`MaxUpdates` = 1 replaces a snapshot under an open watch; the first snapshot after
a start is not counted.  `MaxEvents` = 2 gives every pair of a rejection, an added
name and a restart; the second stream allows one reconnection, and the
bounds of 100 on watches and nonces are never reached.  Channels and callers are interchangeable; symmetry is used in
the two cache runs, which have no liveness property.

*Deadlock* is checked except where the system may stop: in `updater`, `fargate`
and `sidecars` a panic ends the process, and in `mesh` a quiet stream waits once
the bounded updates are used up.

*Fairness.* `XdsFairness`: a goroutine that can run does (weak fairness of
`ProcessStep`), `Recv` on an ended stream returns (weak fairness of `RecvError`,
gRPC's contract), and `select` chooses uniformly among ready cases, so a case
that is ready again and again is taken (strong fairness per watch channel).
`SendResponse` is one step: a `Send` that flow control holds up is assumed to go on
some time, as the client reads or the transport breaks.  Nothing else is assumed of
clients, and nothing of callbacks.  `UpdaterFairness`: `Run` never stops
by itself, and a provider that is polled for ever answers sometimes (strong
fairness of `PollAnswered`); without that nothing could converge.  `FargateSpec`
and `SidecarSpec`: the polling goroutine goes on, every AWS call returns, and
`main` of a sidecar runs (weak fairness); a page with a `NextToken` may be empty, but
ECS does not return such pages for ever (the code has no limit of its own).  That calls succeed is never assumed, but
is a premise of `AnswerConverges` and `SidecarJoins` (`[]<><<PollReturns>>`).
`MeshFairness`: goroutines run, gRPC delivers on an open stream, Envoy reconnects
and handles what it receives, and the updater publishes after a start.
`PollingSpec`: clients keep polling, and not every attempt is refused or lost.

## 4. Findings

1. **Annotations are not reloaded.**  `computeVersion(node.Endpoints())`
   (`updater.go:141`) ignores clusters, routes and listeners.  `README.md:32`:
   "Just change the annotations in the `config.yaml`. They are reloaded at
   runtime."  True of weights only, as they are part of an endpoint.  In TLC's
   counterexample a service is polled with fault injection and then without it:
   the cache has the new listener, and the sidecar keeps the one with the fault
   filter.  Switching it on goes unnoticed in the same way.
2. **A node without clusters gets an inconsistent snapshot.**  Its ingress
   listener refers to `ingress_route`, which was never added (`updater.go:69`);
   the first node of `example/compose/config.yaml` is such a node.
3. **A range of expected statuses panics.**  `list[2]` of a list of two
   (`util.go:25`).
4. **A task definition that fails to load panics.**  `tasks.go:78` warns and goes
   on without it, and `findTaskTargets` dereferences the missing entry
   (`fargate.go:131`); the panic in the updater's goroutine ends the control plane.

Four more observations, recorded with the hazards: a node that is no longer
reported keeps its snapshot (`ClearSnapshot` is never called); in an ECS cluster
whose name ends in "task" all tasks get one node ID (`TaskArnToNodeID` splits at
every "task/"), which the instances exclude; a task without a private address ends the control
plane (`fargate.go:110`); and a name added to a subscription at an
unchanged version is answered only with the next version, so `SidecarConverges`
speaks of the names subscribed from the start.  `bent`'s own bootstrap adds none.

## 5. Proofs

Every safety property that a run checks is proved for every value of the
constants.  The assumptions on the constants are named in the modules
and evaluated by TLC: Nil is none of the other values, the sets of snapshots,
requests and messages are subsets of their types, windows and attempts are
positive, sets of tasks are finite, and reports are well-formed (`IsReport`).

**The cache** (`SnapshotCacheProofs`, `ConfigWatcherProofs`).  `CacheInvariant` is
`CacheSpec => []CacheInv`, and from it follow

* `SendsNeverBlock`: no channel is ever asked to hold two elements;
* `NoLostUpdate`: an open watch acknowledges the current version of its node;
* `CancelsAreOwn`: a cancel function closes only its own watch;
* the action properties `SetSnapshotAnswersAll` and `WatchesNeverDropped`, and
  `PollsAgree`: where a watch is created, and where a snapshot is set, `Fetch`
  refuses a request exactly if its watch is left waiting, and otherwise returns
  what the watch is sent (or, in ADS mode, what is withheld from it).

None of these is inductive alone.  A send does not block because the channel of
an open watch is empty (`OpenChannelsEmpty`) and no two watches share one
(`WatchesDistinct`).  A cancel function is harmless because its ID is at most
`watchCount` (`CancelsIssued`), so that a watch opened later has another ID, and
because watches on a caller's channel carry exactly that caller's cancel function
(`CancelIsOwn` is an equivalence for this reason).  `WatchesFiled` ties a watch to the node of
its request, so `SetSnapshot` on that node reaches it.

`AnswersGenuine` is the invariant about contents: each response in a channel is
what `createResponse` makes of one published snapshot, at a version its request
does not have, and is not withheld.  `UpdatesAreNews` and `AnswersAreWhole`, about the
responses that were not yet taken, are consequences.

`CacheImplementsConfigWatcher` is the refinement: the initial states agree, and
each method is the abstract operation its caller believes it calls (`SetSnapshot`
is `Publish`, `ClearSnapshot` is `Withdraw`, `CreateWatch` is `Subscribe`, a cancel function
`Unsubscribe`, a receive `Take`) or a stutter, e.g. a late cancel.  It needs `CacheInv`: that a
caller has one subscription at most, and that closing a watch by its ID closes
no other, is what makes the mapping from watches to subscriptions a function.

**The streams** (`XdsServerProofs`).  `XdsInvariant` is
`XdsSpec => []XdsInv`: any number of streams uses the cache so that its invariant
stands.  Each step of the server either leaves the cache alone or is one of its
operations with a caller and a request that are proved to be legal (`Handover`,
`AcceptedRequest`).  `StreamInvariant` adds `StreamInv`, which also says what holds
between the `cancel` and the `CreateWatch` of one request (`SlotsAnswer`) and how far the
deferred `Cancel` of a closing stream has come (`SlotsOwned`): `NoOrphanWatch`,
`RequestNotLost` and `NothingUnasked` speak of a stream in `select` only and are not
inductive.  Its proof does not look into the cache again but uses the abstract
operations of `ConfigWatcher` (by the refinement).  `ServerUsesConfigWatcher` states that
for the whole server: every step of `XdsSpec` is a `ConfigWatcher` operation or leaves it
alone.  `StreamsAnswerGenuinely` carries `AnswersGenuine` over to the streams: what a
stream takes from its channel and sends is the share of one published snapshot
that its request has not.  Both go through `CacheCall`, the operations of the cache
without the bound `MaxWatches`.

**Both ends** (`MeshProofs`).  `MeshInvariant` is `MeshSpec => []MeshInv`, with one lemma per
action of either end.  Every step but `Restart` is a step of the server for
`StreamInv` and `AnswersGenuine` (`MeshStepServes`), and a restart establishes them anew
(`RestartInv`), so that `MeshLeaksNoWatch` (`NoOrphanWatch`) and `MeshLosesNoRequest`
(`RequestNotLost`) hold of a control plane that crashes.  The rest of `MeshInv` describes the
messages on their way:

* `ResponsesInOrder`: nonces rise along the queue, and of a type either the sidecar
  has the last response or it is under way;
* `RequestsRemembered`: the last request of a type says what the sidecar wants and
  has; it is on its way, being handed to `process`, or pending, unless a response
  that it crossed is on its way;
* `NoncesKnown`, `WantsKept`: no message carries a nonce the server has not given out,
  or asks for less than the first subscription;
* `SidecarConsistent`: what the sidecar has of a type, or is about to receive, is a
  copy of one published snapshot (theorem `SidecarIsConsistent`).

`QuietIsCurrent` (`QuietMeansCurrent`) needs all of them.  On a quiet stream nothing is
in the queues, so by order the sidecar has the last nonce, its last request was
accepted and is the pending one, and no response waits for it (`QuietWaits`); by
`SlotsAnswer` its watch is open, by `OpenWatchesCurrent` it acknowledges the version of the
snapshot that is served, and by `SidecarConsistent` the resources it has are those of a
snapshot with that version, which are the served ones where `VersionsIdentify`.

**Polling** (`XdsPollingProofs`).  `PollsAreConsistent` rests on `PollingInv`: the
response on its way is the client's share of one published snapshot, even if it
was replaced meanwhile.

**The Fargate provider and the bootstrap** (`FargateProofs`).  `FargateInv` says where
the tasks that keep running are while a poll goes on: still to be listed, in a
window still to be described, described, or in the result (`NothingSkipped`).  The lemmas about
`sliceWalk` (`WindowIs`, `WindowsCover`) show that the windows cover their input for
every length and window size, and `PageListed` that the pages of a listing do.
`NoGhostReported` needs nothing else.  `SteadyTasksReported` and
`SidecarsAreAddressed` have the hypothesis `ArnsIdentify`, that no two tasks have the
same node ID: `TaskArnToNodeID` does not guarantee it (see section 4), and with a
cluster called "mytask" the statements are false.  The instances satisfy it.

**The updater** (`UpdaterProofs`).  `UpdaterInv` says that every node of the last poll is
served what was reported of it or still prepared for it (`Prepared`), that
whatever is served can be used (`Usable`), and that the version a sidecar has is
the hash of its load assignments (`Versioned`).  What `transform` returns is proved
of the pure functions first: the global list has every reported cluster in any
order of the walk (`GlobalClusters`), `AddCluster` gathers the endpoints of all
clusters of a name (`EndpointsGathered`, `NodeAssignments`), `AddRoute` ends with one virtual
host per service (`VHostsAdded`), the router stays last through any number of
`Inject`s (`FiltersInjected`), any annotation gives a weight of 1 to 128
(`WeightInRange`), and versions in different orders agree only if the load
assignments do (`VersionIdentifies`).

**Loops.**  `ListLemmas` has induction over the indices of a list (a set with 0 that is
closed under the successor holds all of 0..n, or there were a least index it
lacks), from which the existence and the result of the recursive functions, of
`FlattenSeq` and of the orders of a map follow.  The library's induction theorems
have an operator as a parameter, which the provers cannot instantiate; a set is
enough here.

Left to TLC: the liveness properties (`StreamCleanedUp`, `ReadyIsSent`, `Converges`,
`SidecarConverges`, `PollersConverge`, `PollEnds`, `AnswerConverges`, `SidecarJoins`), which need
fairness and are out of the prover's reach.  The folds behind
`mergeAnnotations` are never unfolded: the theorems hold whatever the merged
annotations are.

## 6. Not modelled

* The file provider: one read and one decode per poll.  Its result is the
  `provider` of `Updater`, including what a read of a half-written file gives.
* The trace forwarder, a demonstration service without state.
* Flags, sockets and the choice of the provider in `cmd/bent`; the bootstrap
  template of `cmd/envoy`; `aws.go`, which makes a session.
* The `Incremental*` methods, which always fail; message conversion and the
  constants of `pkg/util`; the test fixtures; overflow of the duration annotations.
* Closed response channels, which this cache never produces; a `Send` held up for ever;
  failures of `DescribeClusters` (no ECS cluster is deleted); annotation labels with
  a second ".annotations.", whose names no parser reads.
* The hash of `computeVersion` is taken to be injective.  A provider node named
  "ingress" and a service named "local_..." are assumed away.

## 7. Status

Every component listed as modelled has its operations as actions, and every
safety property that a run checks is a theorem.  If `computeVersion` comes to cover all
resources, the run `updater_annotations` will pass and `UpToDate` can drop its premise
`VersionsIdentify`; if `main.go` switches the cache to ADS mode, `MeshAssumption` has to go,
and with it the part of `QuietMeansCurrent` that says an open watch always remains: in
that mode a response that would be partial is withheld and its watch is gone.
