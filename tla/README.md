# Verification of clusterip-gw

TLA+ models of [clusterip-gw](../src/README.md), the TLC runs that check them on
small instances, and TLAPS proofs of their safety properties. Paths
below are relative to the repository; `controller/` and `agent/` stand for
`src/internal/controller/` and `src/internal/agent/`.

## 1. The system

`clusterip-gw-controller` gives Kubernetes Gateways of class `clusterip-gw` a
virtual IP and backend `EndpointSlice`s; `clusterip-gw-agent` runs on every node
and turns both into an nftables table; a CoreDNS plugin answers names with the
virtual IP. The three talk only through the API server: each keeps informer
caches that lag behind it.

| Component | State it keeps | Operations | Interacts through |
|---|---|---|---|
| Gateway reconciler, VIP allocator (`gateway_reconcile.go`, `ipam.go`, `status.go`, `workers.go`) | gateway workqueue, two workers | `reconcileGateway`: finalizer, evaluation, `ensureGatewayVIP`, release, cleanup, status | Gateway, IPAddress objects |
| Handlers, indexes (`handlers.go`, `indexers.go`, `controller.go`) | eight informer caches, four queues | map each event to keys of the queues | queues |
| Evaluation (`gateway_reconcile.go`, `route_reconcile.go`, `endpointselector_reconcile.go`) | none | `evaluateGateway`, `evaluateRoute`, `gatewayBindingForRoute` | reads the caches |
| TCPRoute reconciler (`route_reconcile.go`) | route workqueue, one worker | status of each parent | TCPRoute status |
| XEndpointSelector reconciler (`endpointselector_reconcile.go`) | selector workqueue, one worker | create, update, delete EndpointSlices | EndpointSlice objects |
| GatewayClass reconciler (`gateway_reconcile.go`) | class workqueue | status | GatewayClass status |
| Agent trackers, sync loop (`agent/state`, `agent/nftables/proxier.go`) | two trackers, `syncPending`, `resyncCh`, retry timer | handlers, `requestSync`, `SyncLoop`, `sync` | a lock, a channel |
| Agent applier (`agent/nftables/netlink.go`) | the kernel's table | `Apply` | netlink transactions |
| CoreDNS plugin (`src/plugin`) | Gateway cache | `ServeDNS` | Gateway status |

What is hard here, and what makes each part correct:

- *Decisions on stale caches.* A reconcile reads caches and then makes up to a
  dozen API calls. Between any two of them users edit, another worker acts, the
  Service allocator takes an address, the process dies. Correct: once nothing is
  left to do, each Gateway holds and publishes exactly what its spec deserves;
  at no time does it publish or delete an address that was never created for it,
  publish without the finalizer, or get a verdict on a spec that has been
  replaced since it was evaluated.
- *Things that must eventually happen.* Some failures are published and not
  retried; some events enqueue nobody who waits for them. Correct: the system
  converges when users stop.
- *Four readers of one object.* The controller decides twice, by different
  searches, which listeners are good, the agent a third time, and the DNS plugin
  answers from what was published. Correct: they agree.
- *Verdicts that depend on neighbours.* A TCPRoute is accepted or not because of
  its siblings on the listener, and no handler enqueues siblings. Correct: every
  status and every slice is up to date when nothing is left to do, or after the
  next resync, and status events do not enqueue each other for ever.
- *Names shared between owners.* A slice is named after Gateway and listener,
  and passes from selector to selector. Correct: the selector that deserves it
  ends up with it, and none takes it away unnoticed.
- *Wakeups.* The agent coalesces events through a flag, a channel of capacity
  one and a timer that is stopped and reset. Correct: no update is lost, and at
  rest the kernel holds what the API server publishes.
- *Address arithmetic.* Masks, carries and the ends of prefixes, byte by byte.
  Correct: the walk hands out hosts only, misses none and takes the first free.

`PROJECT.json` lists the hazards line by line.

## 2. Modules

### GatewayController

The gateway half of the controller. State:

| Variable | Code |
|---|---|
| `gw`, `ip` | Gateway and IPAddress objects at the API server. A Gateway is reduced to its kind (valid, rejected by its own spec, another class), deletion timestamp, finalizer, published address and outcome, and whether its conditions carry the current generation. An IPAddress is its owner. |
| `gwCache`/`gwEvents`, `ipCache`/`ipEvents` | informer store and the watch events it has not seen, in order |
| `routed`, `ready` | what the remaining caches say: some listener of the Gateway is usable; the addresses of ready IPv4 ServiceCIDRs |
| `queue`, `worker` | `gatewayQueue` and its two workers, each with the cached copy it started from and what it still has to do |
| `granted` | history: which address was ever created for which Gateway |

`processNextGateway` takes a key that no other worker holds and runs to the
first API call; after that every API call is an action: `clearManagedGatewayStatus`,
`deleteIPAddress`, `removeGatewayFinalizer`, `ensureGatewayFinalizer`,
`createIPAddress`, `updateGatewayStatus`. `evaluateGateway` is the read of the
remaining caches between two calls. `UpdateStatus` carries the resource version
of the cached copy: `fresh` says that no write has superseded it, and a copy
that is not fresh gets a conflict and is retried. The finalizer updates get
their version from a live Get: together they take effect at one instant or
fail, which `apiCallFails` covers. `apiCallFails` returns an error to the queue
everywhere except inside `ensureGatewayVIP`, whose error is published.

Abstractions: the pool is a set of numbers in the order the allocation walk
visits them, so the arithmetic of the walk is not here; `NameRank` orders the
same addresses as strings, which decides what is kept. The generation stamped on
the conditions (`status.go:27-28`) is that of the evaluated copy; a write that is
accepted comes from a copy nobody has superseded, so it is the current one, and
one bit (`observed`) says whether an edit has come since. No watch breaks here:
an informer sees every event, in order. A relist can show a reservation that
passed from one Gateway to another as one update, whose handler ignores the old
object (`handlers.go:96`), so that the former owner waits for the resync; the
rest-state properties are about watches that do not break. Rate limiting is not
timed. Deletes of several addresses happen in any order. Other finalizers,
other writers of Gateway status and condition texts are left out. There is no
leader election in the code and only one controller in the model.

### GatewayEvaluation

The pure part: `validateGatewayListeners`, `attachedRoutesForListener`,
`resolveGatewayListener`, `evaluateRoute` (as `routeAccepted` and
`routeResolved`), `evaluateGateway`, `gatewayBindingForRoute`, and the agent's
`gatewaySupported` and `gatewayToFrontendMap`, under the names the code gives
them. The state is a configuration (class, Gateways, TCPRoutes, selectors) and
users edit it one object at a time, so an invariant quantifies over every
configuration. Gateways and selectors live in one namespace, TCPRoutes in it or
in another.

The DNS plugin is a fourth reader of the same Gateway: `parseGatewayQuery`,
`lookupGateway`, `ipv4Addresses` and `ServeDNS` are operators over its cache. What a
cache says of a Gateway beyond its spec is a `View`: whether it is being deleted,
and the addresses of its status, of any type and number. The agent's
`gatewaySupported` and `gatewayToFrontendMap` read the same view. `published` is
what the controller writes at the end of `reconcileGateway`: the address
`ensureGatewayVIP` returned, or none, when the Gateway is rejected and also when
it is accepted and the pool is exhausted or a call failed.

### ControllerQueues

The four workqueues and the handlers that fill them (`registerHandlers`), over
`GatewayEvaluation`, whose configuration variables are the informer caches here.
`verdict` is what a reconcile wants its object's status to be: conditions,
listener statuses and `status.parents` reduced to what an event can tell apart.
A reconcile is two steps, `startReconcile` (read the caches and evaluate) and
`finishReconcile` (compare with the copy, write under its resource version, come
back after a conflict; for a selector also its slices). `deliverStatus` is the
event a status write causes; `handlerKeys` is what the handler enqueues. User
edits reach the cache and the handler in one step, since only the queues are of
interest; `userEditsRoute` enqueues for the old object and for the new one.

`doubt` is history. The siblings of a route hear of a change only through the
Gateway's status event. Two edits that overlap can cancel out in that status
before it is written, and a Gateway with `spec.addresses` reports no attached
routes at all: in both cases no event follows, and the siblings keep an old
verdict until the resync. `doubt` marks these cases and `resync` clears it.

### EndpointSliceController

The selector reconciler, call by call: `startReconcile` lists the managed slices
from the cache and builds the desired map, `deleteSlice`, `updateSlice` and
`createSlice` are the API calls in the order of the code (listed slices first),
`retry` is the early return of an error. Beside it run the watch of the slice
informer (`deliverSlice`, bounded by `MaxLag`), a watch that breaks and lists
again (`relist`), the garbage collector, which deletes slices whose owner UID is
gone, Gateways that are deleted and created again, the resync and restarts.
Which selector a listener belongs to is the input `claim`; that there is at most
one is `OneSelectorPerListener` of `GatewayEvaluation`. A route event enqueues the
selectors of the edited route only, while its siblings on the listener may gain
or lose the listener by it: `changeClaim` enqueues any set of selectors (`told`),
and the history `untold` keeps those that gained or lost a listener and were not
enqueued. `deliverGatewayStatus` is the Gateway's status event that reaches such a
selector after all. It may never come, when edits cancel out in the Gateway's
status (see `doubt` above); then the resync enqueues it. The endpoints of a slice
are one version number, and `SliceName` and `Rank` make name collisions and the
map that keeps the last of two expressible.

### AddressWalk

`listIPv4ServiceCIDRs` and the walk of `ensureGatewayVIP` on addresses as lists
of bytes, with `nextAddr` carrying from byte to byte, `lastAddr` filling the host
bits of each byte (`hostBits` says how many it has) and `Masked`/`Contains` of
`netip`. The sorted list of prefixes is a set of which the outer loop takes the
least in the order `Before`, the order of their texts. `list`, `nextPrefix`,
`skipTaken` and `create` are the turns of the two loops; `create` notes
AlreadyExists, returns the address, or returns any other error. `otherClients`
take and free addresses at any time during the walk, so that the API server,
the cache the walk began with and what Create refuses all differ. The properties
compare with a definition on numbers (`number`, `hosts`), which shares only the
powers of two with the code. In the run the address space is two bytes of two
bits: every prefix length from the whole space to a single address, with and
without host bits, fits in it, and so do the carry and the end of the space.

### VIPLease

What the allocator promises, without caches, workers and retries: an address has
one holder at a time and changes hands only through nobody's; a Gateway
publishes an address only after it was created for it and under its finalizer.
`GatewayController` implements it (`ImplementsLease`) with `owner` for its `ip`,
the published address and the finalizer of each Gateway object, and the history
`granted`. The lease says nothing of who may free an address, because the code
does not keep that (run vip_stale_delete).

### Proxier

The agent's event path. Per informer a `feed` of notifications and a handler
goroutine in three steps, because `requestSync` releases the lock between the
flag and the channel; the main goroutine during startup; `SyncLoop`, which holds
the lock from its first snapshot to the end of `Apply`; timers and clock. An
informer's objects are reduced to what they amount to for a frontend key: the
frontend a Gateway publishes, or the non-empty list of its ready backends
(`gatewayToFrontendMap`, `Snapshot`). A key stands for one Gateway listener; a
Gateway with several listeners updates several keys in one tracker update,
which the model does not need to tell apart. `faulty` is history: the table was
removed or an apply failed since the last good one. The dry-run mode
(`ApplyRules=false`) is left out.

### How they compose

`ControllerQueues` extends `GatewayEvaluation` and gives its pure operators the
queues that call them. `GatewayController` uses one Boolean per Gateway
(`routed`) where `GatewayEvaluation` has `evaluateGateway`;
`EndpointSliceController` uses `claim` where it has `gatewayBindingForRoute`;
`GatewayController` uses a set of numbers, tried in increasing order, where
`AddressWalk` has prefixes and bytes;
`Proxier` takes as input the Gateways and slices whose publication the others
describe. Their product is out of TLC's reach; what each one assumes of another
is a property that a run of the other checks (`OneSelectorPerListener`,
`SlicesMatchUsableListeners`, `AllocatesHosts`, `FailsOnlyWhenFull`, `FirstFit`,
`ResolvedIsReachable`) and, since all of these are proved, a theorem.

## 3. Runs

| Run | Config | Checks |
|---|---|---|
| vip_lifecycle | one Gateway, one worker, two addresses whose names sort against their order, 2 edits, 2 failed calls, 1 restart | `TypeOK`, `QuiescentAccepted`, `QuiescentReleased`, `PublishedHasFinalizer`, `VerdictsFitSpec` (action property), `ImplementsLease` (refinement) |
| vip_contention | two Gateways, two workers, one address, 1 edit | `QuiescentAccepted`, `PublishedWasGranted`, `SharingIsTransient`, `DeletesWereGranted` (action property) |
| vip_convergence | two Gateways, one worker, one address, 1 edit, 1 failed call | `Converges` (liveness) |
| evaluation | one Gateway (16 specs), two routes (28 specs), two selectors, cached statuses over two addresses (`Vips`, `Views`) | `OneSelectorPerListener`, `SlicesMatchUsableListeners`, `AcceptedIsProgrammable`, `ResolvedIsReachable` |
| queues | one Gateway with one listener, two routes that dispute it for two selectors, 2 edits of any object | `GatewaysCurrent`, `EditsPropagate`, `VerdictsConverge` (liveness) |
| slices | two selectors, one listener, 3 edits, 1 failed call, 1 broken watch, 1 restart, 3 outstanding events | `TypeOK`, `QuiescentSlices`, `HandoverByDeletion` (action property), `Converges` (liveness) |
| address_walk | every prefix of a 4-bit address space alone, pairs that touch, overlap or nest, objects not ready or on their way out; other clients hold every address or none and change this at any time; a cache that shows all addresses in use, all but one, or none | `AllocatesHosts`, `FailsOnlyWhenFull`, `FirstFit`, `WalkAdvances` (action property), `WalkEnds` (liveness) |
| proxier | one key, 2 changes, 2 faults, 1 restart | `TypeOK`, `NoLostUpdate`, `QuietIsProgrammed`, `ProgrammedByEvents`, `ProgrammedWithTicker` (liveness) |

Bounds. An edit is anything a user or another client does: create, edit or
delete a Gateway, change its routes, change the ServiceCIDRs, take or free an
address. Two edits on an existing Gateway reach the cycles that matter (leave
and return, edit during a reconcile, delete after an edit); the reconcile steps
between them are not bounded, nor are the event queues. Two addresses are needed
for a surplus reservation, one for exhaustion. A failed call and a restart can
each happen at any step; in `vip_lifecycle` two calls may fail, since the second
failure of one Delete has a consequence that the first has not (see below). In `queues` the start is the one settled configuration
that is an edit away from all others; two edits are what it takes to overlap. In
`slices` three edits hand a listener over and back, or delete and recreate a
Gateway around a handover; whom the events of an edit tell is not bounded. In
`evaluation` the views are statuses without address, with one address of each
type, and with two, on Gateways being deleted or not. For the proxier, two changes let the second arrive at
every point of the sync of the first. `MaxSupportedGatewayListeners` is 10 in
the code and 2 in the run, so that a list of three is one too many.

Fairness. `GatewayController!FairSpec`: workers run (`wait.UntilWithContext`
restarts them), a waiting key is not passed over for ever (the workqueue is
FIFO; strong, since a key is not available while a worker holds it), watches
deliver, and informers resync (`config-sync-period` must be positive).
`EndpointSliceController!FairSpec` is the same, and the garbage collector
collects. `QueueFairness` is weaker: some worker runs, some watch delivers, and
the resync comes; no key and no watch is promised its turn before the others.
`EventSpec`: goroutines and timers run; a handler that waits for the lock gets
it although `SyncLoop` keeps taking it (strong; Go mutexes hand over to a
starving waiter). The ticker is not part of it: `ProgrammedByEvents` does
without, as long as no apply has failed and nobody removed the table, and
`ProgrammedWithTicker` has it as a hypothesis (`SyncLoop` takes a tick infinitely
often), which shows that it is needed for faults only. `AddressWalk`: the loop
goes on, whatever the other clients do. Users, failures and restarts are never assumed to happen.

Deadlock is checked in every run but two: `resync`, `wakeOnTick` and user edits
are always possible, as in the running system. `queues` bounds its edits and
takes a resync only when there is something to repair, and the walk of
`address_walk` returns, so both may stop.

Each property has a mutant in `PROJECT.json`: a plausible bug (an error that is
only logged, a list that ignores the owner, a flag set outside the lock) under
which TLC finds the property violated.

### Runs that find a disagreement

- **vip_leak.** `releaseGatewayIPAddresses` lists reservations from the cache.
  A Gateway deleted right after its VIP was created is cleaned up before the
  IPAddress event arrives; its finalizer goes, and the late event finds no
  Gateway. The address stays reserved. `docs/controller-requirements.md:75`
  requires owned reservations to be released.
- **vip_stale_delete.** Deletes are by name and without precondition; one
  decided on a stale cache removes an IPAddress that a Service owns by then.
- **slices_collision.** `endpointSliceName` joins Gateway and listener with a
  dash: Gateway `a` with listener `b-c` and Gateway `a-b` with listener `c` want
  the same slice. With one selector for both, one listener is accepted and never
  gets backends; with two, the second to come
  retries its create for ever.
  `docs/controller-design.md:100` promises one slice per Gateway and listener.
- **proxier_ready.** `Ready` (comment at `agent/nftables/proxier.go:69`) turns
  true when the informers' stores are filled, before the handlers have seen the
  initial lists; the first sync may program a partial table.

Smaller observations, which no run states as a violation:

- A second reconcile before the IPAddress event arrives takes AlreadyExists on
  the Gateway's own address for somebody else's and allocates a second one
  (`ipam.go:155`, against "exactly one" in `docs/controller-requirements.md:67`).
  It heals: `QuiescentAccepted` holds. The address that survives is the first by
  name and need not be the one that was published.
- When the Delete of such a surplus address fails (`ipam.go:110`), the error is
  published and not returned (`gateway_reconcile.go:108-119`). The status event
  brings the Gateway back once; if the Delete fails again with the same message,
  the status already carries it, nothing is written, and no event or retry
  follows. The Gateway then holds reservations and publishes none, until the
  resync, against "keep the lexicographically first and delete extras"
  (`docs/controller-design.md:114`). `QuiescentAccepted` allows reservations in
  this one case. That the resync ends it is not checked: it takes two addresses
  and two failed calls, and `vip_convergence` has one of each. The attempt to prove
  the stronger statement, without the exception, is what found it.
- A Gateway with `spec.addresses` is rejected by `evaluateGateway` and still gets
  EndpointSlices, because `gatewayBindingForRoute` only asks `evaluateRoute`;
  `SlicesMatchUsableListeners` is stated for the other Gateways.
- After a relist that hides a deletion, a selector gets its slice back only with
  the resync. The same goes for a selector that gains a listener because a
  sibling route left it, when no Gateway status event follows: one route joins
  the listener and the other leaves it before the Gateway is reconciled, and the
  listener has no slice until the resync. `QuiescentSlices` is therefore stated
  for watches that did not break and selectors that have been told, and
  `Converges` for all.
- A Gateway that is accepted and gets no address (`gateway_reconcile.go:109-120`)
  is `Accepted`, has EndpointSlices and resolves to nothing; `ResolvedIsReachable`
  speaks of what resolves.
- Two Gateways may publish the same address for a while. An address is freed
  before the status that publishes it is withdrawn (`gateway_reconcile.go:102`
  and `105`), and whoever gets it next publishes it too. It does not last
  (`SharingIsTransient`).
- The DNS plugin parses names of two labels only, so a Gateway whose name
  contains a dot never resolves (`plugin.go:171`).

## 4. Proofs

For every set of Gateways, workers, addresses, frontends and for every bound.

`GatewayController_proofs`:

- `TypeCorrect`: `Spec => []TypeOK`. Inductive together with `Busy` (a worker
  has a key exactly when it is not idle): a worker's steps use its key as a
  Gateway.
- `PublishedAddressesWereGranted`: `Spec => []PublishedWasGranted`. The address
  a worker publishes came from the cache or from its own create, the cache from
  an event, the event from a write; so the invariant (`GrantsKnown`) speaks of
  all four places.
- `PublishedGatewaysAreFinalized`: `Spec => []PublishedHasFinalizer`, and
  `VerdictsFit`: `Spec => VerdictsFitSpec`, from one inductive invariant
  `ReconcileInv`. Neither follows from the types alone: a status is
  written from a copy, so one must know that a fresh copy equals the live object
  (`FreshIsLive`), which needs the order of events (`LastEventIsLive`) and that
  no second worker has the key (`ExclusiveKeys`); what the branch of
  `reconcileGateway` saw in the copy (`BranchFacts`); and, since
  `removeGatewayFinalizer` acts on the live object on the word of a stale one,
  that while an address is published nothing the informer has or will get can
  send a worker into cleanup without clearing the status first
  (`NoStaleCleanup`).

- `DeletedAddressesWereGranted`: `Spec => DeletesWereGranted`. vip_stale_delete
  shows that a delete by name can hit a foreign reservation; this is the limit
  of the damage. What a worker is about to delete came from the cache
  (`ReleaseGrants`), and the cache only knows grants (`GrantsKnown`).

The actions are grouped by shape (a local step, a write, a new reconcile, a
delivery, a restart) and each shape has one lemma, which the actions cite.

`GatewayQuiescence_proofs`:

- `AcceptedGatewaysSettle`: `Spec => []QuiescentAccepted`, and
  `RejectedGatewaysRelease`: `Spec => []QuiescentReleased`. Both speak of states
  in which nothing is left to do, so the invariant (`RestInv`) must say in every
  other state who is going to do it. For each Gateway (`Seen`): either a
  reconcile is due (its key is queued, or an event is outstanding that will queue
  it), or the worker that has the key is on its way to the right end (`taskFact`,
  one case per program point), or nobody works on it and it is at rest. The
  events count only if they are the right ones: the last outstanding event of
  an address shows its owner (`LastIPEventIsLive`), and a new owner follows the
  deletion of the old one (`IPDeletedFirst`), so that a reservation the cache
  does not list yet, or still lists, brings its Gateway back.
- `SharedAddressesPartAgain`: `Spec => []SharingIsTransient`, from these two: at
  rest a Gateway holds what it publishes, and an address has one holder.

`VIPLease_proofs`:

- `ControllerImplementsLease`: `Spec => ImplementsLease`. From `TypeOK`, `Busy`,
  `PublishedHasFinalizer` and `PublishedWasGranted` before and after a step: a
  step writes at most one Gateway or one IPAddress, so it changes at most one
  lease, and the two invariants give `Publish` and `Protect` their guards.

`EndpointSliceController_proofs`:

- `TypeCorrect`: `Spec => []TypeOK`, with `Busy` and with `PodsBounded` (endpoint
  versions are bounded by the edits made). That the desired map holds slices
  needs a last binding among several of one name, which exists because the
  bindings are finite.
- `SlicesPassByDeletion`: `Spec => HandoverByDeletion`, by `SliceInv`: the last
  outstanding event of a slice shows it as it is (`LastEventIsLive`), so a listed
  copy that nobody has superseded is the live slice and carries the worker's
  own selector (`OwnCopy`). An update of any other copy is a conflict.
- `SlicesSettle`: `NamesDistinct /\ Spec => []QuiescentSlices`. While no watch has
  broken, a slice that is stale or unwanted, and a binding whose slice is
  missing, has an event outstanding, a selector that is queued or untold (`due`),
  or a worker whose list still covers it (`LiveSeen`, `MissingSeen`,
  `WorkerCurrent`). So it is enough that every selector is told once, at any time
  after its listeners changed. The update handler tells only the
  selector that the new object names; this suffices because the informer sees
  a slice change hands as a deletion and a creation (`SeenHandover`).
- `OneSliceEach`: `NamesDistinct /\ Spec => []OneSlicePerBinding`, the promise that
  the run slices_collision refutes; like `QuiescentSlices` it speaks of selectors
  that have been told and of watches that did not break. `NamesDistinct` says that `SliceName` is
  injective; it is a hypothesis and no assumption of the module, because the
  code does not ensure it, and the run `slices` satisfies it.

`GatewayEvaluation_proofs`:

- `OneSelectorCorrect`, `SlicesMatchCorrect`, `ProgrammableCorrect` and
  `ReachableCorrect`: `Spec => []P` for the four properties of the run
  evaluation, for listener lists, parentRefs and sets of objects of any size.
  The configuration keeps its type (`ConfigCorrect`), and the rest follows from
  what the searches have in common: a binding is a listener with exactly one
  attached route, and that route's selector (`BindingFacts`). A count of one
  attached route is turned into the route itself, which needs `Routes` finite.
  For `ReachableCorrect`, agent and plugin read the same address from a status
  that has one (`OneAddress`), and a settled status that resolves is an accepted
  Gateway's (`SettledViews`).

`ControllerQueues_proofs`:

- `GatewaysCurrentCorrect`: `QueueSpec => []GatewaysCurrent`, and
  `EditsPropagateCorrect`: `QueueSpec => []EditsPropagate`, from `QueueInv`. A
  verdict depends on the class, the Gateways, the routes and the selectors, and
  each edit changes some of them; the lemmas on verdicts say which verdicts stay
  the same, and the handlers enqueue the others. A Gateway with an old status is
  queued or being reconciled (`GatewaysPending`). A route or selector with an old
  status need not be: it may wait for the status event of a Gateway whose status
  is still to change (`ObjectsPending`, `SlicesPending`, both while `doubt` does
  not hold). `FreshCopies` says that a write that is not refused was decided on
  the status it replaces.

`Proxier_proofs`:

- `TypeCorrect`: `Spec => []TypeOK`.
- `NoUpdateIsLost`: `Spec => []NoLostUpdate` by `SyncInv`: a snapshot in use is
  current or its handler still waits for the lock (`SnapshotCovered`), and a
  table that lags has a sync on its way (`LagCovered`).
- `QuietAgentIsProgrammed`: `Spec => []QuietIsProgrammed`. `NoLostUpdate` goes from
  the trackers to the kernel; `FeedCurrent` from the API server to the trackers:
  the last notification of a key is what the API server holds, and a key without
  one is tracked as it is. After a restart this rests on the initial list being
  complete (`InitialFeedsComplete`): as many adds as objects, no two alike, and
  finitely many keys.

`AddressWalk_proofs`, for any number of bytes, any byte width and any prefixes:

- `AllocatesHostsCorrect`, `FailsOnlyWhenFullCorrect` and `FirstFitCorrect`:
  `Spec => []P`, from `WalkInv`. Every host of a prefix the outer loop has left is
  in `taken` (`Passed`), and so is every host of the current prefix below the
  candidate (`WalkedUpTo`); the candidate is above the network address. Then the
  conditions of the inner loop hold exactly for hosts (`EndOfPrefix`), and when
  no prefix is left all hosts were met.
- `WalkAdvancesCorrect`: `Spec => WalkAdvances`. Every turn of the loops removes a
  prefix or raises the candidate: the measure by which the walk ends.

  The arithmetic below it: `pow2` and `value` are recursive functions, and their
  recursion equations are proved first (`PowDef`, `ValueDef`). Induction over
  bytes is by the least counterexample: a set of numbers that is not empty has a
  least element (`LeastNat`), so a set with 0 that is closed under successor is
  everything (`InductiveSet`). With it, `number` tells addresses apart
  (`SameNumber`), `nextAddr` adds one (`NextAddr`), masking subtracts the
  remainder (`NetworkNumber`), `lastAddr` adds the size less one (`LastNumber`),
  and `Contains` is membership in an interval (`ContainsInterval`).

Assumptions are the named `ASSUME`s of the modules: addresses are positive
numbers, names and positions of bindings are distinct and the bindings finite,
the special values are not members of the sets (`NoSliceAssumption`: none of them
is a slice), Gateway and TCPRoute objects and cached statuses have the shape of the API types and a
backendRef names some selector, existing or not (`SpecsAssumption`), the keys of
different kinds of objects are distinct (`ObjectsAssumption`), there are
finitely many TCPRoutes (`RoutesAssumption`), an address has at least one byte and
a byte at least one bit (`WidthAssumption`), what the caches hold has the shape of
the API types (`CachesAssumption`), `Invalid` is no address and no prefix
(`InvalidAssumption`), and the texts of prefixes are totally ordered
(`OrderAssumption`).

Only model-checked: liveness (`Converges` twice, `VerdictsConverge`, `WalkEnds`,
`ProgrammedByEvents`, `ProgrammedWithTicker`), since fairness and ENABLED are out
of the prover's reach. Every invariant, every action property and the refinement
that a passing run checks is a theorem. What the liveness properties leave to be
shown by TLC is that the steps on the way are taken: where a behaviour ends up
when nothing is left to do is proved (`QuiescentAccepted`, `QuiescentReleased`,
`QuiescentSlices`, `EditsPropagate`, `QuietIsProgrammed`), and so is that the walk
never turns back (`WalkAdvances`).

## 5. Not modelled

- Condition texts, reasons and generations where no event depends on them.
- Flags, Corefile and client configuration, HTTP endpoints: read once at startup.
- API types, registration and generated copies; manifests, tools and tests.
- The nftables expressions and DNS messages on the wire; a table is the join of
  frontends and backends, an answer a set of addresses.
- The endpoints of a slice and their order: one version number stands for them.
- Broken watches of the Gateway and IPAddress informers.
- A second controller process (the code has no leader election), other writers
  of Gateway status, and several namespaces in the slice controller.

## 6. Plan

Every component that keeps state is modelled, and every safety property that a
passing run checks is proved. What could come next:

1. A history of who created a slice in `EndpointSliceController`, to state for its
   deletes by name what `DeletesWereGranted` states for addresses.
2. The product of `GatewayController` and `Proxier`, with the API server between
   them: that the table follows the published addresses is now two theorems that
   meet at `api`, and TLC cannot reach the product.
