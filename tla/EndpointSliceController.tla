----------------------- MODULE EndpointSliceController -----------------------
(***************************************************************************)
(* The XEndpointSelector half of clusterip-gw-controller: one worker that  *)
(* turns accepted bindings into EndpointSlices.  It decides on a cached    *)
(* list of slices, deletes by name, updates under resourceVersion, and     *)
(* creates; the API server, the garbage collector and the watch run beside *)
(* it.  Which listener a selector serves is an input here (claim), which   *)
(* GatewayEvaluation computes: at most one selector claims a listener.     *)
(***************************************************************************)
EXTENDS Naturals, Sequences, FiniteSets

CONSTANTS
    Selectors,    \* XEndpointSelector keys
    Bindings,     \* <<gateway, listener>> pairs, in one namespace
    SliceName,    \* endpointSliceName of a binding
    Rank,         \* position of a binding in the order of sort.Slice
    None,         \* no selector, no slice, no key
    MaxEdits,     \* bound: edits of routes, Pods and Gateways
    MaxFailures,  \* bound: API calls that fail for no visible reason
    MaxRelists,   \* bound: watches that break and list again
    MaxRestarts,  \* bound: restarts of the controller process
    MaxLag        \* bound: watch events the slice informer may lag behind

Gateways == {b[1] : b \in Bindings}
Names == {SliceName[b] : b \in Bindings}

ASSUME BindingAssumption ==
    /\ \A b \in Bindings : b = <<b[1], b[2]>>
    /\ SliceName \in [Bindings -> Names]
    /\ IsFiniteSet(Bindings) /\ Rank \in [Bindings -> 1..Cardinality(Bindings)]
    /\ \A b, c \in Bindings : Rank[b] = Rank[c] => b = c
ASSUME NoneAssumption == None \notin Selectors \cup Names
ASSUME SliceBoundAssumption ==
    /\ MaxEdits \in Nat /\ MaxFailures \in Nat /\ MaxRelists \in Nat
    /\ MaxRestarts \in Nat /\ MaxLag \in Nat \ {0}

VARIABLES
    claim,      \* cached routes: the selector whose route is accepted for a binding
    pods,       \* cached Pods: the version of the endpoints a selector matches
    uid,        \* API server: UID of the Gateway of this name, 0 when there is none
    uidCache,   \* the same, in the Gateway informer
    slices,     \* API server: EndpointSlice objects
    cache, events,   \* EndpointSlice informer and the watch events it has not seen
    queue,      \* endpointSelectorQueue
    untold,     \* history: selectors that gained or lost a listener and were not enqueued
    worker,     \* the reconcile in progress
    edits, failures, relists, restarts   \* what is left of the bounds

inputs    == <<claim, pods, uid, uidCache>>
boundVars == <<edits, failures, relists, restarts>>
vars == <<claim, pods, uid, uidCache, slices, cache, events, queue, untold, worker,
          edits, failures, relists, restarts>>

-----------------------------------------------------------------------------
(* Objects *)

Uid == 0..(MaxEdits + 1)

\* What endpointSliceEqual compares: the labels (selector, gateway, listener),
\* the owner reference, and port and endpoints as one version.
Slice == [selector : Selectors, binding : Bindings, owner : Uid, content : 0..MaxEdits]
SliceOrNone == Slice \cup {None}

ASSUME NoSliceAssumption == None \notin Slice

\* left: the cached slices that still need a call.  desired: the slices that
\* must be there in the end and are not.  fresh: the names whose cached copy
\* nothing has superseded.
Task == [key : Selectors \cup {None}, left : SUBSET Names,
         desired : [Names -> SliceOrNone], fresh : SUBSET Names]

Idle == [key |-> None, left |-> {}, desired |-> [n \in Names |-> None], fresh |-> {}]

-----------------------------------------------------------------------------
(* Reads of the caches *)

\* listReferencedGatewayBindings
bindingsOf(s) == {b \in Bindings : claim[b] = s /\ uidCache[b[1]] # 0}

\* The endpoints of the cached Pods that match, are alive and have an IPv4
\* address: a version of them.
buildEndpointSliceEndpoints(s) == pods[s]

desiredEndpointSlice(s, b) ==
    [selector |-> s, binding |-> b, owner |-> uidCache[b[1]],
     content |-> buildEndpointSliceEndpoints(s)]

endpointSliceName(b) == SliceName[b]

\* desired[slice.Name] = slice, for the bindings in sorted order: of two
\* bindings with one name the later stays.
desiredMap(s) ==
    [n \in Names |->
       LET named == {b \in bindingsOf(s) : endpointSliceName(b) = n}
       IN  IF named = {} THEN None
           ELSE desiredEndpointSlice(s, CHOOSE b \in named : \A c \in named : Rank[c] <= Rank[b])]

\* endpointSelectorKeyForEndpointSlice, as the index of the informer.
selectorKey(o) == IF o = None THEN {} ELSE {o.selector}

listManagedEndpointSlices(s) == {n \in Names : s \in selectorKey(cache[n])}

endpointSliceEqual(a, b) == a = b

cacheCurrent(n) == \A i \in 1..Len(events) : events[i].name # n

-----------------------------------------------------------------------------
(* Writes to the API server *)

\* Slice n becomes o, and the watch reports it later.
writeSlice(n, o) ==
    /\ Len(events) < MaxLag
    /\ slices' = [slices EXCEPT ![n] = o]
    /\ events' = Append(events, [name |-> n, obj |-> o])

noWrite == UNCHANGED <<slices, events>>

-----------------------------------------------------------------------------
(* processNextEndpointSelector *)

\* reconcileEndpointSelector up to its first call on a slice.  A selector that
\* is missing, not accepted or unreferenced has no bindings, and
\* deleteManagedEndpointSlices is then what the loop does.
startReconcile(s) ==
    LET managed == listManagedEndpointSlices(s)
        want    == desiredMap(s)
        equal   == {n \in managed : endpointSliceEqual(cache[n], want[n])}
    IN  /\ worker.key = None
        /\ s \in queue
        /\ queue' = queue \ {s} /\ untold' = untold \ {s}
        /\ worker' = [key |-> s, left |-> managed \ equal,
                      desired |-> [n \in Names |-> IF n \in equal THEN None ELSE want[n]],
                      fresh |-> {n \in Names : cacheCurrent(n)}]
        /\ noWrite
        /\ UNCHANGED cache /\ UNCHANGED inputs /\ UNCHANGED boundVars

\* return err: AddRateLimited and Done.
retry == worker' = Idle /\ queue' = queue \cup {worker.key}

\* A slice that is not desired: Delete by name, NotFound ignored.
deleteSlice(n) ==
    /\ n \in worker.left /\ worker.desired[n] = None
    /\ IF slices[n] = None THEN noWrite ELSE writeSlice(n, None)
    /\ worker' = [worker EXCEPT !.left = @ \ {n}, !.fresh = @ \ {n}]
    /\ UNCHANGED <<cache, queue, untold>> /\ UNCHANGED inputs /\ UNCHANGED boundVars

\* An Update that carries no resourceVersion.
updateSlice_Unversioned(n) ==
    /\ n \in worker.left /\ worker.desired[n] # None
    /\ slices[n] # None
    /\ writeSlice(n, worker.desired[n])
    /\ worker' = [worker EXCEPT !.left = @ \ {n}, !.desired[n] = None, !.fresh = @ \ {n}]
    /\ UNCHANGED <<cache, queue, untold>> /\ UNCHANGED inputs /\ UNCHANGED boundVars

\* A slice that differs: Update of the cached copy.  A copy that has been
\* superseded loses to a conflict or to NotFound, and the reconcile ends.
updateSlice(n) ==
    /\ n \in worker.left /\ worker.desired[n] # None
    /\ IF n \in worker.fresh
         THEN /\ writeSlice(n, worker.desired[n])
              /\ worker' = [worker EXCEPT !.left = @ \ {n}, !.desired[n] = None,
                                          !.fresh = @ \ {n}]
              /\ UNCHANGED queue
         ELSE retry /\ noWrite
    /\ UNCHANGED <<cache, untold>> /\ UNCHANGED inputs /\ UNCHANGED boundVars

\* What remains is created; AlreadyExists is an error like any other.
createSlice(n) ==
    /\ worker.left = {} /\ worker.desired[n] # None
    /\ IF slices[n] = None
         THEN /\ writeSlice(n, worker.desired[n])
              /\ worker' = [worker EXCEPT !.desired[n] = None, !.fresh = @ \ {n}]
              /\ UNCHANGED queue
         ELSE retry /\ noWrite
    /\ UNCHANGED <<cache, untold>> /\ UNCHANGED inputs /\ UNCHANGED boundVars

finishReconcile ==
    /\ worker.key # None /\ worker.left = {} /\ \A n \in Names : worker.desired[n] = None
    /\ worker' = Idle
    /\ noWrite /\ UNCHANGED <<cache, queue, untold>> /\ UNCHANGED inputs /\ UNCHANGED boundVars

\* Any call may fail, the status update before the first one included.
apiCallFails ==
    /\ failures > 0 /\ worker.key # None
    /\ failures' = failures - 1
    /\ retry
    /\ noWrite /\ UNCHANGED <<cache, untold, edits, relists, restarts>> /\ UNCHANGED inputs

-----------------------------------------------------------------------------
(* Informers *)

\* A delete handler that only knows the key of what is left.
handlerKeys_NewObject(old, new) == selectorKey(new)

\* enqueueEndpointSelectorForEndpointSliceObject: the new object's label; of a
\* deleted slice, the label it had when the cache saw it last.
handlerKeys(old, new) == IF new = None THEN selectorKey(old) ELSE selectorKey(new)

\* The object a delete event carries is the one that was deleted, which is the
\* one the event before it cached.
deliverSlice ==
    LET e == Head(events)
    IN  /\ events # <<>>
        /\ cache' = [cache EXCEPT ![e.name] = e.obj]
        /\ events' = Tail(events)
        /\ queue' = queue \cup handlerKeys(cache[e.name], e.obj)
        /\ UNCHANGED <<slices, untold, worker>> /\ UNCHANGED inputs /\ UNCHANGED boundVars

\* The watch breaks and the informer lists: what happened in between is seen
\* as one change per slice, a deletion as a tombstone with the last known
\* object.
relist ==
    /\ relists > 0 /\ events # <<>>
    /\ relists' = relists - 1
    /\ cache' = slices /\ events' = <<>>
    /\ queue' = queue \cup UNION {handlerKeys(cache[n], slices[n]) :
                                    n \in {m \in Names : cache[m] # slices[m]}}
    /\ UNCHANGED <<slices, untold, worker, edits, failures, restarts>> /\ UNCHANGED inputs

\* Keys of backendRefs that are no XEndpointSelectors, too.
selectorsForGateway_AnyBackend(g) == {claim[b] : b \in {c \in Bindings : c[1] = g}}

\* routeBackendEndpointSelectorKeys of the routes that name Gateway g.
selectorsForGateway(g) == {claim[b] : b \in {c \in Bindings : c[1] = g}} \ {None}

\* enqueueRoutesForGateway, for an event of Gateway g.
deliverGateway(g) ==
    /\ uidCache[g] # uid[g]
    /\ uidCache' = [uidCache EXCEPT ![g] = uid[g]]
    /\ queue' = queue \cup selectorsForGateway(g)
    /\ UNCHANGED <<claim, pods, uid, slices, cache, events, untold, worker>> /\ UNCHANGED boundVars

\* A status event of the Gateway, whose enqueueRoutesForGateway reaches a
\* selector no route event has told.  It comes only if the sibling's edit
\* changed what the Gateway's status says.
deliverGatewayStatus(s) ==
    /\ s \in untold
    /\ queue' = queue \cup {s} /\ untold' = untold \ {s}
    /\ UNCHANGED <<slices, cache, events, worker>> /\ UNCHANGED inputs /\ UNCHANGED boundVars

\* Every cached selector and every managed slice is delivered again.
enqueueAll(known) ==
    ({claim[b] : b \in Bindings} \ {None}) \cup UNION {selectorKey(known[n]) : n \in Names}

\* Informers without resync.
resync_None == UNCHANGED vars

resync ==
    /\ queue' = queue \cup enqueueAll(cache)
    /\ UNCHANGED <<slices, cache, events, untold, worker>> /\ UNCHANGED inputs /\ UNCHANGED boundVars

\* The process dies; the next one lists everything.
restart ==
    /\ restarts > 0
    /\ restarts' = restarts - 1
    /\ cache' = slices /\ events' = <<>> /\ uidCache' = uid
    /\ worker' = Idle
    /\ queue' = enqueueAll(slices) /\ untold' = {}
    /\ UNCHANGED <<claim, pods, uid, slices, edits, failures, relists>>

-----------------------------------------------------------------------------
(* Users and the rest of the cluster *)

edit == edits > 0 /\ edits' = edits - 1 /\ UNCHANGED <<failures, relists, restarts>>

\* An event of the route or selector informer moves binding b to selector s,
\* or takes it away.  The handler enqueues the selectors of the route that was
\* edited, before and after (told); a selector that gains or loses the listener
\* because a sibling of its route came or went is not enqueued.
changeClaim(b, s, told) ==
    /\ edit
    /\ claim[b] # s
    /\ claim' = [claim EXCEPT ![b] = s]
    /\ queue' = queue \cup told
    /\ untold' = (untold \cup ({claim[b], s} \ {None})) \ told
    /\ UNCHANGED <<pods, uid, uidCache, slices, cache, events, worker>>

\* A Pod event changes the endpoints of s: every selector of the namespace is
\* enqueued.
changePods(s) ==
    /\ edit
    /\ pods' = [pods EXCEPT ![s] = @ + 1]
    /\ queue' = queue \cup ({claim[b] : b \in Bindings} \ {None})
    /\ UNCHANGED <<claim, uid, uidCache, slices, cache, events, untold, worker>>

\* A Gateway goes away, or another one of the same name comes.
deleteGateway(g) ==
    /\ edit
    /\ uid[g] # 0
    /\ uid' = [uid EXCEPT ![g] = 0]
    /\ UNCHANGED <<claim, pods, uidCache, slices, cache, events, queue, untold, worker>>

createGateway(g) ==
    /\ edit
    /\ uid[g] = 0
    /\ uid' = [uid EXCEPT ![g] = MaxEdits + 1 - edits']
    /\ UNCHANGED <<claim, pods, uidCache, slices, cache, events, queue, untold, worker>>

\* The garbage collector deletes a slice whose owner no longer exists.
collectGarbage(n) ==
    /\ slices[n] # None /\ slices[n].owner # uid[slices[n].binding[1]]
    /\ writeSlice(n, None)
    /\ worker' = [worker EXCEPT !.fresh = @ \ {n}]
    /\ UNCHANGED <<cache, queue, untold>> /\ UNCHANGED inputs /\ UNCHANGED boundVars

-----------------------------------------------------------------------------

\* The controller starts on a cluster with Gateways and accepted routes, and
\* no slices yet.
Init ==
    /\ claim \in [Bindings -> Selectors \cup {None}]
    /\ pods = [s \in Selectors |-> 0]
    /\ uid = [g \in Gateways |-> 1] /\ uidCache = uid
    /\ slices = [n \in Names |-> None] /\ cache = slices /\ events = <<>>
    /\ queue = {claim[b] : b \in Bindings} \ {None}
    /\ untold = {}
    /\ worker = Idle
    /\ edits = MaxEdits /\ failures = MaxFailures
    /\ relists = MaxRelists /\ restarts = MaxRestarts

reconcile ==
    \/ \E n \in Names : deleteSlice(n) \/ updateSlice(n) \/ createSlice(n)
    \/ finishReconcile

Environment ==
    \/ \E b \in Bindings, s \in Selectors \cup {None}, told \in SUBSET Selectors :
         changeClaim(b, s, told)
    \/ \E s \in Selectors : changePods(s)
    \/ \E g \in Gateways : deleteGateway(g) \/ createGateway(g)

Next ==
    \/ \E s \in Selectors : startReconcile(s) \/ deliverGatewayStatus(s)
    \/ reconcile \/ apiCallFails
    \/ deliverSlice \/ relist \/ resync \/ restart
    \/ \E g \in Gateways : deliverGateway(g)
    \/ \E n \in Names : collectGarbage(n)
    \/ Environment

Spec == Init /\ [][Next]_vars

\* The worker runs and its queue is FIFO, watches deliver, the garbage
\* collector collects, and the informers resync.
Fairness ==
    /\ \A s \in Selectors : SF_vars(startReconcile(s))
    /\ WF_vars(reconcile) /\ WF_vars(deliverSlice) /\ WF_vars(resync)
    /\ \A g \in Gateways : WF_vars(deliverGateway(g))
    /\ \A n \in Names : WF_vars(collectGarbage(n))

FairSpec == Spec /\ Fairness

-----------------------------------------------------------------------------
(* Properties *)

\* Every variable holds a value of its type: the selector queue only holds
\* selector keys, whatever EndpointSlice events arrive.
TypeOK ==
    /\ claim \in [Bindings -> Selectors \cup {None}]
    /\ pods \in [Selectors -> 0..MaxEdits]
    /\ uid \in [Gateways -> Uid]
    /\ uidCache \in [Gateways -> Uid]
    /\ slices \in [Names -> SliceOrNone]
    /\ cache \in [Names -> SliceOrNone]
    /\ events \in Seq([name : Names, obj : SliceOrNone])
    /\ queue \in SUBSET Selectors
    /\ untold \in SUBSET Selectors
    /\ worker \in Task
    /\ edits \in 0..MaxEdits
    /\ failures \in 0..MaxFailures
    /\ relists \in 0..MaxRelists
    /\ restarts \in 0..MaxRestarts

\* No key waits, nothing runs, every informer is up to date and nothing is
\* left to collect.
Quiescent ==
    /\ queue = {} /\ worker.key = None /\ events = <<>> /\ uidCache = uid
    /\ \A n \in Names : slices[n] # None => slices[n].owner = uid[slices[n].binding[1]]

\* The slice a binding deserves is there, current, and owned by the Gateway
\* that exists now; slices nobody deserves are gone.
served(b) == claim[b] # None /\ uid[b[1]] # 0
Settled ==
    /\ \A b \in Bindings : served(b) =>
         slices[SliceName[b]] = [selector |-> claim[b], binding |-> b,
                                 owner |-> uid[b[1]], content |-> pods[claim[b]]]
    /\ \A n \in Names : slices[n] # None =>
         served(slices[n].binding) /\ claim[slices[n].binding] = slices[n].selector

\* Once every selector has been told of its listeners, the slices are what the
\* accepted bindings ask for, through stale lists, conflicts, AlreadyExists and
\* handovers of a slice name between two selectors, as long as the watch of the
\* slices is not interrupted: when nothing is left to do, every binding has its
\* current slice and no other slice is left.  Nobody has to be told twice, and
\* in no particular order.
QuiescentSlices == Quiescent /\ untold = {} /\ relists = MaxRelists => Settled

\* A slice never passes from one selector to another by an update: the old
\* one is deleted first.  The update handler enqueues only the selector that
\* the new object names, so an update in place would leave the old one
\* uninformed.
HandoverByDeletion ==
    [][\A n \in Names : slices[n] # None /\ slices'[n] # None =>
         slices'[n].selector = slices[n].selector]_vars

\* After finitely many edits, failed calls and broken watches the slices
\* settle and stay settled.  A relist may hide from a selector that its slice
\* was deleted, and no event may ever tell it of its listeners; then only the
\* resync comes back to it.
Converges == <>[]Settled

\* "build one gateway-owned backend `EndpointSlice` per `(Gateway, listener)`":
\* when nothing is left to do and every selector has been told of its listeners,
\* an accepted binding has a slice of its own.
OneSlicePerBinding ==
    Quiescent /\ untold = {} /\ relists = MaxRelists =>
        \A b \in Bindings : served(b) =>
            \E n \in Names : slices[n] # None /\ slices[n].binding = b

=============================================================================
