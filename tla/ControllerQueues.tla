-------------------------- MODULE ControllerQueues --------------------------
(***************************************************************************)
(* Who is told when something changes.  The four workqueues of             *)
(* clusterip-gw-controller, the handlers that fill them and the reconciles *)
(* that empty them, over the evaluation of GatewayEvaluation, whose        *)
(* configuration variables are the informer caches here.                   *)
(*                                                                         *)
(* A verdict on one object depends on others: a TCPRoute is accepted or    *)
(* not because of its siblings on the listener.  No handler enqueues the   *)
(* siblings; they hear of the change only because it changes the Gateway's *)
(* status, whose update event enqueues all routes and selectors of the     *)
(* Gateway.                                                                *)
(*                                                                         *)
(* Left out: addresses (GatewayController) and the calls on slices         *)
(* (EndpointSliceController), whose events would only enqueue more often.  *)
(***************************************************************************)
EXTENDS GatewayEvaluation

CONSTANTS
    Class,                      \* the GatewayClass clusterip-gw
    ClassSpecs, SelectorSpecs,  \* what users make of classes and selectors
    MaxEdits                    \* bound: edits in a behaviour

Objects == {Class} \cup Gateways \cup Routes \cup Selectors

ASSUME ObjectsAssumption ==
    /\ MaxEdits \in Nat
    /\ ClassSpecs \subseteq {"absent", "ours", "foreign"}
    /\ SelectorSpecs \subseteq {"absent", "invalid", "valid"}
    /\ Class \notin Gateways \cup Routes \cup Selectors
    /\ Gateways \cap Routes = {} /\ Gateways \cap Selectors = {} /\ Routes \cap Selectors = {}

VARIABLES
    status,     \* API server: the status of each object, {} when we wrote none
    seen,       \* the same, in the informer caches
    slices,     \* the listeners each selector has EndpointSlices for
    queue,      \* the four workqueues: the keys that wait
    task,       \* reconciles that have evaluated and not yet written
    doubt,      \* history: since the last resync an edit met unfinished work, or a
                \* Gateway that hides its attached routes
    edits       \* what is left of MaxEdits

config == <<class, gateway, route, selector>>
queueVars == <<class, gateway, route, selector, status, seen, slices, queue, task, doubt, edits>>

-----------------------------------------------------------------------------
(* What a reconcile writes.  Generations are left out: an edit of an object *)
(* enqueues whatever its status event would.                               *)

\* reconcileGatewayClass: a class of our name is managed, whoever controls it.
classStatus == {<<"Accepted", classAccepted>>}

managed(g) == gateway[g].exists /\ gateway[g].ours

\* The status of a listener: attachedRoutes, Accepted, and the route that a
\* message names when it is the only one and is not supported.
listenerStatusForOutcome(g, i) ==
    LET l == gateway[g].listeners[i]
        attached == attachedRoutesForListener(g, l)
        usable == listenerUsable(g, i)
    IN  <<l.name, Cardinality(attached), usable,
          IF Cardinality(attached) = 1 /\ ~usable THEN attached ELSE {}>>

\* The same verdict for every listener, and no attached routes.
listenerStatusesForGatewayMessage(g) ==
    LET ls == gateway[g].listeners
    IN  {<<ls[i].name, 0, FALSE, {}>> : i \in DOMAIN ls}

\* evaluateGateway: the reason of the Accepted condition and the listeners.
gatewayStatus(g) ==
    LET ls == gateway[g].listeners
    IN  IF ~classAccepted THEN {<<"InvalidParameters">>}
        ELSE IF ~validateGatewayListeners(ls)
          THEN {<<"ListenersNotValid">>} \cup listenerStatusesForGatewayMessage(g)
        ELSE IF gateway[g].addresses
          THEN {<<"UnsupportedAddress">>} \cup listenerStatusesForGatewayMessage(g)
        ELSE {<<IF evaluateGateway(g) THEN "Accepted" ELSE "Invalid">>} \cup
             {listenerStatusForOutcome(g, i) : i \in DOMAIN ls}

\* reconcileRoute: the entries of status.parents that are ours.
routeStatus(r) ==
    LET ps == route[r].parentRefs
        ours == {i \in DOMAIN ps : ps[i].gateway \in Gateways /\ managed(ps[i].gateway)}
    IN  {<<i, routeAccepted(r, ps[i], ps[i].gateway), routeResolved(r)>> : i \in ours}

exists(x) ==
    IF x = Class THEN class # "absent"
    ELSE IF x \in Gateways THEN gateway[x].exists
    ELSE IF x \in Routes THEN route[x].exists
    ELSE selector[x] # "absent"

\* What the reconcile of x wants its status to be.  A Gateway of another class
\* is cleared; a route without a parent of ours has no entries of ours.
verdict(x) ==
    IF ~exists(x) THEN {}
    ELSE IF x = Class THEN classStatus
    ELSE IF x \in Gateways THEN IF managed(x) THEN gatewayStatus(x) ELSE {}
    ELSE IF x \in Routes THEN routeStatus(x)
    ELSE {<<"Accepted", evaluateEndpointSelector(x)>>}

-----------------------------------------------------------------------------
(* Handlers: the keys an event enqueues *)

routeGatewayParentKeys(o) == {o.parentRefs[i].gateway : i \in DOMAIN o.parentRefs} \cap Gateways

\* A backend of another kind or namespace is none of these selectors.
routeBackendEndpointSelectorKeys(o) ==
    IF o.exists /\ o.backend \notin {"kind", "namespace"} THEN {o.backendRef} ELSE {}

\* A Gateway event that reaches the selectors and not the routes.
enqueueRoutesForGateway_SelectorsOnly(g) ==
    UNION {routeBackendEndpointSelectorKeys(route[r]) : r \in listRoutesForGateway(g)}

enqueueRoutesForGateway(g) ==
    listRoutesForGateway(g) \cup
    UNION {routeBackendEndpointSelectorKeys(route[r]) : r \in listRoutesForGateway(g)}

enqueueGatewaysForClass ==
    UNION {{g} \cup enqueueRoutesForGateway(g) : g \in {h \in Gateways : managed(h)}}

enqueueForRoute(r, o) == {r} \cup routeGatewayParentKeys(o) \cup routeBackendEndpointSelectorKeys(o)

enqueueSelectorAndRelatedRoutes(s) ==
    LET related == {r \in Routes : s \in routeBackendEndpointSelectorKeys(route[r])}
    IN  {s} \cup related \cup UNION {routeGatewayParentKeys(route[r]) : r \in related}

\* The handler of an event of x that is no edit.
handlerKeys(x) ==
    IF x = Class THEN {x} \cup enqueueGatewaysForClass
    ELSE IF x \in Gateways THEN {x} \cup enqueueRoutesForGateway(x)
    ELSE IF x \in Routes THEN enqueueForRoute(x, route[x])
    ELSE enqueueSelectorAndRelatedRoutes(x)

-----------------------------------------------------------------------------
(* Workers *)

NoTask == [busy |-> FALSE, copy |-> {}, want |-> {}, fresh |-> FALSE]

\* One worker for classes, one for routes, one for selectors, and two for
\* Gateways.
workerFree(x) ==
    \/ x \in Gateways /\ Cardinality({g \in Gateways : task[g].busy}) < 2
    \/ x = Class
    \/ x \in Routes /\ \A r \in Routes : ~task[r].busy
    \/ x \in Selectors /\ \A s \in Selectors : ~task[s].busy

\* conditionsEqual, routeParentsEqual and their like: entries of status.parents
\* that other controllers wrote are kept and do not count.
statusEqual(t) == t.copy = t.want

\* A reconcile reads the caches and evaluates.  An object that is gone has no
\* status to write; a selector that is gone still loses its slices.
startReconcile(x) ==
    /\ x \in queue /\ ~task[x].busy /\ workerFree(x)
    /\ queue' = queue \ {x}
    /\ task' = [task EXCEPT ![x] = [busy |-> TRUE, copy |-> seen[x], want |-> verdict(x),
                                    fresh |-> seen[x] = status[x] /\ exists(x)]]
    /\ UNCHANGED config /\ UNCHANGED <<status, seen, slices, doubt, edits>>

\* ... and writes.  No write when the cached status says it already; a write on
\* a superseded copy fails, and the key comes back.  The selector's slices
\* follow its status, from a second look at the caches.
finishReconcile(x) ==
    LET t == task[x]
        conflict == ~statusEqual(t) /\ ~t.fresh
    IN  /\ t.busy
        /\ status' = [status EXCEPT ![x] = IF t.fresh THEN t.want ELSE @]
        /\ slices' = IF x \in Selectors /\ ~conflict
                       THEN [slices EXCEPT ![x] = desiredEndpointSlices(x)] ELSE slices
        /\ queue' = IF conflict THEN queue \cup {x} ELSE queue
        /\ task' = [task EXCEPT ![x] = NoTask]
        /\ UNCHANGED config /\ UNCHANGED <<seen, doubt, edits>>

\* The watch brings a status back.
deliverStatus(x) ==
    /\ seen[x] # status[x]
    /\ seen' = [seen EXCEPT ![x] = status[x]]
    /\ queue' = queue \cup handlerKeys(x)
    /\ UNCHANGED config /\ UNCHANGED <<status, slices, task, doubt, edits>>

-----------------------------------------------------------------------------
(* Users and resync *)

Quiescent == queue = {} /\ seen = status /\ \A x \in Objects : ~task[x].busy

\* An edit of x reaches the cache and its handler enqueues keys.  It makes
\* copies stale; the status of an object goes with the object.
edit(x, keys) ==
    /\ edits > 0
    /\ edits' = edits - 1
    /\ doubt' = (doubt \/ ~Quiescent \/ \E g \in Gateways : gateway[g].addresses)
    /\ queue' = queue \cup keys
    /\ task' = [task EXCEPT ![x].fresh = FALSE]
    /\ status' = [status EXCEPT ![x] = IF exists(x)' THEN @ ELSE {}]
    /\ seen' = [seen EXCEPT ![x] = IF exists(x)' THEN @ ELSE {}]
    /\ UNCHANGED slices

userEditsClass(c) == c # class /\ editClass(c) /\ edit(Class, handlerKeys(Class))

userEditsGateway(g, o) == o # gateway[g] /\ editGateway(g, o) /\ edit(g, handlerKeys(g))

\* An update handler that looks at the new route only.
userEditsRoute_NewOnly(r, o) ==
    o # route[r] /\ editRoute(r, o) /\ edit(r, enqueueForRoute(r, o))

\* The update handler looks at the old route and at the new one.
userEditsRoute(r, o) ==
    /\ o # route[r]
    /\ editRoute(r, o)
    /\ edit(r, enqueueForRoute(r, route[r]) \cup enqueueForRoute(r, o))

userEditsSelector(s, v) == v # selector[s] /\ editSelector(s, v) /\ edit(s, handlerKeys(s))

\* A resync of the Gateway informer only.
resync_GatewaysOnly ==
    /\ doubt /\ Quiescent
    /\ queue' = {x \in Gateways : exists(x)}
    /\ doubt' = FALSE
    /\ UNCHANGED config /\ UNCHANGED <<status, seen, slices, task, edits>>

\* The informers' periodic resync: an update of every object.  It is much
\* slower than the workers, and is only taken when it has something to repair.
resync ==
    /\ doubt /\ Quiescent
    /\ queue' = UNION {handlerKeys(x) : x \in {y \in Objects : exists(y)}}
    /\ doubt' = FALSE
    /\ UNCHANGED config /\ UNCHANGED <<status, seen, slices, task, edits>>

-----------------------------------------------------------------------------

\* The controller has settled on some configuration: every key was reconciled
\* against it.
QueueInit ==
    /\ class = "ours"
    /\ gateway \in [Gateways -> {o \in GatewaySpecs : ~o.addresses}]
    /\ route \in [Routes -> RouteSpecs \cup {NoRoute}]
    /\ selector \in [Selectors -> {"valid"}]
    /\ status = [x \in Objects |-> verdict(x)] /\ seen = status
    /\ slices = [s \in Selectors |-> desiredEndpointSlices(s)]
    /\ queue = {} /\ task = [x \in Objects |-> NoTask]
    /\ doubt = FALSE /\ edits = MaxEdits

QueueNext ==
    \/ \E x \in Objects : startReconcile(x) \/ finishReconcile(x) \/ deliverStatus(x)
    \/ resync
    \/ \E c \in ClassSpecs : userEditsClass(c)
    \/ \E g \in Gateways, o \in GatewaySpecs \cup {NoGateway} : userEditsGateway(g, o)
    \/ \E r \in Routes, o \in RouteSpecs \cup {NoRoute} : userEditsRoute(r, o)
    \/ \E s \in Selectors, v \in SelectorSpecs : userEditsSelector(s, v)

\* Some worker runs, some watch delivers, and the informers resync.  No worker,
\* key or watch is promised its turn before the others.
QueueFairness ==
    /\ WF_queueVars(\E x \in Objects : startReconcile(x) \/ finishReconcile(x))
    /\ WF_queueVars(\E x \in Objects : deliverStatus(x))
    /\ WF_queueVars(resync)

QueueSpec == QueueInit /\ [][QueueNext]_queueVars /\ QueueFairness

-----------------------------------------------------------------------------
(* Properties *)

\* Every event that bears on a Gateway's status enqueues the Gateway: when
\* nothing is left to do, each Gateway says what evaluateGateway makes of the
\* caches, however edits overlapped.
GatewaysCurrent ==
    Quiescent => \A g \in Gateways : managed(g) => status[g] = gatewayStatus(g)

current(x) == exists(x) => status[x] = verdict(x)
AllCurrent ==
    /\ \A x \in Objects : current(x)
    /\ \A s \in Selectors : slices[s] = desiredEndpointSlices(s)

\* Events carry an edit to every object it bears on, siblings included: when
\* edits arrive one at a time, and no Gateway hides its attached routes behind
\* spec.addresses, every status and every selector's slices are up to date when
\* nothing is left to do.  Otherwise they are after the next resync: edits that
\* overlap may cancel out in a Gateway's status before it is written, and then
\* nothing enqueues the siblings.
EditsPropagate == Quiescent /\ ~doubt => AllCurrent

\* Status events enqueue keys whose reconciles write statuses: this comes to an
\* end, with everything up to date.
VerdictsConverge == <>[]AllCurrent

=============================================================================
