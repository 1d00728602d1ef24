----------------------- MODULE ControllerQueues_proofs -----------------------
(***************************************************************************)
(* Events carry every edit to all it bears on, for every set of objects    *)
(* and any number of edits.  The inductive invariant says who still has to *)
(* be told while work is under way: an object whose status is not what its *)
(* reconcile would write is queued, or about to be, or waits for the status *)
(* event of a Gateway.                                                     *)
(***************************************************************************)
EXTENDS ControllerQueues, GatewayEvaluation_proofs

-----------------------------------------------------------------------------
(* The inductive invariant *)

\* status, seen, slices and task are functions on the objects, and a task is a
\* record.
QueueTypes ==
    /\ ConfigOK
    /\ status = [x \in Objects |-> status[x]]
    /\ seen = [x \in Objects |-> seen[x]]
    /\ slices = [s \in Selectors |-> slices[s]]
    /\ task = [x \in Objects |-> [busy |-> task[x].busy, copy |-> task[x].copy,
                                  want |-> task[x].want, fresh |-> task[x].fresh]]
    /\ doubt \in BOOLEAN

\* A reconcile whose copy is not superseded holds what both the API server and
\* the cache say.
FreshCopies ==
    \A x \in Objects : task[x].fresh =>
        task[x].busy /\ seen[x] = task[x].copy /\ status[x] = task[x].copy

Stale(x) == exists(x) /\ status[x] # verdict(x)

\* The key of x waits, a watch event will enqueue it, or a reconcile of x will
\* write the verdict or fail with a conflict.
Pending(x) ==
    \/ x \in queue
    \/ seen[x] # status[x]
    \/ task[x].busy /\ task[x].fresh /\ task[x].want = verdict(x)
    \/ task[x].busy /\ ~task[x].fresh /\ task[x].copy # task[x].want

\* The status of a Gateway is about to change, and the event will enqueue x.
Awaits(x) ==
    \E g \in Gateways : managed(g) /\ seen[g] # gatewayStatus(g) /\ x \in enqueueRoutesForGateway(g)

GatewaysPending == \A g \in Gateways : Stale(g) => Pending(g)

ObjectsPending == \A x \in Objects : Stale(x) => Pending(x) \/ Awaits(x) \/ doubt

\* Slices follow any reconcile of their selector, whatever it finds.  A selector
\* that is gone has nobody to remind it of them, not even a resync.
SlicesPending ==
    \A s \in Selectors : slices[s] # desiredEndpointSlices(s) =>
        s \in queue \/ seen[s] # status[s] \/ task[s].busy \/ (exists(s) /\ (Awaits(s) \/ doubt))

QueueInv == QueueTypes /\ FreshCopies /\ GatewaysPending /\ ObjectsPending /\ SlicesPending

-----------------------------------------------------------------------------
(* What verdicts depend on *)

\* The verdict on a Gateway depends on the class, the Gateway and the routes that
\* name it.
LEMMA SameGateway ==
    ASSUME NEW g, class' = class, gateway'[g] = gateway[g],
           (listRoutesForGateway(g))' = listRoutesForGateway(g),
           \A r \in listRoutesForGateway(g) :
             route'[r] = route[r] /\ (routeResolved(r))' = routeResolved(r)
    PROVE  /\ (gatewayStatus(g))' = gatewayStatus(g) /\ (managed(g))' = managed(g)
           /\ \A r \in listRoutesForGateway(g) : \A p :
                (routeAccepted(r, p, g))' = routeAccepted(r, p, g)
<1>1. \A l : (attachedRoutesForListener(g, l))' = attachedRoutesForListener(g, l)
  BY DEF attachedRoutesForListener, parentMatchesListener
<1>2. \A p : (resolveGatewayListener(g, p))' = resolveGatewayListener(g, p)
  BY DEF resolveGatewayListener, parentMatchesListener
<1>3. \A r \in listRoutesForGateway(g) : \A p :
        (routeAccepted(r, p, g))' = routeAccepted(r, p, g)
  BY <1>1, <1>2 DEF routeAccepted, classAccepted
<1>4. \A r \in listRoutesForGateway(g) : (matchingParentRef(r, g))' = matchingParentRef(r, g)
  <2> TAKE r \in listRoutesForGateway(g)
  <2> DEFINE first(ps) ==
        LET naming == {i \in DOMAIN ps : ps[i].gateway = g}
        IN  IF naming = {} THEN [gateway |-> g, section |-> NoName, port |-> NoName]
            ELSE ps[CHOOSE i \in naming : \A j \in naming : i <= j]
  <2>1. matchingParentRef(r, g) = first(route[r].parentRefs)
    BY DEF matchingParentRef
  <2>2. (matchingParentRef(r, g))' = first(route'[r].parentRefs)
    BY DEF matchingParentRef
  <2> HIDE DEF first
  <2> QED BY <2>1, <2>2
<1>5. \A l : attachedRoutesForListener(g, l) \subseteq listRoutesForGateway(g)
  BY DEF attachedRoutesForListener
<1>6. \A i : (listenerUsable(g, i))' = listenerUsable(g, i)
  BY <1>1, <1>3, <1>4, <1>5 DEF listenerUsable
<1>7. (usableListeners(g))' = usableListeners(g)
  BY <1>6 DEF usableListeners, classAccepted
<1>8. \A i : (listenerStatusForOutcome(g, i))' = listenerStatusForOutcome(g, i)
  BY <1>1, <1>6 DEF listenerStatusForOutcome
<1>9. (gatewayStatus(g))' = gatewayStatus(g)
  BY <1>7, <1>8 DEF gatewayStatus, classAccepted, evaluateGateway, listenerStatusesForGatewayMessage
<1> QED BY <1>3, <1>9 DEF managed

\* The entries of a route depend on the route and on what its parents make of it.
LEMMA SameRoute ==
    ASSUME NEW r, route'[r] = route[r], (routeResolved(r))' = routeResolved(r),
           \A i \in DOMAIN route[r].parentRefs :
             LET g == route[r].parentRefs[i].gateway
             IN  g \in Gateways =>
                   /\ (managed(g))' = managed(g)
                   /\ managed(g) => (routeAccepted(r, route[r].parentRefs[i], g))' =
                                    routeAccepted(r, route[r].parentRefs[i], g)
    PROVE  (routeStatus(r))' = routeStatus(r)
<1> DEFINE ps == route[r].parentRefs
           ours == {i \in DOMAIN ps : ps[i].gateway \in Gateways /\ managed(ps[i].gateway)}
<1>1. (ours)' = ours
  OBVIOUS
<1>2. \A i \in ours : (routeAccepted(r, ps[i], ps[i].gateway))' = routeAccepted(r, ps[i], ps[i].gateway)
  OBVIOUS
<1> QED BY <1>1, <1>2 DEF routeStatus

\* The bindings of a selector, without the search for them.
Bound(s, r, g, i) ==
    /\ evaluateEndpointSelector(s)
    /\ route[r].exists /\ route[r].backend = "selector" /\ route[r].backendRef = s
    /\ managed(g)
    /\ Len(route[r].parentRefs) = 1 /\ route[r].parentRefs[1].gateway = g
    /\ i \in resolveGatewayListener(g, route[r].parentRefs[1])
    /\ routeAccepted(r, route[r].parentRefs[1], g)

SlicesBound ==
    \A s \in Selectors : \A b :
        b \in desiredEndpointSlices(s) <=>
          \E r \in Routes, g \in Gateways : \E i :
            b = [gateway |-> g, listener |-> i] /\ Bound(s, r, g, i)

LEMMA BoundSlices == ConfigOK => SlicesBound
<1> SUFFICES ASSUME ConfigOK, NEW s \in Selectors, NEW b
             PROVE  b \in desiredEndpointSlices(s) <=>
                      \E r \in Routes, g \in Gateways : \E i :
                        b = [gateway |-> g, listener |-> i] /\ Bound(s, r, g, i)
  BY DEF SlicesBound
<1>1. ASSUME b \in desiredEndpointSlices(s)
      PROVE  \E r \in Routes, g \in Gateways : \E i :
               b = [gateway |-> g, listener |-> i] /\ Bound(s, r, g, i)
  <2>1. evaluateEndpointSelector(s) /\ b \in listReferencedGatewayBindings(s)
    BY <1>1 DEF desiredEndpointSlices
  <2> DEFINE g == b.gateway
             i == b.listener
  <2>2. PICK r \in Routes :
          /\ route[r].exists /\ route[r].backendRef = s
          /\ Len(route[r].parentRefs) = 1
          /\ g \in Gateways /\ gateway[g].exists /\ gateway[g].ours
          /\ route[r].parentRefs[1].gateway = g
          /\ validateGatewayListeners(gateway[g].listeners)
          /\ i \in DOMAIN gateway[g].listeners
          /\ b = [gateway |-> g, listener |-> i]
          /\ attachedRoutesForListener(g, gateway[g].listeners[i]) = {r}
          /\ routeAccepted(r, route[r].parentRefs[1], g) /\ routeResolved(r)
    BY <2>1, BindingFacts
  <2>3. route[r].backend = "selector"
    BY <2>2 DEF routeAccepted, routeResolved
  <2>4. DOMAIN route[r].parentRefs = 1..1
    BY <2>2, RouteTypes
  <2>5. parentMatchesListener(route[r].parentRefs[1], gateway[g].listeners[i])
    <3>1. r \in attachedRoutesForListener(g, gateway[g].listeners[i])
      BY <2>2
    <3> QED BY <2>4, <3>1 DEF attachedRoutesForListener
  <2>6. i \in resolveGatewayListener(g, route[r].parentRefs[1])
    BY <2>2, <2>5 DEF resolveGatewayListener
  <2>7. Bound(s, r, g, i)
    BY <2>1, <2>2, <2>3, <2>6 DEF Bound, managed
  <2> QED BY <2>2, <2>7
<1>2. ASSUME NEW r \in Routes, NEW g \in Gateways, NEW i,
             b = [gateway |-> g, listener |-> i], Bound(s, r, g, i)
      PROVE  b \in desiredEndpointSlices(s)
  <2>1. g \in ownGateways /\ routeResolved(r)
    BY <1>2 DEF Bound, managed, ownGateways, routeResolved
  <2>2. b \in listReferencedGatewayBindings(s)
    BY <1>2, <2>1, BindingExists DEF Bound
  <2> QED BY <1>2, <2>2 DEF Bound, desiredEndpointSlices
<1> QED BY <1>1, <1>2

\* When nothing that is bound changes, nor do the slices.
LEMMA SameSlices ==
    ASSUME ConfigOK, ConfigOK', NEW s \in Selectors,
           \A r \in Routes, g \in Gateways : \A i : Bound(s, r, g, i)' <=> Bound(s, r, g, i)
    PROVE  (desiredEndpointSlices(s))' = desiredEndpointSlices(s)
<1>1. SlicesBound
  BY BoundSlices
<1>2. ConfigOK' => SlicesBound'
  BY BoundSlices, PTL
<1>3. \A b : b \in desiredEndpointSlices(s) <=>
          \E r \in Routes, g \in Gateways : \E i :
            b = [gateway |-> g, listener |-> i] /\ Bound(s, r, g, i)
  BY <1>1 DEF SlicesBound
<1>4. \A b : b \in (desiredEndpointSlices(s))' <=>
          \E r \in Routes, g \in Gateways : \E i :
            b = [gateway |-> g, listener |-> i] /\ Bound(s, r, g, i)'
  BY <1>2 DEF SlicesBound
<1> QED BY <1>3, <1>4

\* Workers and watches change no verdict.
LEMMA SameConfig ==
    ASSUME ConfigOK, UNCHANGED config
    PROVE  /\ ConfigOK'
           /\ \A x : (exists(x))' = exists(x) /\ (verdict(x))' = verdict(x)
           /\ \A g : /\ (managed(g))' = managed(g) /\ (gatewayStatus(g))' = gatewayStatus(g)
                     /\ (enqueueRoutesForGateway(g))' = enqueueRoutesForGateway(g)
           /\ \A s \in Selectors : (desiredEndpointSlices(s))' = desiredEndpointSlices(s)
<1>1. class' = class /\ gateway' = gateway /\ route' = route /\ selector' = selector
  BY DEF config
<1>2. ConfigOK'
  BY <1>1 DEF ConfigOK
<1>3. \A r : (routeResolved(r))' = routeResolved(r)
  BY <1>1 DEF routeResolved, classAccepted, evaluateEndpointSelector
<1>4. \A g : (listRoutesForGateway(g))' = listRoutesForGateway(g)
  BY <1>1 DEF listRoutesForGateway
<1>5. \A g : (managed(g))' = managed(g) /\ (gatewayStatus(g))' = gatewayStatus(g)
  BY <1>1, <1>3, <1>4, SameGateway
<1>6. \A g, p : (resolveGatewayListener(g, p))' = resolveGatewayListener(g, p)
  BY <1>1 DEF resolveGatewayListener
<1>7. \A r, p, g : (routeAccepted(r, p, g))' = routeAccepted(r, p, g)
  <2>1. \A g, l : (attachedRoutesForListener(g, l))' = attachedRoutesForListener(g, l)
    BY <1>1, <1>4 DEF attachedRoutesForListener, parentMatchesListener
  <2> QED BY <1>1, <1>6, <2>1 DEF routeAccepted, classAccepted
<1>8. \A r : (routeStatus(r))' = routeStatus(r)
  BY <1>1, <1>3, <1>5, <1>7, SameRoute
<1>9. \A x : (exists(x))' = exists(x)
  BY <1>1 DEF exists
<1>10. \A x : (verdict(x))' = verdict(x)
  BY <1>1, <1>5, <1>8, <1>9 DEF verdict, classStatus, classAccepted, evaluateEndpointSelector
<1>11. \A g : (enqueueRoutesForGateway(g))' = enqueueRoutesForGateway(g)
  BY <1>1, <1>4 DEF enqueueRoutesForGateway, routeBackendEndpointSelectorKeys
<1>12. \A s \in Selectors, r \in Routes, g \in Gateways : \A i :
         Bound(s, r, g, i)' <=> Bound(s, r, g, i)
  BY <1>1, <1>5, <1>6, <1>7 DEF Bound, evaluateEndpointSelector
<1>13. \A s \in Selectors : (desiredEndpointSlices(s))' = desiredEndpointSlices(s)
  BY <1>2, <1>12, SameSlices
<1> QED BY <1>2, <1>5, <1>9, <1>10, <1>11, <1>13

-----------------------------------------------------------------------------
(* What an edit bears on.  Each of the four lemmas says that a verdict the   *)
(* edit changes is that of an object the handler enqueues, or that of a      *)
(* sibling whose Gateway's status changes too.                               *)

\* The verdict on a Gateway changes only if the handler enqueues it.
GatewaysTold(keys) ==
    \A g \in Gateways : g \in keys \/ ((verdict(g))' = verdict(g) /\ (exists(g))' = exists(g))

\* x hears of the edit now, or when the status of one of its Gateways follows.
Told(x, keys) ==
    \/ x \in keys
    \/ \E g \in Gateways : /\ managed(g) /\ (managed(g))' /\ ~gateway[g].addresses
                           /\ (gatewayStatus(g))' # gatewayStatus(g)
                           /\ x \in (enqueueRoutesForGateway(g))'

ObjectsTold(keys) ==
    /\ \A x \in Objects : Told(x, keys) \/ ((verdict(x))' = verdict(x) /\ (exists(x))' = exists(x))
    /\ \A s \in Selectors :
         Told(s, keys) \/ (desiredEndpointSlices(s))' = desiredEndpointSlices(s)

\* verdict and exists by the kind of object.
Verdicts ==
    /\ \A g \in Gateways :
         /\ verdict(g) = (IF managed(g) THEN gatewayStatus(g) ELSE {})
         /\ exists(g) = gateway[g].exists
    /\ \A r \in Routes :
         /\ verdict(r) = (IF route[r].exists THEN routeStatus(r) ELSE {})
         /\ exists(r) = route[r].exists
    /\ \A s \in Selectors :
         /\ verdict(s) = (IF selector[s] # "absent"
                            THEN {<<"Accepted", evaluateEndpointSelector(s)>>} ELSE {})
         /\ exists(s) = (selector[s] # "absent")
    /\ verdict(Class) = (IF class # "absent" THEN classStatus ELSE {})
    /\ exists(Class) = (class # "absent")

LEMMA VerdictByKind == ConfigOK => Verdicts
<1> SUFFICES ASSUME ConfigOK PROVE Verdicts
  OBVIOUS
<1>1. ASSUME NEW g \in Gateways
      PROVE  /\ verdict(g) = (IF managed(g) THEN gatewayStatus(g) ELSE {})
             /\ exists(g) = gateway[g].exists
  BY ObjectsAssumption DEF verdict, exists, managed
<1>2. ASSUME NEW r \in Routes
      PROVE  /\ verdict(r) = (IF route[r].exists THEN routeStatus(r) ELSE {})
             /\ exists(r) = route[r].exists
  BY ObjectsAssumption DEF verdict, exists
<1>3. ASSUME NEW s \in Selectors
      PROVE  /\ verdict(s) = (IF selector[s] # "absent"
                                THEN {<<"Accepted", evaluateEndpointSelector(s)>>} ELSE {})
             /\ exists(s) = (selector[s] # "absent")
  BY ObjectsAssumption DEF verdict, exists
<1>4. /\ verdict(Class) = (IF class # "absent" THEN classStatus ELSE {})
      /\ exists(Class) = (class # "absent")
  BY DEF verdict, exists
<1> QED BY <1>1, <1>2, <1>3, <1>4 DEF Verdicts

LEMMA VerdictByKindNext == ConfigOK' => Verdicts'
BY VerdictByKind, PTL

\* What a Gateway's status event enqueues.
LEMMA NamedGateway ==
    ASSUME NEW r \in Routes, route[r].exists, NEW i \in DOMAIN route[r].parentRefs
    PROVE  LET keys == enqueueRoutesForGateway(route[r].parentRefs[i].gateway)
           IN  /\ r \in listRoutesForGateway(route[r].parentRefs[i].gateway)
               /\ r \in keys
               /\ route[r].backend = "selector" => route[r].backendRef \in keys
<1> DEFINE g == route[r].parentRefs[i].gateway
<1>1. r \in listRoutesForGateway(g)
  BY DEF listRoutesForGateway
<1>2. route[r].backend = "selector" => route[r].backendRef \in routeBackendEndpointSelectorKeys(route[r])
  BY DEF routeBackendEndpointSelectorKeys
<1>3. routeBackendEndpointSelectorKeys(route[r]) \subseteq enqueueRoutesForGateway(g)
  BY <1>1 DEF enqueueRoutesForGateway
<1> QED BY <1>1, <1>2, <1>3 DEF enqueueRoutesForGateway

LEMMA BoundGateway ==
    ASSUME ConfigOK, NEW s \in Selectors, NEW r \in Routes, NEW g \in Gateways, NEW i,
           Bound(s, r, g, i)
    PROVE  s \in enqueueRoutesForGateway(g)
<1>1. 1 \in DOMAIN route[r].parentRefs
  BY RouteTypes DEF Bound
<1> QED BY <1>1, NamedGateway DEF Bound

\* The class: every Gateway of ours, and its routes and selectors, are enqueued.
LEMMA ClassEdit ==
    ASSUME ConfigOK, ConfigOK', NEW c, editClass(c)
    PROVE  GatewaysTold(handlerKeys(Class)) /\ ObjectsTold(handlerKeys(Class))
<1> DEFINE keys == handlerKeys(Class)
<1>1. gateway' = gateway /\ route' = route /\ selector' = selector
  BY DEF editClass
<1>2. Verdicts /\ Verdicts'
  BY VerdictByKind, VerdictByKindNext
<1>3. \A g \in Gateways : (managed(g))' = managed(g)
  BY <1>1 DEF managed
<1>4. \A g \in Gateways : managed(g) => g \in keys /\ enqueueRoutesForGateway(g) \subseteq keys
  BY DEF handlerKeys, enqueueGatewaysForClass
<1>5. \A g \in Gateways : g \in keys \/ ((verdict(g))' = verdict(g) /\ (exists(g))' = exists(g))
  BY <1>1, <1>2, <1>3, <1>4 DEF Verdicts
<1>6. ASSUME NEW r \in Routes, r \notin keys
      PROVE  (verdict(r))' = verdict(r) /\ (exists(r))' = exists(r)
  <2> DEFINE ps == route[r].parentRefs
             ours == {i \in DOMAIN ps : ps[i].gateway \in Gateways /\ managed(ps[i].gateway)}
  <2>1. CASE ~route[r].exists
    BY <1>1, <1>2, <2>1 DEF Verdicts
  <2>2. CASE route[r].exists
    <3>1. ours = {}
      BY <1>4, <1>6, <2>2, NamedGateway
    <3>2. (ours)' = {}
      BY <1>1, <1>3, <3>1
    <3>3. routeStatus(r) = {} /\ (routeStatus(r))' = {}
      BY <3>1, <3>2 DEF routeStatus
    <3> QED BY <1>1, <1>2, <3>3 DEF Verdicts
  <2> QED BY <2>1, <2>2
<1>7. \A s \in Selectors : (verdict(s))' = verdict(s) /\ (exists(s))' = exists(s)
  BY <1>1, <1>2 DEF Verdicts, evaluateEndpointSelector
<1>8. Class \in keys
  BY DEF handlerKeys
<1>9. ASSUME NEW s \in Selectors, s \notin keys
      PROVE  (desiredEndpointSlices(s))' = desiredEndpointSlices(s)
  <2>1. \A r \in Routes, g \in Gateways : \A i : ~Bound(s, r, g, i)
    <3> SUFFICES ASSUME NEW r \in Routes, NEW g \in Gateways, NEW i, Bound(s, r, g, i)
                 PROVE  FALSE
      OBVIOUS
    <3> QED BY <1>4, <1>9, BoundGateway DEF Bound
  <2>2. \A r \in Routes, g \in Gateways : \A i : ~Bound(s, r, g, i)'
    <3> SUFFICES ASSUME NEW r \in Routes, NEW g \in Gateways, NEW i, Bound(s, r, g, i)'
                 PROVE  FALSE
      OBVIOUS
    <3>1. /\ route[r].exists /\ route[r].backend = "selector" /\ route[r].backendRef = s
          /\ managed(g) /\ Len(route[r].parentRefs) = 1 /\ route[r].parentRefs[1].gateway = g
      BY <1>1, <1>3 DEF Bound
    <3>2. 1 \in DOMAIN route[r].parentRefs
      BY <3>1, RouteTypes
    <3> QED BY <1>4, <1>9, <3>1, <3>2, NamedGateway
  <2> QED BY <2>1, <2>2, SameSlices
<1> QED BY <1>5, <1>6, <1>7, <1>8, <1>9 DEF GatewaysTold, ObjectsTold, Told, Objects

\* A Gateway: its routes and their selectors are enqueued, and it is no concern
\* of other Gateways.
LEMMA GatewayEdit ==
    ASSUME ConfigOK, ConfigOK', NEW h \in Gateways, NEW o, editGateway(h, o)
    PROVE  GatewaysTold(handlerKeys(h)) /\ ObjectsTold(handlerKeys(h))
<1> DEFINE keys == handlerKeys(h)
<1>1. /\ class' = class /\ route' = route /\ selector' = selector
      /\ \A g \in Gateways : g # h => gateway'[g] = gateway[g]
  BY DEF editGateway, ConfigOK
<1>2. Verdicts /\ Verdicts'
  BY VerdictByKind, VerdictByKindNext
<1>3. h \in keys /\ enqueueRoutesForGateway(h) \subseteq keys
  BY ObjectsAssumption DEF handlerKeys
<1>4. \A r : (routeResolved(r))' = routeResolved(r)
  BY <1>1 DEF routeResolved, classAccepted, evaluateEndpointSelector
<1>5. ASSUME NEW g \in Gateways, g # h
      PROVE  /\ (gatewayStatus(g))' = gatewayStatus(g) /\ (managed(g))' = managed(g)
             /\ \A r \in listRoutesForGateway(g) : \A p :
                  (routeAccepted(r, p, g))' = routeAccepted(r, p, g)
             /\ \A p : (resolveGatewayListener(g, p))' = resolveGatewayListener(g, p)
  <2>1. (listRoutesForGateway(g))' = listRoutesForGateway(g)
    BY <1>1 DEF listRoutesForGateway
  <2>2. \A p : (resolveGatewayListener(g, p))' = resolveGatewayListener(g, p)
    BY <1>1, <1>5 DEF resolveGatewayListener
  <2> QED BY <1>1, <1>4, <1>5, <2>1, <2>2, SameGateway
<1>6. ASSUME NEW g \in Gateways, g \notin keys
      PROVE  (verdict(g))' = verdict(g) /\ (exists(g))' = exists(g)
  <2>1. g # h
    BY <1>3, <1>6
  <2> QED BY <1>1, <1>2, <1>5, <2>1 DEF Verdicts
<1>7. ASSUME NEW r \in Routes, r \notin keys
      PROVE  (verdict(r))' = verdict(r) /\ (exists(r))' = exists(r)
  <2> DEFINE ps == route[r].parentRefs
  <2>1. CASE ~route[r].exists
    BY <1>1, <1>2, <2>1 DEF Verdicts
  <2>2. CASE route[r].exists
    <3>1. ASSUME NEW i \in DOMAIN ps, ps[i].gateway \in Gateways
          PROVE  /\ (managed(ps[i].gateway))' = managed(ps[i].gateway)
                 /\ (routeAccepted(r, ps[i], ps[i].gateway))' = routeAccepted(r, ps[i], ps[i].gateway)
      <4>1. ps[i].gateway # h /\ r \in listRoutesForGateway(ps[i].gateway)
        BY <1>3, <1>7, <2>2, NamedGateway
      <4> QED BY <1>1, <1>5, <3>1, <4>1
    <3>2. (routeStatus(r))' = routeStatus(r)
      BY <1>1, <1>4, <3>1, SameRoute
    <3> QED BY <1>1, <1>2, <3>2 DEF Verdicts
  <2> QED BY <2>1, <2>2
<1>8. /\ \A s \in Selectors : (verdict(s))' = verdict(s) /\ (exists(s))' = exists(s)
      /\ (verdict(Class))' = verdict(Class) /\ (exists(Class))' = exists(Class)
  BY <1>1, <1>2 DEF Verdicts, evaluateEndpointSelector, classStatus, classAccepted
<1>9. ASSUME NEW s \in Selectors, s \notin keys
      PROVE  (desiredEndpointSlices(s))' = desiredEndpointSlices(s)
  <2>1. ASSUME NEW r \in Routes, NEW g \in Gateways, NEW i
        PROVE  Bound(s, r, g, i)' <=> Bound(s, r, g, i)
    <3> DEFINE named ==
          /\ route[r].exists /\ route[r].backend = "selector" /\ route[r].backendRef = s
          /\ Len(route[r].parentRefs) = 1 /\ route[r].parentRefs[1].gateway = g
    <3>1. CASE ~named
      BY <1>1, <3>1 DEF Bound
    <3>2. CASE named
      <4>1. 1 \in DOMAIN route[r].parentRefs
        BY <3>2, RouteTypes
      <4>2. r \in listRoutesForGateway(g) /\ s \in enqueueRoutesForGateway(g)
        BY <3>2, <4>1, NamedGateway
      <4>3. g # h
        BY <1>3, <1>9, <4>2
      <4> QED BY <1>1, <1>5, <4>2, <4>3 DEF Bound, evaluateEndpointSelector
    <3> QED BY <3>1, <3>2
  <2> QED BY <2>1, SameSlices
<1> QED BY <1>6, <1>7, <1>8, <1>9 DEF GatewaysTold, ObjectsTold, Told, Objects

\* A selector: the routes that refer to it and their Gateways are enqueued.
LEMMA SelectorEdit ==
    ASSUME ConfigOK, ConfigOK', NEW t \in Selectors, NEW v, editSelector(t, v)
    PROVE  GatewaysTold(handlerKeys(t)) /\ ObjectsTold(handlerKeys(t))
<1> DEFINE keys == handlerKeys(t)
           related == {r \in Routes : t \in routeBackendEndpointSelectorKeys(route[r])}
<1>1. /\ class' = class /\ route' = route /\ gateway' = gateway
      /\ \A s \in Selectors : s # t => selector'[s] = selector[s]
  BY DEF editSelector, ConfigOK
<1>2. Verdicts /\ Verdicts'
  BY VerdictByKind, VerdictByKindNext
<1>3. keys = {t} \cup related \cup UNION {routeGatewayParentKeys(route[r]) : r \in related}
  BY ObjectsAssumption DEF handlerKeys, enqueueSelectorAndRelatedRoutes
<1>4. ASSUME NEW r \in Routes, route[r].exists, r \notin related
      PROVE  (routeResolved(r))' = routeResolved(r)
  <2>1. route[r].backend # "selector" \/ route[r].backendRef # t
    BY <1>4 DEF routeBackendEndpointSelectorKeys
  <2>2. route[r].backendRef \in Selectors
    BY <1>4, RouteTypes
  <2> QED BY <1>1, <2>1, <2>2 DEF routeResolved, classAccepted, evaluateEndpointSelector
<1>5. \A g : /\ (listRoutesForGateway(g))' = listRoutesForGateway(g)
             /\ (managed(g))' = managed(g)
             /\ \A p : (resolveGatewayListener(g, p))' = resolveGatewayListener(g, p)
             /\ \A l : (attachedRoutesForListener(g, l))' = attachedRoutesForListener(g, l)
  BY <1>1 DEF listRoutesForGateway, managed, resolveGatewayListener, attachedRoutesForListener,
              parentMatchesListener
<1>6. \A r, p, g : (routeAccepted(r, p, g))' = routeAccepted(r, p, g)
  BY <1>1, <1>5 DEF routeAccepted, classAccepted
<1>7. ASSUME NEW g \in Gateways, g \notin keys
      PROVE  (verdict(g))' = verdict(g) /\ (exists(g))' = exists(g)
  <2>1. ASSUME NEW r \in listRoutesForGateway(g)
        PROVE  (routeResolved(r))' = routeResolved(r)
    <3>1. r \in Routes /\ route[r].exists /\ g \in routeGatewayParentKeys(route[r])
      BY DEF listRoutesForGateway, routeGatewayParentKeys
    <3>2. r \notin related
      BY <1>3, <1>7, <3>1
    <3> QED BY <1>4, <3>1, <3>2
  <2>2. (gatewayStatus(g))' = gatewayStatus(g)
    BY <1>1, <1>5, <2>1, SameGateway
  <2> QED BY <1>1, <1>2, <1>5, <2>2 DEF Verdicts
<1>8. ASSUME NEW r \in Routes, r \notin keys
      PROVE  (verdict(r))' = verdict(r) /\ (exists(r))' = exists(r)
  <2>1. CASE ~route[r].exists
    BY <1>1, <1>2, <2>1 DEF Verdicts
  <2>2. CASE route[r].exists
    <3>1. (routeResolved(r))' = routeResolved(r)
      BY <1>3, <1>4, <1>8, <2>2
    <3>2. (routeStatus(r))' = routeStatus(r)
      BY <1>1, <1>5, <1>6, <3>1, SameRoute
    <3> QED BY <1>1, <1>2, <3>2 DEF Verdicts
  <2> QED BY <2>1, <2>2
<1>9. (verdict(Class))' = verdict(Class) /\ (exists(Class))' = exists(Class)
  BY <1>1, <1>2 DEF Verdicts, classStatus, classAccepted
<1>10. ASSUME NEW s \in Selectors, s \notin keys
       PROVE  /\ (verdict(s))' = verdict(s) /\ (exists(s))' = exists(s)
              /\ (desiredEndpointSlices(s))' = desiredEndpointSlices(s)
  <2>1. selector'[s] = selector[s]
    BY <1>1, <1>3, <1>10
  <2>2. (evaluateEndpointSelector(s))' = evaluateEndpointSelector(s)
    BY <2>1 DEF evaluateEndpointSelector
  <2>3. \A r \in Routes, g \in Gateways : \A i : Bound(s, r, g, i)' <=> Bound(s, r, g, i)
    BY <1>1, <1>5, <1>6, <2>2 DEF Bound
  <2>4. (desiredEndpointSlices(s))' = desiredEndpointSlices(s)
    BY <2>3, SameSlices
  <2> QED BY <1>2, <2>1, <2>2, <2>4 DEF Verdicts
<1> QED BY <1>7, <1>8, <1>9, <1>10 DEF GatewaysTold, ObjectsTold, Told, Objects

\* No handler enqueues the siblings of a route.  But whether a sibling is
\* accepted depends on the edit only through the number of routes attached to
\* its listener, which the Gateway's status counts.
LEMMA SiblingChange ==
    ASSUME ConfigOK, ConfigOK', NEW r \in Routes, NEW o, editRoute(r, o),
           NEW q \in Routes, q # r, NEW p, NEW g \in Gateways, ~gateway[g].addresses,
           (routeAccepted(q, p, g))' # routeAccepted(q, p, g)
    PROVE  (gatewayStatus(g))' # gatewayStatus(g)
<1> DEFINE ls == gateway[g].listeners
           R == resolveGatewayListener(g, p)
           n(k) == Cardinality(attachedRoutesForListener(g, ls[k]))
<1>1. class' = class /\ gateway' = gateway /\ route'[q] = route[q]
  BY DEF editRoute, ConfigOK
<1>2. (resolveGatewayListener(g, p))' = resolveGatewayListener(g, p)
  BY <1>1 DEF resolveGatewayListener
<1>3. classAccepted /\ Cardinality(R) = 1
  BY <1>1, <1>2 DEF routeAccepted, classAccepted
<1>4. PICK k \in R : (n(k))' # n(k)
  BY <1>1, <1>2 DEF routeAccepted, classAccepted
<1>5. validateGatewayListeners(ls) /\ k \in DOMAIN ls
  BY ResolvedListeners
<1>6. gatewayStatus(g) =
        {<<IF evaluateGateway(g) THEN "Accepted" ELSE "Invalid">>} \cup
        {listenerStatusForOutcome(g, j) : j \in DOMAIN ls}
  BY <1>3, <1>5 DEF gatewayStatus
<1>7. (gatewayStatus(g))' =
        {<<IF (evaluateGateway(g))' THEN "Accepted" ELSE "Invalid">>} \cup
        {(listenerStatusForOutcome(g, j))' : j \in DOMAIN ls}
  BY <1>1, <1>3, <1>5 DEF gatewayStatus, classAccepted
<1>8. \E u, e : listenerStatusForOutcome(g, k) = <<ls[k].name, n(k), u, e>>
  BY DEF listenerStatusForOutcome
<1>9. \A j \in DOMAIN ls : \E u, e :
        (listenerStatusForOutcome(g, j))' = <<ls[j].name, (n(j))', u, e>>
  BY <1>1 DEF listenerStatusForOutcome
<1>10. \A j \in DOMAIN ls : ls[j].name = ls[k].name => j = k
  BY <1>5 DEF validateGatewayListeners, listenerSupported
<1>11. listenerStatusForOutcome(g, k) \in gatewayStatus(g)
  BY <1>5, <1>6
<1>12. listenerStatusForOutcome(g, k) \notin (gatewayStatus(g))'
  <2>1. \A x : listenerStatusForOutcome(g, k) # <<x>>
    BY <1>8
  <2>2. ASSUME NEW j \in DOMAIN ls,
               listenerStatusForOutcome(g, k) = (listenerStatusForOutcome(g, j))'
        PROVE  FALSE
    <3>1. ls[j].name = ls[k].name /\ (n(j))' = n(k)
      <4> HIDE DEF n
      <4> QED BY <1>8, <1>9, <2>2
    <3>2. j = k
      BY <1>10, <3>1
    <3> QED BY <1>4, <3>1, <3>2
  <2> QED BY <1>7, <2>1, <2>2
<1> QED BY <1>11, <1>12

LEMMA RouteEditFrame ==
    ASSUME ConfigOK, ConfigOK', NEW r \in Routes, NEW o, editRoute(r, o)
    PROVE  /\ class' = class /\ gateway' = gateway /\ selector' = selector
           /\ route'[r] = o /\ \A q \in Routes : q # r => route'[q] = route[q]
           /\ \A q \in Routes : q # r => (routeResolved(q))' = routeResolved(q)
           /\ \A g : /\ (managed(g))' = managed(g)
                     /\ \A p : (resolveGatewayListener(g, p))' = resolveGatewayListener(g, p)
<1>1. /\ class' = class /\ gateway' = gateway /\ selector' = selector
      /\ route'[r] = o /\ \A q \in Routes : q # r => route'[q] = route[q]
  BY DEF editRoute, ConfigOK
<1>2. \A q \in Routes : q # r => (routeResolved(q))' = routeResolved(q)
  BY <1>1 DEF routeResolved, classAccepted, evaluateEndpointSelector
<1>3. \A g : /\ (managed(g))' = managed(g)
             /\ \A p : (resolveGatewayListener(g, p))' = resolveGatewayListener(g, p)
  BY <1>1 DEF managed, resolveGatewayListener
<1> QED BY <1>1, <1>2, <1>3

\* A route: the Gateways it names, before or after, are enqueued.
LEMMA RouteEditGateways ==
    ASSUME ConfigOK, ConfigOK', NEW r \in Routes, NEW o, editRoute(r, o)
    PROVE  GatewaysTold(enqueueForRoute(r, route[r]) \cup enqueueForRoute(r, o))
<1> DEFINE keys == enqueueForRoute(r, route[r]) \cup enqueueForRoute(r, o)
<1>1. /\ class' = class /\ gateway' = gateway
      /\ route'[r] = o /\ \A q \in Routes : q # r => route'[q] = route[q]
      /\ \A q \in Routes : q # r => (routeResolved(q))' = routeResolved(q)
  BY RouteEditFrame
<1>2. Verdicts /\ Verdicts'
  BY VerdictByKind, VerdictByKindNext
<1> SUFFICES ASSUME NEW g \in Gateways, g \notin keys
             PROVE  (verdict(g))' = verdict(g) /\ (exists(g))' = exists(g)
  BY DEF GatewaysTold
<1>3. /\ \A i \in DOMAIN route[r].parentRefs : route[r].parentRefs[i].gateway # g
      /\ \A i \in DOMAIN o.parentRefs : o.parentRefs[i].gateway # g
  BY DEF enqueueForRoute, routeGatewayParentKeys
<1>4. (listRoutesForGateway(g))' = listRoutesForGateway(g) /\ r \notin listRoutesForGateway(g)
  BY <1>1, <1>3 DEF listRoutesForGateway
<1>5. \A q \in listRoutesForGateway(g) : q \in Routes /\ q # r
  BY <1>4 DEF listRoutesForGateway
<1>6. (gatewayStatus(g))' = gatewayStatus(g) /\ (managed(g))' = managed(g)
  BY <1>1, <1>4, <1>5, SameGateway
<1> QED BY <1>1, <1>2, <1>6 DEF Verdicts

\* ... and its siblings hear of it from their Gateway, unless that hides its
\* attached routes.
LEMMA RouteEditObjects ==
    ASSUME ConfigOK, ConfigOK', NEW r \in Routes, NEW o, editRoute(r, o),
           \A g \in Gateways : ~gateway[g].addresses
    PROVE  ObjectsTold(enqueueForRoute(r, route[r]) \cup enqueueForRoute(r, o))
<1> DEFINE keys == enqueueForRoute(r, route[r]) \cup enqueueForRoute(r, o)
<1>1. /\ class' = class /\ gateway' = gateway /\ selector' = selector
      /\ route'[r] = o /\ \A q \in Routes : q # r => route'[q] = route[q]
      /\ \A q \in Routes : q # r => (routeResolved(q))' = routeResolved(q)
      /\ \A g : /\ (managed(g))' = managed(g)
                /\ \A p : (resolveGatewayListener(g, p))' = resolveGatewayListener(g, p)
  BY RouteEditFrame
<1>2. Verdicts /\ Verdicts'
  BY VerdictByKind, VerdictByKindNext
<1>3. r \in keys
  BY DEF enqueueForRoute
<1>4. ASSUME NEW q \in Routes, q # r, route[q].exists,
             NEW i \in DOMAIN route[q].parentRefs, NEW g \in Gateways,
             g = route[q].parentRefs[i].gateway, managed(g),
             NEW p, (routeAccepted(q, p, g))' # routeAccepted(q, p, g)
      PROVE  /\ Told(q, keys)
             /\ route[q].backend = "selector" => Told(route[q].backendRef, keys)
  <2>1. (gatewayStatus(g))' # gatewayStatus(g)
    BY <1>4, SiblingChange
  <2>2. q \in (listRoutesForGateway(g))'
    BY <1>1, <1>4 DEF listRoutesForGateway
  <2>3. (routeBackendEndpointSelectorKeys(route[q]))' = routeBackendEndpointSelectorKeys(route[q])
    BY <1>1, <1>4 DEF routeBackendEndpointSelectorKeys
  <2>4. /\ q \in (enqueueRoutesForGateway(g))'
        /\ routeBackendEndpointSelectorKeys(route[q]) \subseteq (enqueueRoutesForGateway(g))'
    BY <2>2, <2>3 DEF enqueueRoutesForGateway
  <2>5. route[q].backend = "selector" => route[q].backendRef \in (enqueueRoutesForGateway(g))'
    BY <1>4, <2>4 DEF routeBackendEndpointSelectorKeys
  <2> QED BY <1>1, <1>4, <2>1, <2>4, <2>5 DEF Told
<1>5. ASSUME NEW q \in Routes, ~Told(q, keys)
      PROVE  (verdict(q))' = verdict(q) /\ (exists(q))' = exists(q)
  <2> DEFINE ps == route[q].parentRefs
  <2>0. q # r /\ route'[q] = route[q]
    BY <1>1, <1>3, <1>5 DEF Told
  <2>1. CASE ~route[q].exists
    BY <1>2, <2>0, <2>1 DEF Verdicts
  <2>2. CASE route[q].exists
    <3>1. ASSUME NEW i \in DOMAIN ps, NEW g \in Gateways, g = ps[i].gateway, managed(g),
                 NEW p
          PROVE  (routeAccepted(q, p, g))' = routeAccepted(q, p, g)
      BY <1>4, <1>5, <2>0, <2>2, <3>1
    <3>2. (routeStatus(q))' = routeStatus(q)
      BY <1>1, <2>0, <3>1, SameRoute
    <3> QED BY <1>2, <2>0, <3>2 DEF Verdicts
  <2> QED BY <2>1, <2>2
<1>6. ASSUME NEW s \in Selectors, ~Told(s, keys)
      PROVE  (desiredEndpointSlices(s))' = desiredEndpointSlices(s)
  <2>0. (evaluateEndpointSelector(s))' = evaluateEndpointSelector(s)
    BY <1>1 DEF evaluateEndpointSelector
  <2>1. ASSUME NEW q \in Routes, NEW g \in Gateways, NEW i
        PROVE  Bound(s, q, g, i)' <=> Bound(s, q, g, i)
    <3>1. CASE q = r
      <4>1. ~(route[r].exists /\ route[r].backend = "selector" /\ route[r].backendRef = s)
        BY <1>6 DEF Told, enqueueForRoute, routeBackendEndpointSelectorKeys
      <4>2. ~(o.exists /\ o.backend = "selector" /\ o.backendRef = s)
        BY <1>6 DEF Told, enqueueForRoute, routeBackendEndpointSelectorKeys
      <4> QED BY <1>1, <3>1, <4>1, <4>2 DEF Bound
    <3>2. CASE q # r
      <4> DEFINE p == route[q].parentRefs[1]
                 named ==
            /\ route[q].exists /\ route[q].backend = "selector" /\ route[q].backendRef = s
            /\ managed(g) /\ Len(route[q].parentRefs) = 1 /\ p.gateway = g
      <4>0. route'[q] = route[q]
        BY <1>1, <3>2
      <4>1. CASE ~named
        BY <1>1, <4>0, <4>1 DEF Bound
      <4>2. CASE named
        <5>1. 1 \in DOMAIN route[q].parentRefs
          BY <4>2, RouteTypes
        <5>2. \A x : (routeAccepted(q, x, g))' = routeAccepted(q, x, g)
          BY <1>4, <1>6, <3>2, <4>2, <5>1
        <5> QED BY <1>1, <2>0, <4>0, <5>2 DEF Bound
      <4> QED BY <4>1, <4>2
    <3> QED BY <3>1, <3>2
  <2> QED BY <2>1, SameSlices
<1>7. ASSUME NEW g \in Gateways, ~Told(g, keys)
      PROVE  (verdict(g))' = verdict(g) /\ (exists(g))' = exists(g)
  BY <1>7, RouteEditGateways DEF Told, GatewaysTold
<1>8. /\ \A s \in Selectors : (verdict(s))' = verdict(s) /\ (exists(s))' = exists(s)
      /\ (verdict(Class))' = verdict(Class) /\ (exists(Class))' = exists(Class)
  BY <1>1, <1>2 DEF Verdicts, evaluateEndpointSelector, classStatus, classAccepted
<1> QED BY <1>5, <1>6, <1>7, <1>8 DEF ObjectsTold, Objects

-----------------------------------------------------------------------------
(* Steps *)

\* When nothing is left to do, nothing is pending.
LEMMA QuiescentCurrent ==
    ASSUME QueueInv, Quiescent
    PROVE  /\ \A g \in Gateways : managed(g) => status[g] = gatewayStatus(g)
           /\ ~doubt => AllCurrent
<1>0. QueueTypes /\ ConfigOK /\ Verdicts
  BY VerdictByKind DEF QueueInv, QueueTypes
<1>1. \A x \in Objects : ~Pending(x)
  BY DEF Pending, Quiescent
<1>2. ASSUME NEW g \in Gateways, managed(g)
      PROVE  status[g] = gatewayStatus(g)
  <2>1. g \in Objects
    BY DEF Objects
  <2>2. ~Stale(g)
    BY <1>1, <2>1 DEF QueueInv, GatewaysPending
  <2> QED BY <1>0, <1>2, <2>2 DEF Stale, Verdicts, managed
<1>3. \A x : ~Awaits(x)
  BY <1>2 DEF Awaits, Quiescent
<1>4. ASSUME ~doubt
      PROVE  AllCurrent
  <2>1. \A x \in Objects : ~Stale(x)
    BY <1>1, <1>3, <1>4 DEF QueueInv, ObjectsPending
  <2>2. ASSUME NEW s \in Selectors
        PROVE  slices[s] = desiredEndpointSlices(s)
    <3>1. s \in Objects
      BY DEF Objects
    <3> QED BY <1>3, <1>4, <3>1 DEF QueueInv, SlicesPending, Quiescent
  <2> QED BY <2>1, <2>2 DEF AllCurrent, current, Stale
<1> QED BY <1>2, <1>4

\* What edit does to the rest of the state.
LEMMA EditFrame ==
    ASSUME QueueTypes, NEW x \in Objects, NEW keys, edit(x, keys)
    PROVE  /\ queue' = queue \cup keys /\ slices' = slices
           /\ doubt' = (doubt \/ ~Quiescent \/ \E g \in Gateways : gateway[g].addresses)
           /\ \A y \in Objects : y # x =>
                status'[y] = status[y] /\ seen'[y] = seen[y] /\ task'[y] = task[y]
           /\ ~task'[x].fresh
           /\ (exists(x))' => seen'[x] = seen[x]
           /\ ConfigOK' => QueueTypes'
<1>1. /\ queue' = queue \cup keys /\ slices' = slices
      /\ doubt' = (doubt \/ ~Quiescent \/ \E g \in Gateways : gateway[g].addresses)
      /\ task' = [task EXCEPT ![x].fresh = FALSE]
      /\ status' = [status EXCEPT ![x] = IF (exists(x))' THEN status[x] ELSE {}]
      /\ seen' = [seen EXCEPT ![x] = IF (exists(x))' THEN seen[x] ELSE {}]
  BY DEF edit
<1>2. /\ DOMAIN status = Objects /\ DOMAIN seen = Objects /\ DOMAIN task = Objects
      /\ \A y \in Objects : DOMAIN task[y] = {"busy", "copy", "want", "fresh"}
  BY DEF QueueTypes
<1>3. /\ \A y \in Objects : y # x =>
           status'[y] = status[y] /\ seen'[y] = seen[y] /\ task'[y] = task[y]
      /\ ~task'[x].fresh
      /\ (exists(x))' => seen'[x] = seen[x]
  BY <1>1, <1>2
<1>4. status' = [y \in Objects |-> status'[y]] /\ seen' = [y \in Objects |-> seen'[y]]
  BY <1>1, <1>2
<1>5. task' = [y \in Objects |-> [busy |-> task'[y].busy, copy |-> task'[y].copy,
                                  want |-> task'[y].want, fresh |-> task'[y].fresh]]
  <2>1. task'[x] = [busy |-> task[x].busy, copy |-> task[x].copy,
                    want |-> task[x].want, fresh |-> FALSE]
    BY <1>1, <1>2 DEF QueueTypes
  <2>2. \A y \in Objects :
          task'[y] = [busy |-> task'[y].busy, copy |-> task'[y].copy,
                      want |-> task'[y].want, fresh |-> task'[y].fresh]
    BY <1>3, <2>1 DEF QueueTypes
  <2>3. DOMAIN task' = Objects /\ task' = [y \in Objects |-> task'[y]]
    BY <1>1, <1>2
  <2> QED BY <2>2, <2>3
<1>6. slices' = [s \in Selectors |-> slices'[s]] /\ doubt' \in BOOLEAN
  BY <1>1 DEF QueueTypes
<1> QED BY <1>1, <1>3, <1>4, <1>5, <1>6 DEF QueueTypes

\* An edit that tells everyone it bears on.
LEMMA EditStep ==
    ASSUME QueueInv, ConfigOK', NEW x \in Objects, NEW keys, edit(x, keys), x \in keys,
           \A s \in Selectors : s # x => selector'[s] = selector[s],
           GatewaysTold(keys),
           (\A g \in Gateways : ~gateway[g].addresses) => ObjectsTold(keys)
    PROVE  QueueInv'
<1>0. QueueTypes /\ ConfigOK
  BY DEF QueueInv, QueueTypes
<1>1. /\ queue' = queue \cup keys /\ slices' = slices
      /\ doubt' = (doubt \/ ~Quiescent \/ \E g \in Gateways : gateway[g].addresses)
      /\ \A y \in Objects : y # x =>
           status'[y] = status[y] /\ seen'[y] = seen[y] /\ task'[y] = task[y]
      /\ ~task'[x].fresh
      /\ (exists(x))' => seen'[x] = seen[x]
      /\ QueueTypes'
  BY <1>0, EditFrame
<1>2. FreshCopies'
  BY <1>1 DEF FreshCopies, QueueInv
<1>3. GatewaysPending'
  <2> SUFFICES ASSUME NEW g \in Gateways, (Stale(g))', g \notin keys
               PROVE  (Pending(g))'
    BY <1>1 DEF GatewaysPending, Pending
  <2>1. (verdict(g))' = verdict(g) /\ (exists(g))' = exists(g)
    BY DEF GatewaysTold
  <2>2. g \in Objects /\ g # x
    BY DEF Objects
  <2>3. Pending(g)
    BY <1>1, <2>1, <2>2 DEF QueueInv, GatewaysPending, Stale
  <2> QED BY <1>1, <2>1, <2>2, <2>3 DEF Pending
<1>4. ASSUME ~doubt'
      PROVE  /\ ~doubt /\ Quiescent /\ ObjectsTold(keys) /\ AllCurrent
             /\ \A y : Told(y, keys) => y \in queue' \/ (Awaits(y))'
  <2>1. ~doubt /\ Quiescent /\ \A g \in Gateways : ~gateway[g].addresses
    BY <1>1, <1>4
  <2>2. ObjectsTold(keys) /\ AllCurrent
    BY <2>1, QuiescentCurrent
  <2>3. ASSUME NEW y, Told(y, keys), y \notin keys
        PROVE  (Awaits(y))'
    <3>1. PICK g \in Gateways :
            /\ managed(g) /\ (managed(g))'
            /\ (gatewayStatus(g))' # gatewayStatus(g)
            /\ y \in (enqueueRoutesForGateway(g))'
      BY <2>3 DEF Told
    <3>2. seen[g] = gatewayStatus(g)
      BY <2>1, <3>1, QuiescentCurrent DEF Quiescent
    <3>3. g \in Objects
      BY DEF Objects
    <3>4. Verdicts'
      BY VerdictByKindNext
    <3>5. (exists(g))'
      BY <3>1, <3>4 DEF Verdicts, managed
    <3>6. seen'[g] = seen[g]
      BY <1>1, <3>3, <3>5
    <3> QED BY <3>1, <3>2, <3>6 DEF Awaits
  <2> QED BY <1>1, <2>1, <2>2, <2>3
<1>5. ObjectsPending'
  <2> SUFFICES ASSUME NEW y \in Objects, (Stale(y))', ~doubt'
               PROVE  (Pending(y))' \/ (Awaits(y))'
    BY DEF ObjectsPending
  <2>1. CASE Told(y, keys)
    BY <1>4, <2>1 DEF Pending
  <2>2. CASE ~Told(y, keys)
    <3>1. (verdict(y))' = verdict(y) /\ (exists(y))' = exists(y) /\ y # x
      BY <1>4, <2>2 DEF ObjectsTold, Told
    <3> QED BY <1>1, <1>4, <3>1 DEF AllCurrent, current, Stale
  <2> QED BY <2>1, <2>2
<1>6. SlicesPending'
  <2> SUFFICES ASSUME NEW s \in Selectors, slices'[s] # (desiredEndpointSlices(s))',
                      s \notin keys
               PROVE  \/ s \in queue' \/ seen'[s] # status'[s] \/ task'[s].busy
                      \/ (exists(s))' /\ ((Awaits(s))' \/ doubt')
    BY <1>1 DEF SlicesPending
  <2>0. s \in Objects /\ s # x
    BY DEF Objects
  <2>1. selector'[s] = selector[s]
    BY <2>0
  <2>2. (exists(s))' = exists(s)
    <3>1. Verdicts /\ Verdicts'
      BY <1>0, VerdictByKind, VerdictByKindNext
    <3> QED BY <2>1, <3>1 DEF Verdicts
  <2>3. CASE ~exists(s)
    <3>1. Verdicts
      BY <1>0, VerdictByKind
    <3>2. selector[s] = "absent"
      BY <2>3, <3>1 DEF Verdicts
    <3>3. desiredEndpointSlices(s) = {} /\ (desiredEndpointSlices(s))' = {}
      BY <2>1, <3>2 DEF desiredEndpointSlices, evaluateEndpointSelector
    <3>4. s \in queue \/ seen[s] # status[s] \/ task[s].busy
      BY <1>1, <2>3, <3>3 DEF QueueInv, SlicesPending
    <3> QED BY <1>1, <2>0, <3>4
  <2>4. CASE exists(s) /\ ~doubt'
    <3>1. CASE Told(s, keys)
      BY <1>4, <2>2, <2>4, <3>1
    <3>2. CASE ~Told(s, keys)
      BY <1>1, <1>4, <2>4, <3>2 DEF ObjectsTold, AllCurrent
    <3> QED BY <3>1, <3>2
  <2> QED BY <2>2, <2>3, <2>4
<1> QED BY <1>1, <1>2, <1>3, <1>5, <1>6 DEF QueueInv

\* An event of x enqueues x.
LEMMA OwnKey ==
    ASSUME NEW x \in Objects
    PROVE  x \in handlerKeys(x)
BY DEF handlerKeys, enqueueForRoute, enqueueSelectorAndRelatedRoutes

LEMMA StartStep ==
    ASSUME QueueInv, NEW x \in Objects, startReconcile(x)
    PROVE  QueueInv'
<1> DEFINE t == [busy |-> TRUE, copy |-> seen[x], want |-> verdict(x),
                 fresh |-> seen[x] = status[x] /\ exists(x)]
<1>1. /\ UNCHANGED config /\ UNCHANGED <<status, seen, slices, doubt>>
      /\ queue' = queue \ {x} /\ task' = [task EXCEPT ![x] = t]
  BY DEF startReconcile
<1>2. QueueTypes /\ ConfigOK
  BY DEF QueueInv, QueueTypes
<1>3. /\ ConfigOK'
      /\ \A y : (exists(y))' = exists(y) /\ (verdict(y))' = verdict(y)
      /\ \A g : /\ (managed(g))' = managed(g) /\ (gatewayStatus(g))' = gatewayStatus(g)
                /\ (enqueueRoutesForGateway(g))' = enqueueRoutesForGateway(g)
      /\ \A s \in Selectors : (desiredEndpointSlices(s))' = desiredEndpointSlices(s)
  BY <1>1, <1>2, SameConfig
<1>4. task'[x] = t /\ \A y \in Objects : y # x => task'[y] = task[y]
  BY <1>1, <1>2 DEF QueueTypes
<1>5. QueueTypes'
  <2>1. task' = [y \in Objects |-> [busy |-> task'[y].busy, copy |-> task'[y].copy,
                                    want |-> task'[y].want, fresh |-> task'[y].fresh]]
    BY <1>1, <1>2, <1>4 DEF QueueTypes
  <2> QED BY <1>1, <1>2, <1>3, <2>1 DEF QueueTypes
<1> HIDE DEF t
<1>0. /\ t.busy /\ t.copy = seen[x] /\ t.want = verdict(x)
      /\ t.fresh <=> seen[x] = status[x] /\ exists(x)
  BY DEF t
<1>6. FreshCopies'
  <2>1. task'[x].fresh => task'[x].busy /\ seen'[x] = task'[x].copy /\ status'[x] = task'[x].copy
    BY <1>1, <1>4, <1>0
  <2> QED BY <1>1, <1>4, <2>1 DEF QueueInv, FreshCopies
<1>7. \A y : (Awaits(y))' = Awaits(y)
  BY <1>1, <1>3 DEF Awaits
<1>8. ASSUME NEW y \in Objects, (Stale(y))', y # x, Pending(y)
      PROVE  (Pending(y))'
  BY <1>1, <1>3, <1>4, <1>8 DEF Pending
<1>9. (Stale(x))' => (Pending(x))'
  BY <1>1, <1>3, <1>4, <1>0 DEF Stale, Pending
<1>10. \A y : (Stale(y))' = Stale(y)
  BY <1>1, <1>3 DEF Stale
<1>11. GatewaysPending'
  BY <1>8, <1>9, <1>10 DEF QueueInv, GatewaysPending, Objects
<1>12. ObjectsPending'
  BY <1>1, <1>7, <1>8, <1>9, <1>10 DEF QueueInv, ObjectsPending
<1>13. SlicesPending'
  <2> SUFFICES ASSUME NEW s \in Selectors, slices'[s] # (desiredEndpointSlices(s))', s # x
               PROVE  \/ s \in queue' \/ seen'[s] # status'[s] \/ task'[s].busy
                      \/ (exists(s))' /\ ((Awaits(s))' \/ doubt')
    BY <1>4, <1>0 DEF SlicesPending
  <2>1. s \in Objects
    BY DEF Objects
  <2>2. s \in queue \/ seen[s] # status[s] \/ task[s].busy \/ (exists(s) /\ (Awaits(s) \/ doubt))
    BY <1>1, <1>3 DEF QueueInv, SlicesPending
  <2> QED BY <1>1, <1>3, <1>4, <1>7, <2>1, <2>2
<1> QED BY <1>5, <1>6, <1>11, <1>12, <1>13 DEF QueueInv

LEMMA FinishStep ==
    ASSUME QueueInv, NEW x \in Objects, finishReconcile(x)
    PROVE  QueueInv'
<1> DEFINE t == task[x]
           conflict == t.copy # t.want /\ ~t.fresh
<1>1. /\ UNCHANGED config /\ UNCHANGED <<seen, doubt>>
      /\ status' = [status EXCEPT ![x] = IF t.fresh THEN t.want ELSE status[x]]
      /\ slices' = IF x \in Selectors /\ ~conflict
                     THEN [slices EXCEPT ![x] = desiredEndpointSlices(x)] ELSE slices
      /\ queue' = (IF conflict THEN queue \cup {x} ELSE queue)
      /\ task' = [task EXCEPT ![x] = NoTask]
      /\ t.busy
  BY DEF finishReconcile, statusEqual
<1>2. QueueTypes /\ ConfigOK
  BY DEF QueueInv, QueueTypes
<1>3. /\ ConfigOK'
      /\ \A y : (exists(y))' = exists(y) /\ (verdict(y))' = verdict(y)
      /\ \A g : /\ (managed(g))' = managed(g) /\ (gatewayStatus(g))' = gatewayStatus(g)
                /\ (enqueueRoutesForGateway(g))' = enqueueRoutesForGateway(g)
      /\ \A s \in Selectors : (desiredEndpointSlices(s))' = desiredEndpointSlices(s)
  BY <1>1, <1>2, SameConfig
<1>4. /\ task'[x] = NoTask /\ \A y \in Objects : y # x => task'[y] = task[y]
      /\ status'[x] = (IF t.fresh THEN t.want ELSE status[x])
      /\ \A y \in Objects : y # x => status'[y] = status[y]
  BY <1>1, <1>2 DEF QueueTypes
<1>5. QueueTypes'
  <2>1. task' = [y \in Objects |-> [busy |-> task'[y].busy, copy |-> task'[y].copy,
                                    want |-> task'[y].want, fresh |-> task'[y].fresh]]
    BY <1>1, <1>2, <1>4 DEF QueueTypes, NoTask
  <2>2. status' = [y \in Objects |-> status'[y]] /\ slices' = [s \in Selectors |-> slices'[s]]
    BY <1>1, <1>2 DEF QueueTypes
  <2> QED BY <1>1, <1>2, <1>3, <2>1, <2>2 DEF QueueTypes
<1>6. FreshCopies'
  BY <1>1, <1>4 DEF QueueInv, FreshCopies, NoTask
<1>7. \A y : (Awaits(y))' = Awaits(y)
  BY <1>1, <1>3 DEF Awaits
<1>8. ASSUME NEW y \in Objects, y # x
      PROVE  /\ (Stale(y))' = Stale(y)
             /\ Pending(y) => (Pending(y))'
  BY <1>1, <1>3, <1>4, <1>8 DEF Pending, Stale
<1>9. (Stale(x))' => (Pending(x))' \/ (Stale(x) /\ ~Pending(x))
  <2>1. CASE conflict
    BY <1>1, <2>1 DEF Pending
  <2>2. CASE ~conflict /\ ~t.fresh
    BY <1>1, <1>3, <1>4, <2>2 DEF Stale, Pending
  <2>3. CASE t.fresh /\ t.want # t.copy
    <3>1. status'[x] # seen'[x]
      BY <1>1, <1>4, <2>3 DEF QueueInv, FreshCopies
    <3> QED BY <3>1 DEF Pending
  <2>4. CASE t.fresh /\ t.want = t.copy
    <3>1. status'[x] = status[x] /\ seen[x] = status[x]
      BY <1>1, <1>4, <2>4 DEF QueueInv, FreshCopies
    <3> QED BY <1>1, <1>3, <1>4, <2>4, <3>1 DEF Stale, Pending
  <2> QED BY <2>1, <2>2, <2>3, <2>4
<1>10. GatewaysPending'
  BY <1>8, <1>9 DEF QueueInv, GatewaysPending, Objects
<1>11. ObjectsPending'
  BY <1>1, <1>7, <1>8, <1>9 DEF QueueInv, ObjectsPending
<1>12. SlicesPending'
  <2> SUFFICES ASSUME NEW s \in Selectors, slices'[s] # (desiredEndpointSlices(s))'
               PROVE  \/ s \in queue' \/ seen'[s] # status'[s] \/ task'[s].busy
                      \/ (exists(s))' /\ ((Awaits(s))' \/ doubt')
    BY DEF SlicesPending
  <2>0. s \in Objects
    BY DEF Objects
  <2>1. CASE s = x
    <3>1. conflict
      BY <1>1, <1>2, <1>3, <2>1 DEF QueueTypes
    <3> QED BY <1>1, <2>1, <3>1
  <2>2. CASE s # x
    <3>1. slices'[s] = slices[s]
      BY <1>1, <1>2, <2>2 DEF QueueTypes
    <3>2. \/ s \in queue \/ seen[s] # status[s] \/ task[s].busy
          \/ (exists(s) /\ (Awaits(s) \/ doubt))
      BY <1>3, <3>1 DEF QueueInv, SlicesPending
    <3> QED BY <1>1, <1>3, <1>4, <1>7, <2>0, <2>2, <3>2
  <2> QED BY <2>1, <2>2
<1> QED BY <1>5, <1>6, <1>10, <1>11, <1>12 DEF QueueInv

LEMMA DeliverStep ==
    ASSUME QueueInv, NEW x \in Objects, deliverStatus(x)
    PROVE  QueueInv'
<1>1. /\ UNCHANGED config /\ UNCHANGED <<status, slices, task, doubt>>
      /\ seen' = [seen EXCEPT ![x] = status[x]] /\ seen[x] # status[x]
      /\ queue' = queue \cup handlerKeys(x) /\ x \in queue'
  BY OwnKey DEF deliverStatus
<1>2. QueueTypes /\ ConfigOK
  BY DEF QueueInv, QueueTypes
<1>3. /\ ConfigOK'
      /\ \A y : (exists(y))' = exists(y) /\ (verdict(y))' = verdict(y)
      /\ \A g : /\ (managed(g))' = managed(g) /\ (gatewayStatus(g))' = gatewayStatus(g)
                /\ (enqueueRoutesForGateway(g))' = enqueueRoutesForGateway(g)
      /\ \A s \in Selectors : (desiredEndpointSlices(s))' = desiredEndpointSlices(s)
  BY <1>1, <1>2, SameConfig
<1>4. \A y \in Objects : y # x => seen'[y] = seen[y]
  BY <1>1, <1>2 DEF QueueTypes
<1>5. QueueTypes'
  <2>1. seen' = [y \in Objects |-> seen'[y]]
    BY <1>1, <1>2 DEF QueueTypes
  <2> QED BY <1>1, <1>2, <1>3, <2>1 DEF QueueTypes
<1>6. FreshCopies'
  BY <1>1, <1>4 DEF QueueInv, FreshCopies
<1>7. ASSUME NEW y, Awaits(y)
      PROVE  y \in queue' \/ (Awaits(y))'
  <2>1. PICK g \in Gateways : managed(g) /\ seen[g] # gatewayStatus(g) /\ y \in enqueueRoutesForGateway(g)
    BY <1>7 DEF Awaits
  <2>2. g \in Objects
    BY DEF Objects
  <2>3. CASE g = x
    <3>1. enqueueRoutesForGateway(g) \subseteq handlerKeys(x)
      BY <2>3, ObjectsAssumption DEF handlerKeys
    <3> QED BY <1>1, <2>1, <3>1
  <2>4. CASE g # x
    BY <1>3, <1>4, <2>1, <2>2, <2>4 DEF Awaits
  <2> QED BY <2>3, <2>4
<1>8. ASSUME NEW y \in Objects
      PROVE  /\ (Stale(y))' = Stale(y)
             /\ Pending(y) => (Pending(y))'
  BY <1>1, <1>3, <1>4 DEF Pending, Stale
<1>9. GatewaysPending'
  BY <1>8 DEF QueueInv, GatewaysPending, Objects
<1>10. ObjectsPending'
  <2> SUFFICES ASSUME NEW y \in Objects, Stale(y)
               PROVE  (Pending(y))' \/ (Awaits(y))' \/ doubt'
    BY <1>8 DEF ObjectsPending
  <2>1. y \in queue' => (Pending(y))'
    BY DEF Pending
  <2> QED BY <1>1, <1>7, <1>8, <2>1 DEF QueueInv, ObjectsPending
<1>11. SlicesPending'
  <2> SUFFICES ASSUME NEW s \in Selectors, slices[s] # desiredEndpointSlices(s)
               PROVE  \/ s \in queue' \/ seen'[s] # status'[s] \/ task'[s].busy
                      \/ (exists(s))' /\ ((Awaits(s))' \/ doubt')
    BY <1>1, <1>3 DEF SlicesPending
  <2>1. s \in Objects
    BY DEF Objects
  <2>2. s \in queue \/ seen[s] # status[s] \/ task[s].busy \/ (exists(s) /\ (Awaits(s) \/ doubt))
    BY DEF QueueInv, SlicesPending
  <2> QED BY <1>1, <1>3, <1>4, <1>7, <2>1, <2>2
<1> QED BY <1>5, <1>6, <1>9, <1>10, <1>11 DEF QueueInv

\* A resync enqueues whatever exists.
LEMMA ResyncStep ==
    ASSUME QueueInv, resync
    PROVE  QueueInv'
<1>1. /\ UNCHANGED config /\ UNCHANGED <<status, seen, slices, task>>
      /\ queue' = UNION {handlerKeys(x) : x \in {y \in Objects : exists(y)}}
      /\ doubt' = FALSE /\ Quiescent
  BY DEF resync
<1>2. QueueTypes /\ ConfigOK
  BY DEF QueueInv, QueueTypes
<1>3. /\ ConfigOK'
      /\ \A y : (exists(y))' = exists(y) /\ (verdict(y))' = verdict(y)
      /\ \A s \in Selectors : (desiredEndpointSlices(s))' = desiredEndpointSlices(s)
  BY <1>1, <1>2, SameConfig
<1>4. \A y \in Objects : exists(y) => y \in queue'
  BY <1>1, OwnKey
<1>5. \A y \in Objects : (Stale(y))' => (Pending(y))'
  BY <1>3, <1>4 DEF Stale, Pending
<1>6. QueueTypes' /\ FreshCopies'
  BY <1>1, <1>2, <1>3 DEF QueueTypes, QueueInv, FreshCopies
<1>7. GatewaysPending' /\ ObjectsPending'
  BY <1>5 DEF GatewaysPending, ObjectsPending, Objects
<1>8. SlicesPending'
  <2> SUFFICES ASSUME NEW s \in Selectors, slices[s] # desiredEndpointSlices(s)
               PROVE  s \in queue'
    BY <1>1, <1>3 DEF SlicesPending
  <2>1. s \in Objects
    BY DEF Objects
  <2>2. exists(s)
    BY <1>1, <2>1 DEF QueueInv, SlicesPending, Quiescent
  <2> QED BY <1>4, <2>1, <2>2
<1> QED BY <1>6, <1>7, <1>8 DEF QueueInv

LEMMA QueueInitInv == QueueInit => QueueInv
<1> SUFFICES ASSUME QueueInit PROVE QueueInv
  OBVIOUS
<1>1. ConfigOK
  BY DEF QueueInit, ConfigOK
<1>2. \A x \in Objects : task[x] = NoTask /\ status[x] = verdict(x)
  BY DEF QueueInit
<1>3. \A s \in Selectors : slices[s] = desiredEndpointSlices(s)
  BY DEF QueueInit
<1>4. QueueTypes
  <2>1. task = [x \in Objects |-> [busy |-> task[x].busy, copy |-> task[x].copy,
                                   want |-> task[x].want, fresh |-> task[x].fresh]]
    BY DEF QueueInit, NoTask
  <2> QED BY <1>1, <2>1 DEF QueueInit, QueueTypes
<1>5. FreshCopies
  BY <1>2 DEF FreshCopies, NoTask
<1>6. GatewaysPending /\ ObjectsPending /\ SlicesPending
  BY <1>2, <1>3 DEF GatewaysPending, ObjectsPending, SlicesPending, Stale, Objects
<1> QED BY <1>4, <1>5, <1>6 DEF QueueInv

LEMMA UserStep ==
    ASSUME QueueInv,
           \/ \E c \in ClassSpecs : userEditsClass(c)
           \/ \E g \in Gateways, o \in GatewaySpecs \cup {NoGateway} : userEditsGateway(g, o)
           \/ \E r \in Routes, o \in RouteSpecs \cup {NoRoute} : userEditsRoute(r, o)
           \/ \E s \in Selectors, v \in SelectorSpecs : userEditsSelector(s, v)
    PROVE  QueueInv'
<1>0. ConfigOK
  BY DEF QueueInv, QueueTypes
<1>1. ASSUME NEW c \in ClassSpecs, userEditsClass(c)
      PROVE  QueueInv'
  <2>1. editClass(c) /\ edit(Class, handlerKeys(Class)) /\ selector' = selector
    BY <1>1 DEF userEditsClass, editClass
  <2>2. ConfigOK'
    BY <1>0, <2>1, ObjectsAssumption DEF editClass, ConfigOK
  <2>3. Class \in Objects /\ Class \in handlerKeys(Class)
    BY OwnKey DEF Objects
  <2>4. GatewaysTold(handlerKeys(Class)) /\ ObjectsTold(handlerKeys(Class))
    BY <1>0, <2>1, <2>2, ClassEdit
  <2> QED BY <2>1, <2>2, <2>3, <2>4, EditStep
<1>2. ASSUME NEW g \in Gateways, NEW o \in GatewaySpecs \cup {NoGateway}, userEditsGateway(g, o)
      PROVE  QueueInv'
  <2>1. editGateway(g, o) /\ edit(g, handlerKeys(g)) /\ selector' = selector
    BY <1>2 DEF userEditsGateway, editGateway
  <2>2. ConfigOK'
    BY <1>0, <2>1 DEF editGateway, ConfigOK
  <2>3. g \in Objects /\ g \in handlerKeys(g)
    BY OwnKey DEF Objects
  <2>4. GatewaysTold(handlerKeys(g)) /\ ObjectsTold(handlerKeys(g))
    BY <1>0, <2>1, <2>2, GatewayEdit
  <2> QED BY <2>1, <2>2, <2>3, <2>4, EditStep
<1>3. ASSUME NEW r \in Routes, NEW o \in RouteSpecs \cup {NoRoute}, userEditsRoute(r, o)
      PROVE  QueueInv'
  <2> DEFINE keys == enqueueForRoute(r, route[r]) \cup enqueueForRoute(r, o)
  <2>1. editRoute(r, o) /\ edit(r, keys) /\ selector' = selector
    BY <1>3 DEF userEditsRoute, editRoute
  <2>2. ConfigOK'
    BY <1>0, <2>1 DEF editRoute, ConfigOK
  <2>3. r \in Objects /\ r \in keys
    BY DEF Objects, enqueueForRoute
  <2>4. GatewaysTold(keys)
    BY <1>0, <2>1, <2>2, RouteEditGateways
  <2>5. (\A g \in Gateways : ~gateway[g].addresses) => ObjectsTold(keys)
    BY <1>0, <2>1, <2>2, RouteEditObjects
  <2> HIDE DEF keys
  <2> QED BY <2>1, <2>2, <2>3, <2>4, <2>5, EditStep
<1>4. ASSUME NEW s \in Selectors, NEW v \in SelectorSpecs, userEditsSelector(s, v)
      PROVE  QueueInv'
  <2>1. editSelector(s, v) /\ edit(s, handlerKeys(s))
    BY <1>4 DEF userEditsSelector
  <2>2. ConfigOK' /\ \A t \in Selectors : t # s => selector'[t] = selector[t]
    BY <1>0, <2>1, ObjectsAssumption DEF editSelector, ConfigOK
  <2>3. s \in Objects /\ s \in handlerKeys(s)
    BY OwnKey DEF Objects
  <2>4. GatewaysTold(handlerKeys(s)) /\ ObjectsTold(handlerKeys(s))
    BY <1>0, <2>1, <2>2, SelectorEdit
  <2> QED BY <2>1, <2>2, <2>3, <2>4, EditStep
<1> QED BY <1>1, <1>2, <1>3, <1>4

LEMMA StutterStep ==
    ASSUME QueueInv, UNCHANGED queueVars
    PROVE  QueueInv'
<1>1. UNCHANGED config /\ UNCHANGED <<status, seen, slices, queue, task, doubt>>
  BY DEF queueVars, config
<1>2. QueueTypes /\ ConfigOK
  BY DEF QueueInv, QueueTypes
<1>3. /\ ConfigOK'
      /\ \A y : (exists(y))' = exists(y) /\ (verdict(y))' = verdict(y)
      /\ \A g : /\ (managed(g))' = managed(g) /\ (gatewayStatus(g))' = gatewayStatus(g)
                /\ (enqueueRoutesForGateway(g))' = enqueueRoutesForGateway(g)
      /\ \A s \in Selectors : (desiredEndpointSlices(s))' = desiredEndpointSlices(s)
  BY <1>1, <1>2, SameConfig
<1>4. \A y : (Awaits(y))' = Awaits(y) /\ (Stale(y))' = Stale(y) /\ (Pending(y))' = Pending(y)
  BY <1>1, <1>3 DEF Awaits, Stale, Pending
<1>5. QueueTypes' /\ FreshCopies'
  BY <1>1, <1>2, <1>3 DEF QueueTypes, QueueInv, FreshCopies
<1>6. GatewaysPending' /\ ObjectsPending'
  BY <1>1, <1>4 DEF QueueInv, GatewaysPending, ObjectsPending
<1>7. SlicesPending'
  BY <1>1, <1>3, <1>4 DEF QueueInv, SlicesPending
<1> QED BY <1>5, <1>6, <1>7 DEF QueueInv

-----------------------------------------------------------------------------
(* Theorems *)

LEMMA QueueInvariance == QueueSpec => []QueueInv
<1>1. QueueInv /\ [QueueNext]_queueVars => QueueInv'
  BY StartStep, FinishStep, DeliverStep, ResyncStep, UserStep, StutterStep DEF QueueNext
<1> QED BY <1>1, QueueInitInv, PTL DEF QueueSpec

\* However edits overlap with reconciles and with each other, each Gateway's
\* status is up to date when nothing is left to do.
THEOREM GatewaysCurrentCorrect == QueueSpec => []GatewaysCurrent
<1>1. QueueInv => GatewaysCurrent
  BY QuiescentCurrent DEF GatewaysCurrent
<1> QED BY <1>1, QueueInvariance, PTL

\* Edits that arrive one at a time reach every object they bear on, siblings and
\* slices included, although no handler enqueues siblings.
THEOREM EditsPropagateCorrect == QueueSpec => []EditsPropagate
<1>1. QueueInv => EditsPropagate
  BY QuiescentCurrent DEF EditsPropagate
<1> QED BY <1>1, QueueInvariance, PTL

=============================================================================
