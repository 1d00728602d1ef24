---------------------- MODULE GatewayEvaluation_proofs ----------------------
(***************************************************************************)
(* The four readers of a Gateway agree, for every set of Gateways, routes  *)
(* and selectors and for every listener and parentRef list: evaluateGateway, *)
(* the selector's search for bindings, the agent and the DNS plugin.       *)
(***************************************************************************)
EXTENDS GatewayEvaluation, FiniteSetTheorems, TLAPS

-----------------------------------------------------------------------------
(* Configurations *)

\* What users make of the configuration.
ConfigOK ==
    /\ class \in {"absent", "ours", "foreign"}
    /\ gateway \in [Gateways -> GatewaySpecs \cup {NoGateway}]
    /\ route \in [Routes -> RouteSpecs \cup {NoRoute}]
    /\ selector \in [Selectors -> {"absent", "invalid", "valid"}]

\* Every reachable configuration is one.
LEMMA ConfigCorrect == Spec => []ConfigOK
<1>1. Init => ConfigOK
  BY DEF Init, ConfigOK
<1>2. ConfigOK /\ [Next]_vars => ConfigOK'
  BY DEF ConfigOK, Next, vars, editClass, editGateway, editRoute, editSelector
<1> QED BY <1>1, <1>2, PTL DEF Spec

LEMMA GatewayTypes ==
    ASSUME ConfigOK, NEW g \in Gateways
    PROVE  /\ gateway[g] \in GatewayObject
           /\ gateway[g].listeners \in Seq(Listener)
           /\ DOMAIN gateway[g].listeners = 1..Len(gateway[g].listeners)
           /\ IsFiniteSet(DOMAIN gateway[g].listeners)
           /\ \A i \in DOMAIN gateway[g].listeners : gateway[g].listeners[i] \in Listener
<1>1. NoGateway \in GatewayObject
  BY DEF NoGateway, GatewayObject
<1>2. gateway[g] \in GatewayObject
  BY <1>1, SpecsAssumption DEF ConfigOK
<1>3. gateway[g].listeners \in Seq(Listener)
  BY <1>2 DEF GatewayObject
<1>4. DOMAIN gateway[g].listeners = 1..Len(gateway[g].listeners)
      /\ Len(gateway[g].listeners) \in Nat
  BY <1>3
<1>5. IsFiniteSet(1..Len(gateway[g].listeners))
  BY <1>4, FS_Interval
<1>6. \A i \in DOMAIN gateway[g].listeners : gateway[g].listeners[i] \in Listener
  BY <1>3
<1> QED BY <1>2, <1>3, <1>4, <1>5, <1>6

LEMMA RouteTypes ==
    ASSUME ConfigOK, NEW r \in Routes
    PROVE  /\ route[r] \in RouteObject
           /\ route[r].parentRefs \in Seq(Parent)
           /\ DOMAIN route[r].parentRefs = 1..Len(route[r].parentRefs)
           /\ route[r].exists => route[r].backendRef \in Selectors
<1>1. NoRoute \in RouteObject /\ ~NoRoute.exists
  BY DEF NoRoute, RouteObject, BackendShape
<1>2. route[r] \in RouteObject
  BY <1>1, SpecsAssumption DEF ConfigOK
<1>3. route[r].parentRefs \in Seq(Parent)
  BY <1>2 DEF RouteObject
<1>4. DOMAIN route[r].parentRefs = 1..Len(route[r].parentRefs)
  BY <1>3
<1>5. route[r].exists => route[r].backendRef \in Selectors
  BY <1>1, SpecsAssumption DEF ConfigOK
<1> QED BY <1>2, <1>3, <1>4, <1>5

-----------------------------------------------------------------------------
(* Listeners and routes *)

\* A set of one element has no two.
LEMMA OnlyOne ==
    ASSUME NEW S, IsFiniteSet(S), Cardinality(S) = 1, NEW x \in S
    PROVE  S = {x}
<1>1. PICK y : S = {y}
  BY FS_Singleton
<1> QED BY <1>1

LEMMA AttachedFinite ==
    ASSUME NEW g, NEW l
    PROVE  IsFiniteSet(attachedRoutesForListener(g, l))
<1>1. attachedRoutesForListener(g, l) \subseteq Routes
  BY DEF attachedRoutesForListener, listRoutesForGateway
<1> QED BY <1>1, RoutesAssumption, FS_Subset

LEMMA ResolvedListeners ==
    ASSUME ConfigOK, NEW g \in Gateways, NEW p
    PROVE  /\ IsFiniteSet(resolveGatewayListener(g, p))
           /\ \A i \in resolveGatewayListener(g, p) :
                /\ validateGatewayListeners(gateway[g].listeners)
                /\ i \in DOMAIN gateway[g].listeners
                /\ parentMatchesListener(p, gateway[g].listeners[i])
<1>1. resolveGatewayListener(g, p) \subseteq DOMAIN gateway[g].listeners
  BY DEF resolveGatewayListener
<1>2. IsFiniteSet(resolveGatewayListener(g, p))
  BY <1>1, GatewayTypes, FS_Subset
<1> QED BY <1>2 DEF resolveGatewayListener

\* What gatewayBindingForRoute finds: a route that is accepted for the listener
\* it binds, and is the only one attached there.
LEMMA BindingFacts ==
    ASSUME ConfigOK, NEW s \in Selectors, NEW b \in listReferencedGatewayBindings(s)
    PROVE  \E r \in Routes :
             /\ route[r].exists /\ route[r].backendRef = s
             /\ Len(route[r].parentRefs) = 1
             /\ b.gateway \in Gateways /\ gateway[b.gateway].exists /\ gateway[b.gateway].ours
             /\ route[r].parentRefs[1].gateway = b.gateway
             /\ validateGatewayListeners(gateway[b.gateway].listeners)
             /\ b.listener \in DOMAIN gateway[b.gateway].listeners
             /\ b = [gateway |-> b.gateway, listener |-> b.listener]
             /\ attachedRoutesForListener(b.gateway, gateway[b.gateway].listeners[b.listener]) = {r}
             /\ routeAccepted(r, route[r].parentRefs[1], b.gateway) /\ routeResolved(r)
<1>1. PICK r \in Routes : route[r].exists /\ b \in gatewayBindingForRoute(s, r)
  BY DEF listReferencedGatewayBindings
<1> DEFINE ps == route[r].parentRefs
<1>2. PICK i \in DOMAIN ps :
        /\ ps[i].gateway \in Gateways /\ gateway[ps[i].gateway].exists
        /\ gateway[ps[i].gateway].ours
        /\ routeAccepted(r, ps[i], ps[i].gateway) /\ routeResolved(r)
        /\ route[r].backendRef = s
        /\ \E k \in resolveGatewayListener(ps[i].gateway, ps[i]) :
             b = [gateway |-> ps[i].gateway, listener |-> k]
  BY <1>1 DEF gatewayBindingForRoute
<1>3. Len(ps) = 1 /\ i = 1
  BY <1>2, RouteTypes DEF routeAccepted
<1> DEFINE g == ps[1].gateway
<1>4. PICK k \in resolveGatewayListener(g, ps[1]) : b = [gateway |-> g, listener |-> k]
  BY <1>2, <1>3
<1>5. b.gateway = g /\ b.listener = k
  BY <1>4
<1>6. /\ validateGatewayListeners(gateway[g].listeners) /\ k \in DOMAIN gateway[g].listeners
      /\ parentMatchesListener(ps[1], gateway[g].listeners[k])
  BY <1>2, <1>3, <1>4, ResolvedListeners
<1> DEFINE attached == attachedRoutesForListener(g, gateway[g].listeners[k])
<1>7. route[r].sameNamespace /\ Cardinality(attached) = 1
  BY <1>2, <1>3, <1>4 DEF routeAccepted
<1>8. r \in attached
  BY <1>1, <1>2, <1>3, <1>6, <1>7 DEF attachedRoutesForListener, listRoutesForGateway
<1>9. attached = {r}
  <2>1. IsFiniteSet(attached)
    BY AttachedFinite
  <2> HIDE DEF attached
  <2> QED BY <1>7, <1>8, <2>1, OnlyOne
<1> QED BY <1>1, <1>2, <1>3, <1>4, <1>5, <1>6, <1>9

\* The same from the other end: the one route of a usable listener names no
\* other parent, resolves to that listener, and its selector is valid.
LEMMA UsableFacts ==
    ASSUME ConfigOK, NEW g \in Gateways, NEW i \in usableListeners(g)
    PROVE  /\ classAccepted /\ validateGatewayListeners(gateway[g].listeners)
           /\ i \in DOMAIN gateway[g].listeners
           /\ \E r \in Routes :
                /\ route[r].exists /\ route[r].backend = "selector"
                /\ route[r].backendRef \in Selectors
                /\ evaluateEndpointSelector(route[r].backendRef)
                /\ Len(route[r].parentRefs) = 1 /\ route[r].parentRefs[1].gateway = g
                /\ i \in resolveGatewayListener(g, route[r].parentRefs[1])
                /\ routeAccepted(r, route[r].parentRefs[1], g) /\ routeResolved(r)
<1>1. /\ classAccepted /\ validateGatewayListeners(gateway[g].listeners)
      /\ i \in DOMAIN gateway[g].listeners /\ listenerUsable(g, i)
  BY DEF usableListeners
<1> DEFINE attached == attachedRoutesForListener(g, gateway[g].listeners[i])
<1>2. Cardinality(attached) = 1
      /\ \A r \in attached : routeAccepted(r, matchingParentRef(r, g), g) /\ routeResolved(r)
  BY <1>1 DEF listenerUsable
<1>3. attached # {}
  <2>1. IsFiniteSet(attached)
    BY AttachedFinite
  <2> HIDE DEF attached
  <2> QED BY <1>2, <2>1, FS_EmptySet
<1>4. PICK r : r \in attached
  BY <1>3
<1> DEFINE ps == route[r].parentRefs
<1>5. /\ r \in Routes /\ route[r].exists
      /\ \E k \in DOMAIN ps : ps[k].gateway = g
           /\ parentMatchesListener(ps[k], gateway[g].listeners[i])
  BY <1>4 DEF attachedRoutesForListener, listRoutesForGateway
<1>6. Len(ps) = 1 /\ DOMAIN ps = 1..1
  BY <1>2, <1>4, <1>5, RouteTypes DEF routeAccepted
<1>7. ps[1].gateway = g /\ parentMatchesListener(ps[1], gateway[g].listeners[i])
  BY <1>5, <1>6
<1>8. matchingParentRef(r, g) = ps[1]
  BY <1>6, <1>7 DEF matchingParentRef
<1>9. routeAccepted(r, ps[1], g) /\ routeResolved(r)
  BY <1>2, <1>4, <1>8
<1>10. i \in resolveGatewayListener(g, ps[1])
  BY <1>1, <1>7 DEF resolveGatewayListener
<1>11. route[r].backend = "selector" /\ evaluateEndpointSelector(route[r].backendRef)
  BY <1>1, <1>9 DEF routeResolved
<1>12. route[r].backendRef \in Selectors
  BY <1>5, RouteTypes
<1> QED BY <1>1, <1>5, <1>6, <1>7, <1>9, <1>10, <1>11, <1>12

\* A route that is accepted and resolved, and names one parent, binds the
\* listener it resolves to.
LEMMA BindingExists ==
    ASSUME ConfigOK, NEW r \in Routes, route[r].exists, route[r].backend = "selector",
           Len(route[r].parentRefs) = 1, route[r].parentRefs[1].gateway \in ownGateways,
           routeAccepted(r, route[r].parentRefs[1], route[r].parentRefs[1].gateway),
           routeResolved(r),
           NEW i \in resolveGatewayListener(route[r].parentRefs[1].gateway, route[r].parentRefs[1])
    PROVE  [gateway |-> route[r].parentRefs[1].gateway, listener |-> i]
             \in listReferencedGatewayBindings(route[r].backendRef)
<1> DEFINE s == route[r].backendRef
           ps == route[r].parentRefs
           g == ps[1].gateway
           binds(k) ==
             /\ ps[k].gateway \in Gateways /\ gateway[ps[k].gateway].exists
             /\ gateway[ps[k].gateway].ours
             /\ routeAccepted(r, ps[k], ps[k].gateway) /\ routeResolved(r)
             /\ Cardinality(resolveGatewayListener(ps[k].gateway, ps[k])) = 1
           first == {k \in DOMAIN ps : binds(k) /\ \A j \in DOMAIN ps : j < k => ~binds(j)}
           found(k) == {[gateway |-> ps[k].gateway, listener |-> l] :
                          l \in resolveGatewayListener(ps[k].gateway, ps[k])}
<1>1. DOMAIN ps = 1..1
  BY RouteTypes
<1>2. binds(1)
  BY DEF routeAccepted, ownGateways
<1>3. 1 \in first
  <2> HIDE DEF binds
  <2> QED BY <1>1, <1>2
<1>4. [gateway |-> g, listener |-> i] \in found(1)
  OBVIOUS
<1>5. gatewayBindingForRoute(s, r) = UNION {found(k) : k \in first}
  BY DEF gatewayBindingForRoute
<1>6. [gateway |-> g, listener |-> i] \in gatewayBindingForRoute(s, r)
  <2> HIDE DEF first, found
  <2> QED BY <1>3, <1>4, <1>5
<1> QED BY <1>6 DEF listReferencedGatewayBindings

\* A usable listener has an EndpointSlice.
LEMMA UsableHasSlice ==
    ASSUME ConfigOK, NEW g \in ownGateways, NEW i \in usableListeners(g)
    PROVE  \E s \in Selectors : [gateway |-> g, listener |-> i] \in desiredEndpointSlices(s)
<1>1. PICK r \in Routes :
        /\ route[r].exists /\ route[r].backend = "selector"
        /\ route[r].backendRef \in Selectors
        /\ evaluateEndpointSelector(route[r].backendRef)
        /\ Len(route[r].parentRefs) = 1 /\ route[r].parentRefs[1].gateway = g
        /\ i \in resolveGatewayListener(g, route[r].parentRefs[1])
        /\ routeAccepted(r, route[r].parentRefs[1], g) /\ routeResolved(r)
  BY UsableFacts DEF ownGateways
<1>2. [gateway |-> g, listener |-> i] \in listReferencedGatewayBindings(route[r].backendRef)
  BY <1>1, BindingExists
<1> QED BY <1>1, <1>2 DEF desiredEndpointSlices

\* A listener with an EndpointSlice is usable, unless spec.addresses is set.
LEMMA SliceIsUsable ==
    ASSUME ConfigOK, NEW s \in Selectors, NEW b \in desiredEndpointSlices(s),
           ~gateway[b.gateway].addresses
    PROVE  b.listener \in usableListeners(b.gateway)
<1> DEFINE g == b.gateway
           i == b.listener
<1>1. b \in listReferencedGatewayBindings(s)
  BY DEF desiredEndpointSlices
<1>2. PICK r \in Routes :
        /\ Len(route[r].parentRefs) = 1 /\ route[r].parentRefs[1].gateway = g
        /\ validateGatewayListeners(gateway[g].listeners) /\ i \in DOMAIN gateway[g].listeners
        /\ attachedRoutesForListener(g, gateway[g].listeners[i]) = {r}
        /\ routeAccepted(r, route[r].parentRefs[1], g) /\ routeResolved(r)
  BY <1>1, BindingFacts
<1>3. DOMAIN route[r].parentRefs = 1..1
  BY <1>2, RouteTypes
<1>4. matchingParentRef(r, g) = route[r].parentRefs[1]
  BY <1>2, <1>3 DEF matchingParentRef
<1>5. Cardinality({r}) = 1
  BY FS_Singleton
<1>6. listenerUsable(g, i)
  BY <1>2, <1>4, <1>5 DEF listenerUsable
<1>7. classAccepted
  BY <1>2 DEF routeAccepted
<1> QED BY <1>2, <1>6, <1>7 DEF usableListeners

-----------------------------------------------------------------------------
(* The readers agree *)

\* A listener has one attached route, which names one selector: no two selectors
\* want the EndpointSlice of the same listener.
THEOREM OneSelectorCorrect == Spec => []OneSelectorPerListener
<1>1. ConfigOK => OneSelectorPerListener
  <2> SUFFICES ASSUME ConfigOK, NEW s \in Selectors, NEW t \in Selectors,
                      NEW b \in desiredEndpointSlices(s) \cap desiredEndpointSlices(t)
               PROVE  s = t
    BY DEF OneSelectorPerListener
  <2>1. b \in listReferencedGatewayBindings(s) /\ b \in listReferencedGatewayBindings(t)
    BY DEF desiredEndpointSlices
  <2>2. PICK r \in Routes : route[r].backendRef = s /\
          attachedRoutesForListener(b.gateway, gateway[b.gateway].listeners[b.listener]) = {r}
    BY <2>1, BindingFacts
  <2>3. PICK q \in Routes : route[q].backendRef = t /\
          attachedRoutesForListener(b.gateway, gateway[b.gateway].listeners[b.listener]) = {q}
    BY <2>1, BindingFacts
  <2> QED BY <2>2, <2>3
<1> QED BY <1>1, ConfigCorrect, PTL

\* evaluateGateway, from the Gateway down, and gatewayBindingForRoute, from the
\* selector up, find the same listeners.
THEOREM SlicesMatchCorrect == Spec => []SlicesMatchUsableListeners
<1>1. ConfigOK => SlicesMatchUsableListeners
  <2> SUFFICES ASSUME ConfigOK, NEW g \in ownGateways, ~gateway[g].addresses
               PROVE  usableListeners(g) =
                        {b.listener : b \in {x \in UNION {desiredEndpointSlices(s) : s \in Selectors} :
                                               x.gateway = g}}
    BY DEF SlicesMatchUsableListeners
  <2> DEFINE bound == {x \in UNION {desiredEndpointSlices(s) : s \in Selectors} : x.gateway = g}
  <2>1. ASSUME NEW i \in usableListeners(g)
        PROVE  i \in {b.listener : b \in bound}
    <3>1. PICK s \in Selectors : [gateway |-> g, listener |-> i] \in desiredEndpointSlices(s)
      BY UsableHasSlice
    <3>2. [gateway |-> g, listener |-> i] \in bound
      BY <3>1
    <3> QED BY <3>2
  <2>2. ASSUME NEW b \in bound
        PROVE  b.listener \in usableListeners(g)
    <3>1. PICK s \in Selectors : b \in desiredEndpointSlices(s) /\ b.gateway = g
      OBVIOUS
    <3> QED BY <3>1, SliceIsUsable
  <2> QED BY <2>1, <2>2
<1> QED BY <1>1, ConfigCorrect, PTL

\* Listeners that validateGatewayListeners lets through are ones the agent
\* supports, with one frontend each.
LEMMA ValidIsSupported ==
    ASSUME ConfigOK, NEW g \in ownGateways, validateGatewayListeners(gateway[g].listeners),
           NEW v, ~v.deleting, NEW vip, vip # NoName,
           Len(v.addresses) = 1 /\ v.addresses[1].type = "IPAddress" /\ v.addresses[1].value = vip
    PROVE  /\ gatewaySupported(g, v)
           /\ gatewayToFrontendMap(g, v) =
                {[vip |-> vip, listener |-> gateway[g].listeners[i].name,
                  port |-> gateway[g].listeners[i].port] : i \in DOMAIN gateway[g].listeners}
<1>0. g \in Gateways /\ gateway[g].exists /\ gateway[g].ours
  BY DEF ownGateways
<1> DEFINE ls == gateway[g].listeners
<1>1. Len(ls) \in Nat /\ Len(ls) > 0 /\ DOMAIN ls = 1..Len(ls)
  BY <1>0, GatewayTypes DEF validateGatewayListeners
<1>2. \A i \in DOMAIN ls : listenerSupported(ls, i)
  BY DEF validateGatewayListeners
<1>3. Len(ls) \in 1..MaxSupportedGatewayListeners
  <2>1. listenerSupported(ls, 1)
    BY <1>1, <1>2
  <2>2. Len(ls) <= MaxSupportedGatewayListeners
    BY <2>1 DEF listenerSupported
  <2> QED BY <1>1, <2>2, MaxAssumption
<1>4. gatewaySupported(g, v)
  <2>1. \A i \in DOMAIN ls :
          /\ ls[i].protocol = "TCP" /\ ls[i].name # NoName /\ ls[i].port # 0
          /\ \A j \in DOMAIN ls : j # i => ls[j].name # ls[i].name /\ ls[j].port # ls[i].port
    BY <1>2 DEF listenerSupported
  <2> QED BY <1>0, <1>3, <2>1 DEF gatewaySupported
<1> QED BY <1>4 DEF gatewayToFrontendMap

\* What the agent and the plugin make of a status with one IPv4 address.
LEMMA OneAddress ==
    ASSUME NEW v, NEW vip \in Vips, v.addresses = <<[type |-> "IPAddress", value |-> vip]>>
    PROVE  /\ Len(v.addresses) = 1 /\ v.addresses[1].type = "IPAddress"
           /\ v.addresses[1].value = vip /\ vip # NoName
           /\ ipv4Addresses(v) = {vip}
<1>1. /\ Len(v.addresses) = 1 /\ DOMAIN v.addresses = {1}
      /\ v.addresses[1].type = "IPAddress" /\ v.addresses[1].value = vip
  OBVIOUS
<1>2. vip # NoName
  BY NoNameAssumption
<1>3. {j \in DOMAIN v.addresses :
         v.addresses[j].type # "Hostname" /\ v.addresses[j].value # NoName} = {1}
  BY <1>1, <1>2
<1> QED BY <1>1, <1>2, <1>3 DEF ipv4Addresses

\* The agent programs every listener the controller accepts, each on a port of
\* its own.
THEOREM ProgrammableCorrect == Spec => []AcceptedIsProgrammable
<1>1. ConfigOK => AcceptedIsProgrammable
  <2> SUFFICES ASSUME ConfigOK, NEW g \in ownGateways, NEW vip \in Vips, evaluateGateway(g),
                      NEW v, v = [deleting |-> FALSE, addresses |-> published(g, vip)]
               PROVE  /\ \A i \in usableListeners(g) :
                           \E f \in gatewayToFrontendMap(g, v) :
                             f.listener = gateway[g].listeners[i].name
                      /\ \A e, f \in gatewayToFrontendMap(g, v) : e.port = f.port => e = f
    BY DEF AcceptedIsProgrammable
  <2> DEFINE ls == gateway[g].listeners
             frontend(i) == [vip |-> vip, listener |-> ls[i].name, port |-> ls[i].port]
  <2>1. g \in Gateways
    BY DEF ownGateways
  <2>2. validateGatewayListeners(ls)
    BY DEF evaluateGateway, usableListeners
  <2>3. gatewayToFrontendMap(g, v) = {frontend(i) : i \in DOMAIN ls}
    <3>1. ~v.deleting /\ v.addresses = <<[type |-> "IPAddress", value |-> vip]>>
      BY NoNameAssumption DEF published
    <3>2. /\ Len(v.addresses) = 1 /\ v.addresses[1].type = "IPAddress"
          /\ v.addresses[1].value = vip /\ vip # NoName
      BY <3>1, OneAddress
    <3> QED BY <2>2, <3>1, <3>2, ValidIsSupported
  <2>4. ASSUME NEW i \in usableListeners(g)
        PROVE  \E f \in gatewayToFrontendMap(g, v) : f.listener = ls[i].name
    <3>1. i \in DOMAIN ls
      BY <2>1, UsableFacts
    <3>2. frontend(i) \in gatewayToFrontendMap(g, v) /\ frontend(i).listener = ls[i].name
      BY <2>3, <3>1
    <3> HIDE DEF frontend
    <3> QED BY <3>2
  <2>5. ASSUME NEW e \in gatewayToFrontendMap(g, v), NEW f \in gatewayToFrontendMap(g, v),
               e.port = f.port
        PROVE  e = f
    <3>1. PICK i \in DOMAIN ls : e = frontend(i)
      BY <2>3
    <3>2. PICK j \in DOMAIN ls : f = frontend(j)
      BY <2>3
    <3>3. ls[i].port = ls[j].port
      BY <2>5, <3>1, <3>2
    <3>4. i = j
      BY <2>2, <3>3 DEF validateGatewayListeners, listenerSupported
    <3> QED BY <3>1, <3>2, <3>4
  <2> QED BY <2>4, <2>5
<1> QED BY <1>1, ConfigCorrect, PTL

\* What a settled view of a Gateway of ours publishes.
LEMMA SettledViews ==
    ASSUME NEW g \in ownGateways, NEW v \in Views, settledView(g, v), ~v.deleting
    PROVE  \/ v.addresses = <<>>
           \/ evaluateGateway(g) /\ \E vip \in Vips :
                v.addresses = <<[type |-> "IPAddress", value |-> vip]>>
BY NoNameAssumption DEF settledView, published, ownGateways

\* Whatever a status says, what the agent programs resolves to the address it is
\* programmed for; and where the status is up to date, each answer leads to a
\* frontend with an EndpointSlice behind it.
THEOREM ReachableCorrect == Spec => []ResolvedIsReachable
<1>1. ASSUME NEW cache \in [Gateways -> Views], NEW g \in Gateways,
             NEW f \in gatewayToFrontendMap(g, cache[g])
      PROVE  ServeDNS(TRUE, <<g, "default">>, "A", cache).answer = {f.vip}
  <2> DEFINE v == cache[g]
             as == v.addresses
  <2>1. /\ gatewaySupported(g, v) /\ as[1].value # NoName
        /\ f.vip = as[1].value
    BY DEF gatewayToFrontendMap
  <2>2. /\ gateway[g].exists /\ ~v.deleting /\ gateway[g].ours
        /\ Len(as) = 1 /\ as[1].type = "IPAddress"
    BY <2>1 DEF gatewaySupported
  <2>3. as \in Seq(StatusAddress)
    BY SpecsAssumption DEF View
  <2>4. DOMAIN as = {1}
    BY <2>2, <2>3
  <2>5. {j \in DOMAIN as : as[j].type # "Hostname" /\ as[j].value # NoName} = {1}
    BY <2>1, <2>2, <2>4
  <2>6. ipv4Addresses(v) = {f.vip}
    BY <2>1, <2>5 DEF ipv4Addresses
  <2>7. lookupGateway("default", g, cache) = [found |-> TRUE, addresses |-> {f.vip}]
    BY <2>2, <2>6 DEF lookupGateway
  <2> QED BY <2>7 DEF ServeDNS, parseGatewayQuery, writeAResponse, writeNegative
<1>2. ASSUME ConfigOK, NEW cache \in [Gateways -> Views],
             \A g \in Gateways : settledView(g, cache[g]),
             NEW x, NEW y, NEW synced \in BOOLEAN,
             NEW vip \in ServeDNS(synced, <<x, y>>, "A", cache).answer
      PROVE  \E s \in Selectors, f \in gatewayToFrontendMap(x, cache[x]) :
               \E b \in desiredEndpointSlices(s) :
                 /\ f.vip = vip /\ b.gateway = x
                 /\ gateway[x].listeners[b.listener].name = f.listener
  <2> DEFINE v == cache[x]
  <2>1. lookupGateway(y, x, cache).found /\ vip \in lookupGateway(y, x, cache).addresses
    BY DEF ServeDNS, parseGatewayQuery, writeAResponse, writeNegative
  <2>2. /\ x \in ownGateways /\ x \in Gateways /\ v \in Views /\ ~v.deleting
        /\ vip \in ipv4Addresses(v)
    BY <2>1 DEF lookupGateway, ownGateways
  <2>3. v.addresses # <<>>
    <3>1. v.addresses = <<>> => DOMAIN v.addresses = {}
      OBVIOUS
    <3> QED BY <2>2, <3>1 DEF ipv4Addresses
  <2>4. PICK a \in Vips : v.addresses = <<[type |-> "IPAddress", value |-> a]>>
    BY <1>2, <2>2, <2>3, SettledViews
  <2>5. evaluateGateway(x)
    BY <1>2, <2>2, <2>3, SettledViews
  <2>6. /\ Len(v.addresses) = 1 /\ v.addresses[1].type = "IPAddress"
        /\ v.addresses[1].value = vip /\ vip # NoName
    BY <2>2, <2>4, OneAddress
  <2>7. PICK i : i \in usableListeners(x)
    BY <2>5 DEF evaluateGateway
  <2>8. PICK s \in Selectors : [gateway |-> x, listener |-> i] \in desiredEndpointSlices(s)
    BY <1>2, <2>2, <2>7, UsableHasSlice
  <2>9. validateGatewayListeners(gateway[x].listeners) /\ i \in DOMAIN gateway[x].listeners
    BY <1>2, <2>2, <2>7, UsableFacts DEF ownGateways
  <2>10. PICK f \in gatewayToFrontendMap(x, v) :
           f.vip = vip /\ f.listener = gateway[x].listeners[i].name
    <3> DEFINE e == [vip |-> vip, listener |-> gateway[x].listeners[i].name,
                     port |-> gateway[x].listeners[i].port]
    <3>1. /\ e \in gatewayToFrontendMap(x, v)
          /\ e.vip = vip /\ e.listener = gateway[x].listeners[i].name
      BY <1>2, <2>2, <2>6, <2>9, ValidIsSupported
    <3> HIDE DEF e
    <3> QED BY <3>1
  <2> QED BY <2>8, <2>10
<1>3. ProgrammedResolves
  BY <1>1 DEF ProgrammedResolves
<1>4. ConfigOK => AnswersReachable
  BY <1>2 DEF AnswersReachable
<1>5. ConfigOK => ResolvedIsReachable
  BY <1>3, <1>4 DEF ResolvedIsReachable
<1> QED BY <1>5, ConfigCorrect, PTL

=============================================================================
