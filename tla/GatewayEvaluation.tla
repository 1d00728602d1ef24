-------------------------- MODULE GatewayEvaluation --------------------------
(***************************************************************************)
(* What the controller makes of a configuration: evaluateGateway,          *)
(* evaluateRoute and the search for (Gateway, listener) bindings, and what *)
(* the agent makes of the same Gateway.  The three were written apart and  *)
(* read the same objects: the configuration is the state, users edit it,   *)
(* and every reachable configuration is evaluated.                         *)
(*                                                                         *)
(* All Gateways and XEndpointSelectors live in one namespace; a TCPRoute    *)
(* may live in another.  Texts and reasons of conditions are left out.     *)
(***************************************************************************)
EXTENDS Naturals, Sequences, FiniteSets

CONSTANTS
    Gateways, Routes, Selectors,    \* names of the objects
    Names,                          \* listener names
    NoName,                         \* an absent field, an empty name, no such object
    Vips,                           \* IPv4 addresses
    GatewaySpecs, RouteSpecs,       \* what users write
    Views,                          \* what else a reader's cache may hold of a Gateway
    MaxSupportedGatewayListeners    \* gatewaymeta.MaxSupportedGatewayListeners

\* allowedRoutes: which of its fields is set.
Listener == [name : Names \cup {NoName}, port : Nat, protocol : {"TCP", "UDP"},
             allowedRoutes : {"unset", "kinds", "selector", "Same", "All"}]

\* ours: spec.gatewayClassName is clusterip-gw; addresses: spec.addresses is
\* not empty.
GatewayObject == [exists : BOOLEAN, ours : BOOLEAN, addresses : BOOLEAN, listeners : Seq(Listener)]
NoGateway == [exists |-> FALSE, ours |-> FALSE, addresses |-> FALSE, listeners |-> <<>>]

\* An address in the status of a Gateway; NoName is a value that is no IPv4
\* address.  Whoever reads a Gateway finds its deletion timestamp and whatever
\* addresses were written last, by this controller or by another one.
StatusAddress == [type : {"unset", "IPAddress", "Hostname"}, value : Vips \cup {NoName}]
View == [deleting : BOOLEAN, addresses : Seq(StatusAddress)]

\* The Gateway a parentRef resolves to, and its optional sectionName and port.
Parent == [gateway : Gateways \cup {NoName}, section : Names \cup {NoName},
           port : Nat \cup {NoName}]

\* backend is the first check of the backendRef that fails, and "selector"
\* when none does; backendRef is the name in it.
BackendShape == {"rules", "backendRefs", "kind", "namespace", "port", "selector"}

RouteObject == [exists : BOOLEAN, sameNamespace : BOOLEAN, parentRefs : Seq(Parent),
                backend : BackendShape, backendRef : Selectors \cup {NoName}]
NoRoute == [exists |-> FALSE, sameNamespace |-> FALSE, parentRefs |-> <<>>,
            backend |-> "rules", backendRef |-> NoName]

ASSUME SpecsAssumption ==
    /\ GatewaySpecs \subseteq GatewayObject
    /\ RouteSpecs \subseteq RouteObject
    /\ \A o \in RouteSpecs : o.backendRef \in Selectors
    /\ Views \subseteq View
ASSUME RoutesAssumption == IsFiniteSet(Routes)
ASSUME MaxAssumption == MaxSupportedGatewayListeners \in Nat
ASSUME NoNameAssumption == NoName \notin Gateways \cup Selectors \cup Names \cup Vips

VARIABLES
    class,      \* GatewayClass clusterip-gw: absent, ours, or another controller's
    gateway,    \* Gateway objects
    route,      \* TCPRoute objects
    selector    \* XEndpointSelector objects

vars == <<class, gateway, route, selector>>

-----------------------------------------------------------------------------
(* Listeners *)

allowedRoutesSupported(a) == a \in {"unset", "Same"}

\* A switch that lets two listeners share a port.
listenerSupported_SharedPort(ls, i) ==
    /\ Len(ls) <= MaxSupportedGatewayListeners
    /\ ls[i].name # NoName /\ ls[i].port # 0 /\ ls[i].protocol = "TCP"
    /\ allowedRoutesSupported(ls[i].allowedRoutes)
    /\ \A j \in DOMAIN ls : j # i => ls[j].name # ls[i].name

\* The switch of validateGatewayListeners.
listenerSupported(ls, i) ==
    /\ Len(ls) <= MaxSupportedGatewayListeners
    /\ ls[i].name # NoName /\ ls[i].port # 0 /\ ls[i].protocol = "TCP"
    /\ allowedRoutesSupported(ls[i].allowedRoutes)
    /\ \A j \in DOMAIN ls : j # i => ls[j].name # ls[i].name /\ ls[j].port # ls[i].port

\* validateGatewayListeners(...).valid; its listeners are then all of ls.
validateGatewayListeners(ls) ==
    Len(ls) > 0 /\ \A i \in DOMAIN ls : listenerSupported(ls, i)

-----------------------------------------------------------------------------
(* Attachment *)

parentMatchesListener(p, l) ==
    /\ p.section = NoName \/ p.section = l.name
    /\ p.port = NoName \/ p.port = l.port

\* listRoutesForGateway: the index of routes by the Gateways they name.
listRoutesForGateway(g) ==
    {r \in Routes : route[r].exists /\
        \E i \in DOMAIN route[r].parentRefs : route[r].parentRefs[i].gateway = g}

attachedRoutesForListener(g, l) ==
    {r \in listRoutesForGateway(g) :
        /\ route[r].sameNamespace
        /\ \E i \in DOMAIN route[r].parentRefs :
             /\ route[r].parentRefs[i].gateway = g
             /\ parentMatchesListener(route[r].parentRefs[i], l)}

\* The first parentRef that names g, or one without section and port.
matchingParentRef(r, g) ==
    LET ps == route[r].parentRefs
        naming == {i \in DOMAIN ps : ps[i].gateway = g}
    IN  IF naming = {} THEN [gateway |-> g, section |-> NoName, port |-> NoName]
        ELSE ps[CHOOSE i \in naming : \A j \in naming : i <= j]

\* resolveGatewayListener: the listeners a parentRef selects.  The code calls
\* it an error unless there is exactly one.
resolveGatewayListener(g, p) ==
    LET ls == gateway[g].listeners
    IN  IF validateGatewayListeners(ls)
          THEN {i \in DOMAIN ls : parentMatchesListener(p, ls[i])}
          ELSE {}

-----------------------------------------------------------------------------
(* evaluateRoute *)

classAccepted == class = "ours"

\* A route that is content to be one of several.
routeAccepted_Shared(r, p, g) ==
    /\ classAccepted
    /\ route[r].sameNamespace
    /\ Len(route[r].parentRefs) = 1
    /\ Cardinality(resolveGatewayListener(g, p)) = 1

\* A route that may name several parents.
routeAccepted_AnyParents(r, p, g) ==
    /\ classAccepted
    /\ route[r].sameNamespace
    /\ Cardinality(resolveGatewayListener(g, p)) = 1
    /\ \A i \in resolveGatewayListener(g, p) :
         Cardinality(attachedRoutesForListener(g, gateway[g].listeners[i])) = 1

\* acceptedStatus of evaluateRoute.
routeAccepted(r, p, g) ==
    /\ classAccepted
    /\ route[r].sameNamespace
    /\ Len(route[r].parentRefs) = 1
    /\ Cardinality(resolveGatewayListener(g, p)) = 1
    /\ \A i \in resolveGatewayListener(g, p) :
         Cardinality(attachedRoutesForListener(g, gateway[g].listeners[i])) = 1

evaluateEndpointSelector(s) == selector[s] = "valid"

\* resolvedStatus of evaluateRoute, which leaves it True when the class fails.
routeResolved(r) ==
    \/ ~classAccepted
    \/ route[r].backend = "selector" /\ evaluateEndpointSelector(route[r].backendRef)

-----------------------------------------------------------------------------
(* evaluateGateway *)

\* Listener i has exactly one attached route, and that route is supported.
listenerUsable(g, i) ==
    LET attached == attachedRoutesForListener(g, gateway[g].listeners[i])
    IN  Cardinality(attached) = 1 /\ \A r \in attached :
          routeAccepted(r, matchingParentRef(r, g), g) /\ routeResolved(r)

\* The listeners whose status says Accepted.
usableListeners(g) ==
    IF classAccepted /\ validateGatewayListeners(gateway[g].listeners) /\ ~gateway[g].addresses
      THEN {i \in DOMAIN gateway[g].listeners : listenerUsable(g, i)}
      ELSE {}

\* evaluateGateway(...).valid
evaluateGateway(g) == usableListeners(g) # {}

-----------------------------------------------------------------------------
(* Bindings of a selector *)

\* gatewayBindingForRoute: at most one binding, of the first parentRef that
\* gives one.
gatewayBindingForRoute(s, r) ==
    LET ps == route[r].parentRefs
        binds(i) ==
          /\ ps[i].gateway \in Gateways /\ gateway[ps[i].gateway].exists
          /\ gateway[ps[i].gateway].ours
          /\ routeAccepted(r, ps[i], ps[i].gateway) /\ routeResolved(r)
          /\ Cardinality(resolveGatewayListener(ps[i].gateway, ps[i])) = 1
        first == {i \in DOMAIN ps : binds(i) /\ \A j \in DOMAIN ps : j < i => ~binds(j)}
    IN  IF route[r].backend \in {"rules", "backendRefs", "kind", "port"} \/ route[r].backendRef # s
          THEN {}
          ELSE UNION {{[gateway |-> ps[i].gateway, listener |-> k] :
                         k \in resolveGatewayListener(ps[i].gateway, ps[i])} : i \in first}

listReferencedGatewayBindings(s) ==
    UNION {gatewayBindingForRoute(s, r) : r \in {x \in Routes : route[x].exists}}

\* reconcileEndpointSelector: the listeners an accepted selector gets an
\* EndpointSlice for.
desiredEndpointSlices(s) ==
    IF evaluateEndpointSelector(s) THEN listReferencedGatewayBindings(s) ELSE {}

-----------------------------------------------------------------------------
(* What the controller publishes, and what the agent makes of it *)

\* What reconcileGateway publishes once ensureGatewayVIP has returned vip, or
\* NoName when it failed: the pool is exhausted, there is no ready ServiceCIDR,
\* or a call failed.  A Gateway that is not valid publishes no address.
published(g, vip) ==
    IF evaluateGateway(g) /\ vip # NoName THEN <<[type |-> "IPAddress", value |-> vip]>> ELSE <<>>

gatewaySupported(g, v) ==
    LET ls == gateway[g].listeners
    IN  /\ gateway[g].exists /\ ~v.deleting /\ gateway[g].ours
        /\ Len(ls) \in 1..MaxSupportedGatewayListeners
        /\ \A i \in DOMAIN ls :
             /\ ls[i].protocol = "TCP" /\ ls[i].name # NoName /\ ls[i].port # 0
             /\ \A j \in DOMAIN ls : j # i => ls[j].name # ls[i].name /\ ls[j].port # ls[i].port
        /\ Len(v.addresses) = 1 /\ v.addresses[1].type = "IPAddress"

\* The frontends of the address, by listener name.
gatewayToFrontendMap(g, v) ==
    IF gatewaySupported(g, v) /\ v.addresses[1].value # NoName
      THEN {[vip |-> v.addresses[1].value,
             listener |-> gateway[g].listeners[i].name, port |-> gateway[g].listeners[i].port] :
              i \in DOMAIN gateway[g].listeners}
      ELSE {}

-----------------------------------------------------------------------------
(* The CoreDNS plugin *)

\* Unlike the agent, it takes any number of addresses, and an absent type for
\* IPAddress.
ipv4Addresses(v) ==
    {v.addresses[i].value : i \in {j \in DOMAIN v.addresses :
        v.addresses[j].type # "Hostname" /\ v.addresses[j].value # NoName}}

\* A lookup that forgets about the class of the Gateway.
lookupGateway_AnyClass(namespace, name, cache) ==
    IF /\ namespace = "default" /\ name \in Gateways
       /\ gateway[name].exists /\ ~cache[name].deleting
      THEN [found |-> TRUE, addresses |-> ipv4Addresses(cache[name])]
      ELSE [found |-> FALSE, addresses |-> {}]

\* "default" is the namespace of the Gateways.
lookupGateway(namespace, name, cache) ==
    IF /\ namespace = "default" /\ name \in Gateways
       /\ gateway[name].exists /\ ~cache[name].deleting /\ gateway[name].ours
      THEN [found |-> TRUE, addresses |-> ipv4Addresses(cache[name])]
      ELSE [found |-> FALSE, addresses |-> {}]

\* Of the labels above the zone, exactly a name and a namespace.
parseGatewayQuery(labels) == Len(labels) = 2

writeAResponse(addresses) == [rcode |-> "NOERROR", answer |-> addresses]
writeNegative(rcode) == [rcode |-> rcode, answer |-> {}]

\* The response to a query for a name in the zone, by its labels above the zone.
ServeDNS(synced, labels, qtype, cache) ==
    IF ~synced THEN writeNegative("SERVFAIL")
    ELSE IF qtype = "SOA" /\ labels = <<>> THEN [rcode |-> "NOERROR", answer |-> {"SOA"}]
    ELSE IF ~parseGatewayQuery(labels) THEN writeNegative("NXDOMAIN")
    ELSE LET gw == lookupGateway(labels[2], labels[1], cache)
         IN  IF ~gw.found THEN writeNegative("NXDOMAIN")
             ELSE IF qtype # "A" THEN writeNegative("NOERROR")
             ELSE IF gw.addresses = {} THEN writeNegative("NXDOMAIN")
             ELSE writeAResponse(gw.addresses)

-----------------------------------------------------------------------------
(* Users *)

editClass(c) == class' = c /\ UNCHANGED <<gateway, route, selector>>

editGateway(g, o) == gateway' = [gateway EXCEPT ![g] = o] /\ UNCHANGED <<class, route, selector>>

editRoute(r, o) == route' = [route EXCEPT ![r] = o] /\ UNCHANGED <<class, gateway, selector>>

editSelector(s, x) == selector' = [selector EXCEPT ![s] = x] /\ UNCHANGED <<class, gateway, route>>

Init ==
    /\ class = "absent"
    /\ gateway = [g \in Gateways |-> NoGateway]
    /\ route = [r \in Routes |-> NoRoute]
    /\ selector = [s \in Selectors |-> "absent"]

Next ==
    \/ \E c \in {"absent", "ours", "foreign"} : editClass(c)
    \/ \E g \in Gateways, o \in GatewaySpecs \cup {NoGateway} : editGateway(g, o)
    \/ \E r \in Routes, o \in RouteSpecs \cup {NoRoute} : editRoute(r, o)
    \/ \E s \in Selectors, x \in {"absent", "invalid", "valid"} : editSelector(s, x)

Spec == Init /\ [][Next]_vars

-----------------------------------------------------------------------------
(* Properties *)

ownGateways == {g \in Gateways : gateway[g].exists /\ gateway[g].ours}

\* The EndpointSlice of a Gateway listener is named after the two and not after
\* the selector: at most one XEndpointSelector may want it, or the reconciles
\* of two selectors would overwrite each other's backends for ever.
OneSelectorPerListener ==
    \A s, t \in Selectors :
        desiredEndpointSlices(s) \cap desiredEndpointSlices(t) # {} => s = t

\* evaluateGateway and gatewayBindingForRoute agree, although they search from
\* opposite ends: unless spec.addresses is set, the listeners that get an
\* EndpointSlice are exactly those whose status says Accepted.
SlicesMatchUsableListeners ==
    \A g \in ownGateways : ~gateway[g].addresses =>
        usableListeners(g) =
          {b.listener : b \in {x \in UNION {desiredEndpointSlices(s) : s \in Selectors} :
                                 x.gateway = g}}

\* The agent programs what the controller accepts: a Gateway that
\* evaluateGateway calls valid and that got an address is supported by
\* gatewaySupported, every usable listener is a frontend, and no two frontends
\* share a port of the address.
AcceptedIsProgrammable ==
    \A g \in ownGateways, vip \in Vips : evaluateGateway(g) =>
        LET frontends ==
              gatewayToFrontendMap(g, [deleting |-> FALSE, addresses |-> published(g, vip)])
        IN  /\ \A i \in usableListeners(g) :
                 \E f \in frontends : f.listener = gateway[g].listeners[i].name
            /\ \A e, f \in frontends : e.port = f.port => e = f

\* What the agent programs resolves to the address it is programmed for,
\* whatever addresses the cached status carries: out of date, of another type,
\* more than one, or left behind by another controller.
ProgrammedResolves ==
    \A cache \in [Gateways -> Views], g \in Gateways :
        \A f \in gatewayToFrontendMap(g, cache[g]) :
            ServeDNS(TRUE, <<g, "default">>, "A", cache).answer = {f.vip}

\* The status of g is the controller's last word on the current configuration,
\* with or without an address.  What a Gateway of another class, or one that is
\* being deleted, publishes is not up to this controller.
settledView(g, v) ==
    \/ v.deleting \/ ~gateway[g].ours
    \/ \E vip \in Vips \cup {NoName} : v.addresses = published(g, vip)

\* Every answer is an address for which the agent has a frontend whose listener
\* has an EndpointSlice.
AnswersReachable ==
    \A cache \in [Gateways -> Views] : (\A g \in Gateways : settledView(g, cache[g])) =>
        \A x, y \in Gateways \cup {"default"}, synced \in BOOLEAN :
          \A vip \in ServeDNS(synced, <<x, y>>, "A", cache).answer :
            \E s \in Selectors, f \in gatewayToFrontendMap(x, cache[x]) :
              \E b \in desiredEndpointSlices(s) :
                /\ f.vip = vip /\ b.gateway = x
                /\ gateway[x].listeners[b.listener].name = f.listener

\* The plugin and the agent, which check class, deletion, status and listeners
\* each in its own way, serve the same Gateways: what the agent programs
\* resolves, to the same address, in every state of the cached status; and once
\* the status is up to date what resolves leads somewhere, although the plugin
\* never looks at listeners, routes or selectors - no name of a Gateway that is
\* rejected, of another class, being deleted, or accepted without an address
\* resolves to an address nobody serves.
ResolvedIsReachable == ProgrammedResolves /\ AnswersReachable

=============================================================================
