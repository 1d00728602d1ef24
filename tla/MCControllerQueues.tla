------------------------- MODULE MCControllerQueues -------------------------
EXTENDS ControllerQueues, TLC

CONSTANTS g1, r1, r2, s1, s2, n1

\* One listener, and the same Gateway with spec.addresses.
MCGatewaySpecs ==
    {[exists |-> TRUE, ours |-> TRUE, addresses |-> a,
      listeners |-> <<[name |-> n1, port |-> 1, protocol |-> "TCP", allowedRoutes |-> "unset"]>>] :
       a \in BOOLEAN}

\* Both routes may want the listener, for either selector.
MCRouteSpecs ==
    {[exists |-> TRUE, sameNamespace |-> TRUE,
      parentRefs |-> <<[gateway |-> g1, section |-> n1, port |-> NoName]>>,
      backend |-> "selector", backendRef |-> s] : s \in {s1, s2}}

\* Routes and selectors are interchangeable.  The settled configuration to
\* start from is the one where the routes dispute the listener: every other is
\* an edit away.
MCInit ==
    /\ QueueInit
    /\ route[r1].exists /\ route[r1].backendRef = s1
    /\ route[r2].exists /\ route[r2].backendRef = s2

MCSpec == MCInit /\ [][QueueNext]_queueVars /\ QueueFairness

=============================================================================
