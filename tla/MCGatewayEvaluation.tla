------------------------- MODULE MCGatewayEvaluation -------------------------
EXTENDS GatewayEvaluation, TLC

CONSTANTS g1, r1, r2, s1, s2, n1, n2, n3, v1, v2

listener(n, p) == [name |-> n, port |-> p, protocol |-> "TCP", allowedRoutes |-> "unset"]
good == listener(n1, 1)

\* One fault per listener list, and the combinations of names and ports that
\* section and port selectors can tell apart.
MCListenerLists ==
    {<<>>, <<good>>, <<good, listener(n2, 2)>>, <<listener(n2, 2), listener(n1, 1)>>,
     <<good, listener(n2, 1)>>, <<good, listener(n1, 2)>>,
     <<good, listener(n2, 2), listener(n3, 3)>>,
     <<good, listener(NoName, 2)>>, <<listener(n1, 0)>>,
     <<[good EXCEPT !.protocol = "UDP"]>>, <<[good EXCEPT !.allowedRoutes = "kinds"]>>,
     <<[good EXCEPT !.allowedRoutes = "selector"]>>, <<[good EXCEPT !.allowedRoutes = "All"]>>,
     <<[good EXCEPT !.allowedRoutes = "Same"]>>}

MCGatewaySpecs ==
    LET of(ls) == [exists |-> TRUE, ours |-> TRUE, addresses |-> FALSE, listeners |-> ls]
    IN  {of(ls) : ls \in MCListenerLists} \cup
        {[of(<<good, listener(n2, 2)>>) EXCEPT !.addresses = TRUE],
         [of(<<good, listener(n2, 2)>>) EXCEPT !.ours = FALSE]}

parent(g, n, p) == [gateway |-> g, section |-> n, port |-> p]

\* By name, by port, by both, by neither, by a name and a port that contradict
\* each other, another Gateway, and two parentRefs in both orders.
MCParentLists ==
    {<<>>, <<parent(g1, n1, NoName)>>, <<parent(g1, n2, NoName)>>, <<parent(g1, NoName, 2)>>,
     <<parent(g1, n1, 1)>>, <<parent(g1, n1, 2)>>, <<parent(g1, NoName, NoName)>>,
     <<parent(NoName, n1, NoName)>>,
     <<parent(g1, n1, NoName), parent(g1, n2, NoName)>>,
     <<parent(NoName, n1, NoName), parent(g1, n2, NoName)>>,
     <<parent(g1, NoName, NoName), parent(g1, n2, NoName)>>}

MCRouteSpecs ==
    LET of(ps, s) == [exists |-> TRUE, sameNamespace |-> TRUE, parentRefs |-> ps,
                      backend |-> "selector", backendRef |-> s]
        plain == of(<<parent(g1, n1, NoName)>>, s1)
    IN  {of(ps, s) : ps \in MCParentLists, s \in {s1, s2}} \cup
        {[plain EXCEPT !.sameNamespace = FALSE]} \cup
        {[plain EXCEPT !.backend = b] : b \in BackendShape}

\* One address, none, two, and every type and value an address may have.
MCViews ==
    LET address(t, v) == [type |-> t, value |-> v]
    IN  [deleting : BOOLEAN,
         addresses : {<<>>, <<address("IPAddress", v1)>>, <<address("IPAddress", v2)>>,
                      <<address("unset", v1)>>, <<address("Hostname", NoName)>>,
                      <<address("IPAddress", NoName)>>,
                      <<address("IPAddress", v1), address("IPAddress", v2)>>,
                      <<address("Hostname", NoName), address("IPAddress", v1)>>}]

MCSymmetry == Permutations({r1, r2})

=============================================================================
