---------------------- MODULE MCEndpointSliceController ----------------------
EXTENDS EndpointSliceController, TLC

CONSTANTS s1, s2, g1, g2, l1, l2

\* One Gateway with one listener.
OneListener == {<<g1, l1>>}

\* Gateway "a" with listener "b-c" and Gateway "a-b" with listener "c": two
\* Gateways, one listener each, one slice name.
TwoGateways == {<<g1, l1>>, <<g2, l2>>}

DistinctNames == [b \in Bindings |-> b]
OneName == [b \in Bindings |-> "a-b-c"]

MCRank == [b \in Bindings |-> IF b = <<g1, l1>> THEN 1 ELSE 2]

=============================================================================
