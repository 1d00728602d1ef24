---- MODULE MCGatewayController ----
EXTENDS GatewayController, TLC

\* The names of consecutive addresses need not sort in allocation order
\* ("10.96.0.10" < "10.96.0.9"): here they sort in the opposite order.
ReversedNames == [a \in Pool |-> 9 - a]

Symmetry == Permutations(Gateways) \cup Permutations(Workers)
====
