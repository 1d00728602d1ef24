---- MODULE MCProxier ----
EXTENDS Proxier

Symmetry == Permutations(Frontends) \cup Permutations(GatewayStates)
====
