SPECIFICATION Spec
CONSTANTS
  g1 = g1
  r1 = r1
  r2 = r2
  s1 = s1
  s2 = s2
  n1 = n1
  n2 = n2
  n3 = n3
  NoName = NoName
  Gateways = {g1}
  Routes = {r1, r2}
  Selectors = {s1, s2}
  Names = {n1, n2, n3}
  v1 = v1
  v2 = v2
  Vips = {v1, v2}
  Views <- MCViews
  GatewaySpecs <- MCGatewaySpecs
  RouteSpecs <- MCRouteSpecs
  MaxSupportedGatewayListeners = 2
SYMMETRY MCSymmetry
INVARIANTS
  OneSelectorPerListener
  SlicesMatchUsableListeners
  AcceptedIsProgrammable
  ResolvedIsReachable
