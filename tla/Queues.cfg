SPECIFICATION MCSpec
CHECK_DEADLOCK FALSE
CONSTANTS
  g1 = g1
  r1 = r1
  r2 = r2
  s1 = s1
  s2 = s2
  n1 = n1
  NoName = NoName
  Class = Class
  Gateways = {g1}
  Routes = {r1, r2}
  Selectors = {s1, s2}
  Names = {n1}
  Vips = {}
  Views = {}
  GatewaySpecs <- MCGatewaySpecs
  RouteSpecs <- MCRouteSpecs
  MaxSupportedGatewayListeners = 2
  MaxEdits = 2
  ClassSpecs = {"absent", "ours"}
  SelectorSpecs = {"invalid", "valid"}
INVARIANTS
  GatewaysCurrent
  EditsPropagate
PROPERTY VerdictsConverge
