SPECIFICATION Spec
CONSTANTS
  f1 = f1
  f2 = f2
  a1 = a1
  a2 = a2
  b1 = b1
  b2 = b2
  None = None
  Missing = Missing
  Frontends = {f1, f2}
  GatewayStates = {a1}
  SliceStates = {b1}
  MaxEdits = 1
  MaxFaults = 0
  MaxRestarts = 0
SYMMETRY Symmetry
INVARIANT ReadyHasInitialState
