SPECIFICATION EventSpec
CONSTANTS
  f1 = f1
  f2 = f2
  a1 = a1
  a2 = a2
  b1 = b1
  b2 = b2
  None = None
  Missing = Missing
  Frontends = {f1}
  GatewayStates = {a1}
  SliceStates = {b1}
  MaxEdits = 2
  MaxFaults = 2
  MaxRestarts = 1
INVARIANTS
  TypeOK
  NoLostUpdate
  QuietIsProgrammed
PROPERTIES
  ProgrammedByEvents
  ProgrammedWithTicker
