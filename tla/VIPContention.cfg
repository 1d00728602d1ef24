SPECIFICATION Spec
CONSTANTS
  g1 = g1
  g2 = g2
  w1 = w1
  w2 = w2
  None = None
  Service = Service
  Gateways = {g1, g2}
  Workers = {w1, w2}
  Pool = {1}
  NameRank <- ReversedNames
  MaxEdits = 1
  MaxFailures = 0
  MaxRestarts = 0
SYMMETRY Symmetry
INVARIANTS
  QuiescentAccepted
  PublishedWasGranted
  SharingIsTransient
PROPERTY DeletesWereGranted
