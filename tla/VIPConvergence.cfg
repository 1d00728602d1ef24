SPECIFICATION FairSpec
CONSTANTS
  g1 = g1
  g2 = g2
  w1 = w1
  w2 = w2
  None = None
  Service = Service
  Gateways = {g1, g2}
  Workers = {w1}
  Pool = {1}
  NameRank <- ReversedNames
  MaxEdits = 1
  MaxFailures = 1
  MaxRestarts = 0
PROPERTY Converges
