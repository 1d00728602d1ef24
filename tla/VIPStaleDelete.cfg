SPECIFICATION Spec
CONSTANTS
  g1 = g1
  g2 = g2
  w1 = w1
  w2 = w2
  None = None
  Service = Service
  Gateways = {g1}
  Workers = {w1}
  Pool = {1, 2}
  NameRank <- ReversedNames
  MaxEdits = 2
  MaxFailures = 0
  MaxRestarts = 0
PROPERTY ServiceReservationsUntouched
