SPECIFICATION Spec
CONSTANTS
  s1 = s1
  s2 = s2
  g1 = g1
  g2 = g2
  l1 = l1
  l2 = l2
  None = None
  Selectors = {s1, s2}
  Bindings <- TwoGateways
  SliceName <- OneName
  Rank <- MCRank
  MaxEdits = 1
  MaxFailures = 0
  MaxRelists = 0
  MaxRestarts = 0
  MaxLag = 3
INVARIANT OneSlicePerBinding
