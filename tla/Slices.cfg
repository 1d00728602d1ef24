SPECIFICATION FairSpec
CONSTANTS
  s1 = s1
  s2 = s2
  g1 = g1
  g2 = g2
  l1 = l1
  l2 = l2
  None = None
  Selectors = {s1, s2}
  Bindings <- OneListener
  SliceName <- DistinctNames
  Rank <- MCRank
  MaxEdits = 3
  MaxFailures = 1
  MaxRelists = 1
  MaxRestarts = 1
  MaxLag = 3
INVARIANTS
  TypeOK
  QuiescentSlices
PROPERTIES
  HandoverByDeletion
  Converges
