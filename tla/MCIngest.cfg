SPECIFICATION FairSpec
CONSTANTS
  Runner = {r1, r2}
  k1 = k1
  k2 = k2
  p1 = p1
  p2 = p2
  Key = {k1, k2}
  Pub = {p1, p2}
  Serves <- MCServes
  Version = {v1, v2}
  Provenance = "lookup"
  Unusable = Unusable
  NoRow = NoRow
INVARIANTS TypeOK OneDocumentPerPublication CrossChecksHold
PROPERTIES FinalOutcomesStand CompleteIsFrozen ImplementsContract BatchCompletes
