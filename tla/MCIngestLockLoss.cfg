SPECIFICATION SpecLockLoss
CONSTANTS
  Runner = {r1, r2}
  k1 = k1
  k2 = k2
  p1 = p1
  p2 = p2
  Key = {k1, k2}
  Pub = {p1}
  Serves <- MCServesOne
  Version = {v1, v2}
  Provenance = "lookup"
  Unusable = Unusable
  NoRow = NoRow
SYMMETRY Symmetry
INVARIANTS RowsAddUp OneAdapterVersion
