SPECIFICATION Spec
CONSTANTS
  Caller = {a, b}
  Text = {x, y}
  Lists <- MCLists
  Dim = {d1, d2}
  ChunkSize = 2
  None = None
SYMMETRY Symmetry
INVARIANTS PaidVectorsAreKept OnlyTheRestIsSent
