SPECIFICATION Spec
CONSTANTS
  Call = {c1, c2}
  Impl = {duckdb, postgres, sql}
  Value = {v1, v2}
  Inputs = {i1, i2}
  None = None
  MaxComputations = 3
SYMMETRY Symmetry
INVARIANTS FactHasEvidence AuditMatchesFact
CHECK_DEADLOCK FALSE
