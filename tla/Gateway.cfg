SPECIFICATION FairSpec
CONSTANTS
  Caller = {a, b}
  Reply = {good1, good2, bad}
  Valid = {good1, good2}
  MaxRetries = 1
  MaxSchemaRetries = 1
  None = None
  MaxCalls = 2
INVARIANTS LogTellsCall RequestsBounded
PROPERTIES CallsEnd
CHECK_DEADLOCK FALSE
