SPECIFICATION Spec
CONSTANTS
  Process = {p1, p2}
  Nobody = Nobody
  Pub <- MCPub
  Seeds <- MCSeeds
  Office <- MCOffice
  Countries = {"US"}
  Backward <- MCBackward
  Forward <- MCForward
  Verdict <- MCVerdict
  Settings <- MCSettings
  MaxBatches = 3
  MaxRuns = 1
INVARIANT ContinuesSameBatches
CHECK_DEADLOCK FALSE
