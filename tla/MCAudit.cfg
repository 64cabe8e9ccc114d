SPECIFICATION FairSpec
CONSTANTS
  Writer = {w1, w2}
  c1 = c1
  c2 = c2
  Content = {c1, c2}
  Digest <- MCDigest
  GENESIS_HASH = 0
  EventHash <- MCEventHash
  Subject = {s1}
  None = None
  PerTransaction = 2
  MaxEvents = 4
INVARIANTS ChainVerifies EditReported RemovalReported
PROPERTIES TransactionsEnd
CHECK_DEADLOCK FALSE
