SPECIFICATION FairSpec
CONSTANTS
  Threshold = 1
  Options <- MCOptions
  ComFeed <- MCComFeed
  NetFeeds <- MCNetFeeds
  BufSize = 2
  DsrChanges = 1
  FaultKinds = {"open", "issue", "op"}
CHECK_DEADLOCK FALSE
INVARIANT Faithful
INVARIANT Bounded
PROPERTY CloseEnds
