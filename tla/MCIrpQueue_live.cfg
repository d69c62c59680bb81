SPECIFICATION FairSpec
CONSTANTS
  Irps = {i1, i2}
  Workers = {w1}
  Kinds = {"READ", "WAIT_ON_MASK"}
  Length = 1
  Timeouts = "total"
  Cancellable = {i1}
  MaxPasses = 1
  None = None
PROPERTY TimeoutCompletes
PROPERTY CancelCompletes
