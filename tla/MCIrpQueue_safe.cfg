SPECIFICATION Spec
CONSTANTS
  Irps = {i1, i2}
  Workers = {w1}
  Kinds = {"READ", "WAIT_ON_MASK", "WRITE", "IMMEDIATE_CHAR", "FLUSH", "XOFF_COUNTER"}
  Length = 2
  Timeouts = "total"
  Cancellable = {i1}
  MaxPasses = 1
  None = None
SYMMETRY Symmetric
INVARIANT Ownership
INVARIANT AtMostOnce
INVARIANT OneList
INVARIANT NoneLost
INVARIANT TimerCovers
