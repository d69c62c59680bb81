SPECIFICATION Spec
CONSTANTS
  Irps = {i1, i2, i3, i4}
  Workers = {w1}
  Kinds = {"WRITE", "XOFF_COUNTER", "IMMEDIATE_CHAR"}
  Length = 1
  Timeouts = "none"
  Cancellable = {}
  MaxPasses = 1
  None = None
INVARIANT OneList
SYMMETRY Symmetric
