SPECIFICATION Spec
CONSTANTS
  Irps = {i1, i2, i3}
  Workers = {w1}
  Kinds = {"WRITE", "FLUSH", "IMMEDIATE_CHAR"}
  Length = 2
  Timeouts = "none"
  Cancellable = {}
  MaxPasses = 2
  None = None
INVARIANT AmountExact
PROPERTY OrderPreserved
PROPERTY FlushBarrier
SYMMETRY Symmetric
