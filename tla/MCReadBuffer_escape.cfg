SPECIFICATION Spec
CONSTANTS
  Chars = {"a", "b", "esc"}
  Stripped = {}
  Escaped = {"esc"}
  Damaged = {"b"}
  InsertLsr = TRUE
  ErrorChar = FALSE
  EmuOverrun = FALSE
  RawSequences <- OneSequence
  Sizes = {2, 4}
  TxSize = 3
  InsertSize = 7
  XoffLimits = {}
  WriteInputs <- WithEscape
  ReadLengths = {3}
  MaxWrites = 1
  MaxReads = 1
  Budgets <- Unpaced
  Unlimited = 99
  Holds = {FALSE}
PROPERTY KeepsPromise
