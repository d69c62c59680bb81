SPECIFICATION FairSpec
CONSTANTS
  Chars = {"a", "bad"}
  Stripped = {}
  Escaped = {}
  Damaged = {"bad"}
  InsertLsr = FALSE
  ErrorChar = TRUE
  EmuOverrun = TRUE
  RawSequences <- NoSequences
  Sizes = {3}
  TxSize = 3
  InsertSize = 7
  XoffLimits = {2}
  WriteInputs <- WithDamage
  ReadLengths = {2}
  MaxWrites = 2
  MaxReads = 1
  Budgets <- Paced
  Unlimited = 99
  Holds = {TRUE, FALSE}
INVARIANT ChunksFit
PROPERTY KeepsPromise
PROPERTY LimitRespected
PROPERTY PassEnds
