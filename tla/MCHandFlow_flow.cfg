SPECIFICATION FairSpec
CONSTANTS
  Wiring <- Custom
  Hands <- Mixed
  Controls <- Out1
  Purges <- Aborts
  Calls <- Some
  Size = 3
  TxSize = 2
  Lengths = {2}
  MaxCalls = 3
  MaxTurns = 4
INVARIANT HoldingFollows
INVARIANT SignalFollows
INVARIANT NoWakeUpLeft
INVARIANT Hysteresis
INVARIANT NoneStranded
PROPERTY Drains
