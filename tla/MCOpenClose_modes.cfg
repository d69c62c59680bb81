SPECIFICATION FairSpec
CONSTANTS
  a = a
  b = b
  Port <- Pair
  Remote <- Other
  PlugIn = {a}
  Exclusive = {b}
  User = {u1, u2}
  NoPort = NoPort
INVARIANT SessionState
INVARIANT SettlesRight
PROPERTY CloseReturns
