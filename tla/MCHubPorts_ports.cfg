SPECIFICATION FairSpec
CONSTANTS
  Wrap = 64
  InOf <- NoIn
  OutOf <- NoOut
  HasIn <- Never
  HasOut <- Never
  Setups = {"dial_out", "shared_client", "shared", "relay", "bank"}
  Worlds <- MCWorlds
  MaxPorts = 3
  Backlog = 99
  FaultKinds = {"read", "write", "open", "connect"}
  MaxFaults = 1
  Refusals = TRUE
CHECK_DEADLOCK FALSE
INVARIANT CountersAgree
INVARIANT InOrder
PROPERTY XoffEnds
PROPERTY OpensWhenWanted
