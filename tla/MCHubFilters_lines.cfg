SPECIFICATION Spec
CONSTANTS
  Wrap = 256
  InOf <- FilterIn
  OutOf <- FilterOut
  HasIn <- FilterHasIn
  HasOut <- FilterHasOut
  Setups = {"awak", "esc", "rfc2217", "pin2con", "mux", "answers"}
  Worlds <- MCWorlds
  MaxPorts = 8
  Backlog = 3
  FaultKinds = {}
  MaxFaults = 0
  Refusals = FALSE
CHECK_DEADLOCK FALSE
INVARIANT Transparent
INVARIANT OutputsFollow
INVARIANT EachAnswered
INVARIANT ConnectionsAgree
