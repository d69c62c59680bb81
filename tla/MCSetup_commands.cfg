SPECIFICATION FairSpec
CONSTANTS
    Dwords <- MCDwords
    KindOf <- MCKinds
    ProbabilityOne = 100
    DwordBits = 8
    Slots = {1, 2}
    MaxNum = 2
    ComOrder <- MCComs
    FaultKinds <- AllCalls
    MaxFaults = 1
    Patience = 1
    Strangers = 1
    Cases <- MCCases
    SilentModes = {FALSE, TRUE}
INVARIANT OneNumber
INVARIANT Restored
INVARIANT NothingLeft
INVARIANT LogAgrees
PROPERTY Returns
