SPECIFICATION Spec
CONSTANTS
    Pair = {i1}
    Device = {d1, d2}
    Call = {c1, c2}
    DIGIT_TRIES = 2
    MaxFaults = 1
    None = None
INVARIANTS
    RegisteredProvedItsKeys
    OneEnd
PROPERTY EveryPairingEnds
CHECK_DEADLOCK FALSE
