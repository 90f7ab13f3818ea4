SPECIFICATION Spec
CONSTANTS
    Coroutines = {c1, c2}
    Users <- MCUsers
    Jobs <- TwoCharges
    MaxCalls = 2
    MaxCrashes = 0
INVARIANTS ReturnedIsStored
CHECK_DEADLOCK FALSE
