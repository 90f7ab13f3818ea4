SPECIFICATION Spec
CONSTANTS
    Coroutines = {c1}
    Users <- MCUsers
    Jobs <- MCJobs
    MaxCalls = 4
    MaxCrashes = 1
INVARIANTS TypeOK DiskExplained NothingLeftOpen ReturnedIsStored
PROPERTIES FileIsAtomic
CHECK_DEADLOCK FALSE
