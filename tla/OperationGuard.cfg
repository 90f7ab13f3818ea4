SPECIFICATION FairSpec
CONSTANTS
    Callers = {c1, c2, c3}
    Keys <- MCKeys
INVARIANTS TypeOK MutualExclusion WaitingClimbs
PROPERTIES EveryCallerRuns KeepsPromise
