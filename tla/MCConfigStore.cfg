\* Two browsers, resets between any two steps, one failure.
SPECIFICATION FairSpec
CONSTANTS
    Client = {c1, c2}
    Config = {k1, k2}
    Erased = Erased
    Damaged = Damaged
    Missing = Missing
    None = None
    MaxFaults = 1
INVARIANTS TypeOK OnlyDeletionPanics PageSurvives
PROPERTIES IsRegister EveryRequestEnds
