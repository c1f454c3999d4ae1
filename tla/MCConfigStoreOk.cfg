\* A save or a reinitialisation whose storing fails.
SPECIFICATION Spec
CONSTANTS
    Client = {c1, c2}
    Config = {k1, k2}
    Erased = Erased
    Damaged = Damaged
    Missing = Missing
    None = None
    MaxFaults = 1
INVARIANT OkIsStored
