\* A read without a file, while nothing fails.
SPECIFICATION Spec
CONSTANTS
    Client = {c1, c2}
    Config = {k1, k2}
    Erased = Erased
    Damaged = Damaged
    Missing = Missing
    None = None
    MaxFaults = 0
INVARIANT ReadIsAnswered
