\* The retry that overtakes the end of a test.
SPECIFICATION Spec
CONSTANTS
    AP = {a1, a2}
    NoSsid = NoSsid
    MaxEvents = 3
INVARIANT ClearSucceeds
