\* Two browsers, a list of one network, resets between any two steps.  A
\* browser whose socket is closed and whose user is done has nothing to do.
SPECIFICATION Spec
CONSTANTS
    Page = {p1, p2}
    Ssid = {s1}
    Password = {w1}
    Erased = Erased
    Damaged = Damaged
    Missing = Missing
    None = None
    ListSize = 1
    MaxFound = 3
    MaxClicks = 2
INVARIANTS TypeOK UndefinedNeedsSecondSave StoredPairIsKnown OneLateOverwrite ScriptFailsOnlyBeyondList
