\* Heaps from none to what serves a few commands.
SPECIFICATION Spec
CONSTANTS
    Size <- BlockSize
    MaxHeap = 24
    MaxDone = 5
    None = None
INVARIANTS TypeOK NothingDangles LossIsKnown ShortNeedsCommands CommandsAreNumbered
