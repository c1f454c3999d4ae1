\* The handle of a read that finds no entry.
SPECIFICATION Spec
CONSTANTS
    Task = {"gpio_task", "httpd"}
    Key = {"CONFIG", "mode", "cons"}
    Value = {0, 1}
    NoEntry = NoEntry
    NoHandle = NoHandle
    MaxFaults = 0
    Calls <- MCCalls
INVARIANT HandlesAreClosed
