\* The NVS functions under every interleaving of two tasks and one failure.
SPECIFICATION Spec
CONSTANTS
    Task = {"gpio_task", "httpd"}
    Key = {"CONFIG", "mode", "cons"}
    Value = {0, 1}
    NoEntry = NoEntry
    NoHandle = NoHandle
    MaxFaults = 1
    Calls <- MCCalls
INVARIANTS TypeOK OnlyGetStrLeaks
PROPERTIES SaveU32OkIsDurable IsStore
