\* A failed nvs_set_str behind a successful nvs_commit.
SPECIFICATION Spec
CONSTANTS
    Task = {"gpio_task", "httpd"}
    Key = {"CONFIG", "mode", "cons"}
    Value = {0, 1}
    NoEntry = NoEntry
    NoHandle = NoHandle
    MaxFaults = 1
    Calls <- MCCalls
PROPERTY SaveStrOkIsDurable
