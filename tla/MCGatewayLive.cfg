\* A press is served and the access point comes up, one call failing.
\* The device may stop: in operation mode, without gpio_task or without its
\* interrupt, nothing runs.
SPECIFICATION FairSpec
CONSTANTS
    Task = {"main", "gpio_task", "httpd"}
    Key = {"CONFIG", "mode", "cons"}
    Value = {0, 1}
    NoEntry = NoEntry
    NoHandle = NoHandle
    MaxFaults = 1
    QueueLength = 2
    PowerCuts = FALSE
PROPERTIES PressReachesSetup SetupComesUp
CHECK_DEADLOCK FALSE
