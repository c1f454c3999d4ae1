\* Every interleaving of the three tasks, power cuts and two failed calls.
SPECIFICATION Spec
CONSTANTS
    Task = {"main", "gpio_task", "httpd"}
    Key = {"CONFIG", "mode", "cons"}
    Value = {0, 1}
    NoEntry = NoEntry
    NoHandle = NoHandle
    MaxFaults = 2
    QueueLength = 1
    PowerCuts = TRUE
INVARIANTS TypeOK StaleModeIsRestarted OneFaultKeepsThePress FaultlessSavesAreDurable LeakEndsInRestart
PROPERTIES SetupModeIsAbsorbing LossNeedsAFault IsStore
