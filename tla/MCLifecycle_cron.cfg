CONSTANTS
    a = a
    b = b
    Name = {a}
    Interval = {1, 2}
    Overlap = TRUE
    ShutdownTimeout = FALSE
    MaxTime = 3
    Dashboards = FALSE
    Storages = {"sqlite", "memory"}
    MaxLives = 2
    MaxFaults = 0
SPECIFICATION LifecycleSpec
INVARIANTS
    OrderlyStopWaits
    RegisteredAreHandled
PROPERTIES ForeignCronsUntouched RunsSpaced
\* The system stops when the last process has ended.
CHECK_DEADLOCK FALSE
