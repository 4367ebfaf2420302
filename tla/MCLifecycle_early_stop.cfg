CONSTANTS
    a = a
    b = b
    Name = {a}
    Interval = {1}
    Overlap = TRUE
    ShutdownTimeout = FALSE
    MaxTime = 3
    Dashboards = FALSE
    Storages = {"sqlite"}
    MaxLives = 1
    MaxFaults = 0
SPECIFICATION LifecycleSpec
INVARIANT StopWaits
\* The system stops when the last process has ended.
CHECK_DEADLOCK FALSE
