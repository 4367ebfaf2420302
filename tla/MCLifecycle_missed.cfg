CONSTANTS
    a = a
    b = b
    Name = {a}
    Interval = {1}
    Overlap = FALSE
    ShutdownTimeout = FALSE
    MaxTime = 3
    Dashboards = FALSE
    Storages = {"sqlite"}
    MaxLives = 2
    MaxFaults = 0
SPECIFICATION LifecycleSpec
PROPERTY DueRunsNotSkipped
\* The system stops when the last process has ended.
CHECK_DEADLOCK FALSE
