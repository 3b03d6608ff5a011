CONSTANTS
    Threads = 2
    Processes = 1
    MaxTasks = 5
    MaxPools = 2
    MaxFns = 2
SPECIFICATION Spec
INVARIANTS NoStarvation CallDone
\* The bound on submissions lets the pipeline run out of work, and tasks may wait for
\* the future that nothing completes.
CHECK_DEADLOCK FALSE
