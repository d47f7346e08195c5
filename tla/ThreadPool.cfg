\* Three workers, so that one can be stopping, one busy and one asleep; four tasks, so that the
\* queue outgrows the workers; one thread that may call waitForDone.
CONSTANTS
    NumWorkers = 3
    MaxTasks = 4
    Waiters = {caller}
    caller = caller
SPECIFICATION FairSpec
INVARIANTS
    ExactlyOnceInOrder
    NoLostWakeup
    DestroyedIsQuiet
PROPERTIES
    ImplementsTaskService
    EveryTaskRuns
    DestructorReturns
\* A destroyed pool does nothing more.
CHECK_DEADLOCK FALSE
