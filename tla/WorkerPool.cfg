SPECIFICATION FairSpec
CONSTANTS
    Worker = {w1, w2}
    Task = {t1, t2}
INVARIANTS
    QuietAfterStop
PROPERTIES
    AwakeWorkersDrain
    OnlySleepersBlockStop
\* A pool whose workers have all stopped takes no step.
CHECK_DEADLOCK FALSE
