SPECIFICATION Spec
CONSTANTS
    Requests = {r1, r2, r3}
    MaxSignals = 2
    QueueSize = 2
INVARIANTS
    NobodyCutOff
    TracesHandedOver
PROPERTIES
    StopsWhenTold
\* The process ends.
CHECK_DEADLOCK FALSE
