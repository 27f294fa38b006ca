SPECIFICATION Spec
CONSTANTS
    Requests = {r1}
    MaxSignals = 1
    QueueSize = 1
PROPERTIES
    InterruptStops
\* The process ends.
CHECK_DEADLOCK FALSE
