SPECIFICATION Spec
CONSTANTS
    MaxThreads = 3
    MaxCount = 7
INVARIANTS
    NoSendOnClosed
PROPERTIES
    CallerReturns
\* The caller has returned, and the goroutines it left behind are blocked.
CHECK_DEADLOCK FALSE
