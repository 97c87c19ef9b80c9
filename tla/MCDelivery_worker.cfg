SPECIFICATION Spec
CONSTANTS
    NumEvents = 1
    Publishers = {p1}
    Workers = {w1}
    BatchLimit = 1
    MaxFaults = 1
CHECK_DEADLOCK FALSE
INVARIANT AckedWasSent
