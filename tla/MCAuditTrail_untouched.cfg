SPECIFICATION Spec
CONSTANTS
    Replicas = {r1, r2}
    Docs = {d1, d2}
    FineTimes = {FALSE}
    MaxEvents = 2
    MaxFaults = 0
CHECK_DEADLOCK FALSE
INVARIANT UntouchedVerifies
