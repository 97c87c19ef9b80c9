SPECIFICATION Spec
CONSTANTS
    Replicas = {r1, r2}
    Docs = {d1, d2}
    FineTimes = {TRUE, FALSE}
    MaxEvents = 4
    MaxFaults = 1
CHECK_DEADLOCK FALSE
INVARIANT TypeOK
INVARIANT VerifiesPrefixesOfChains
SYMMETRY MCSymmetry
