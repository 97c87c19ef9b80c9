SPECIFICATION LoginSpec
CONSTANTS
    Replicas = {r1, r2}
    alice = alice
    bob = bob
    carol = carol
    s1 = s1
    s2 = s2
    s3 = s3
    Users <- MCUsers
    SessionTokens <- MCTokens
    Foreign <- MCForeign
    Owner <- MCOwner
    MaxFaults = 0
    Browsers = {b1, b2}
    States = {q1, q2}
    None = None
CHECK_DEADLOCK FALSE
INVARIANT LoggedOutEverywhere
SYMMETRY MCSymmetry
