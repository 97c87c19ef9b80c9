SPECIFICATION Spec
CONSTANTS
    Replicas = {r1, r2}
    Codes = {c1, c2}
    request = request
    confirm = confirm
    Keys <- MCKeys
    RequestKey = request
    ConfirmKey = confirm
    Limit <- MCLimit
    Minute = 2
    TableSize = 1
    MaxTime = 4
    OtpAttemptLimit = 2
    MaxFaults = 1
    None = None
CHECK_DEADLOCK FALSE
INVARIANT TypeOK
INVARIANT WrongCodesAreBounded
INVARIANT AtMostTwoWindows
INVARIANT RefusalsAreEarned
PROPERTY FullOfLiveWindows
SYMMETRY MCSymmetry
