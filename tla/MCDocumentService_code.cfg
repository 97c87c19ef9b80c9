SPECIFICATION Spec
CONSTANTS
    Replicas = {r1, r2}
    Docs = {d1}
    Tokens = {t1}
    Codes = {c1}
    Contents = {h1, h2}
    customer = customer
    contractor = contractor
    Users <- MCUsers
    Customer <- MCCustomer
    Contractor <- MCContractor
    LinkDoc <- MCLinkDoc
    ShortLinks <- MCNoLinks
    None = None
    OtpAttemptLimit = 2
    MaxCodes = 1
    MaxFaults = 0
CHECK_DEADLOCK FALSE
INVARIANT ValidCodeNotRejected
