SPECIFICATION Spec
CONSTANTS
    Replicas = {r1}
    Docs = {d1}
    Tokens = {t1, t2}
    Codes = {c1, c2}
    Contents = {h1, h2}
    customer = customer
    contractor = contractor
    Users <- MCUsers
    Customer <- MCCustomer
    Contractor <- MCContractor
    LinkDoc <- MCLinkDoc
    ShortLinks = {t1}
    None = None
    OtpAttemptLimit = 2
    MaxCodes = 2
    MaxFaults = 2
CHECK_DEADLOCK FALSE
INVARIANT LinkSignsItsVersion
INVARIANT SignsOncePerReplica
PROPERTY OriginalStaysOnceSent
PROPERTY ImplementsLifecycle
SYMMETRY MCContentSymmetry
