SPECIFICATION Spec
CONSTANTS
    Replicas = {r1, r2}
    Docs = {d1}
    Tokens = {t1}
    Codes = {c1}
    Contents = {h1, h2}
    customer = customer
    contractor = contractor
    Users <- MCUsers
    Customer <- MCCustomer
    Contractor <- MCContractor
    LinkDoc <- MCLinkDoc
    ShortLinks = {t1}
    None = None
    OtpAttemptLimit = 2
    MaxCodes = 1
    MaxFaults = 1
CHECK_DEADLOCK FALSE
INVARIANT TypeOK
INVARIANT RecordBacked
INVARIANT OneConfirmationPerLink
INVARIANT CodeSignsOnce
INVARIANT SignedVersionWasSent
INVARIANT SignatureIsAnnounced
SYMMETRY MCSymmetry
