SPECIFICATION FairSpec
CONSTANTS
    Connections = {c1, c2}
    Users = {u1}
    Limit <- MCLimit
    PlanCodes <- MCPlanCodes
    StatusCodes <- MCStatusCodes
    MaxTime = 2
    MaxCommits = 4
    None = None
CHECK_DEADLOCK FALSE
INVARIANT TypeOK
INVARIANT WithinLimit
INVARIANT HoldersGoOn
INVARIANT UsedIsCount
INVARIANT QuotaPerPeriod
PROPERTY TransactionsEnd
