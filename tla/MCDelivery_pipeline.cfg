SPECIFICATION FairSpec
CONSTANTS
    NumEvents = 2
    Publishers = {p1, p2}
    Workers = {w1}
    BatchLimit = 2
    MaxFaults = 1
CHECK_DEADLOCK FALSE
INVARIANT TypeOK
INVARIANT PublishedIsInTopic
INVARIANT RepeatsNeedFaults
INVARIANT ExactlyOnceUntilFault
INVARIANT CommittedIsNotified
PROPERTY EventuallyInTopic
PROPERTY EventuallyNotified
