SPECIFICATION FairSpec
CONSTANTS
    Requests <- MCThreeRequests
    r1 = r1
    r2 = r2
    r3 = r3
    MaxVersion = 3
    MaxTimers = 3
    Nothing = Nothing
INVARIANT RefreshIsPending
PROPERTY CommitteeSettles
