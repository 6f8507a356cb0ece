SPECIFICATION Spec
CONSTANTS
    None = None
    r1 = r1
    r2 = r2
    o1 = o1
    o2 = o2
    s1 = s1
    s2 = s2
    Users = {alice, bob}
    Clicks = {r1, r2}
    Owners = {o1, o2}
    Scenes = {s1, s2}
    MaxInFlight = 2
    MayFail = TRUE
CONSTRAINT ClicksAreOnWholePools
INVARIANT LikesAreCounted
PROPERTY DeletedStaysDeleted
PROPERTY LoneRequestsRepair
PROPERTY LoneLikeRepairs
SYMMETRY MCSymmetry
CHECK_DEADLOCK FALSE
