SPECIFICATION Spec
CONSTANTS
    Users = {u1, u2}
    Clients = {u1}
    ThirdParties = {t1, t2}
    Collections = {c1, c2}
    Items = {i1, i2}
    Suffixes = {a, b}
    ItemSuffixes = {x, y}
    Requests = {r1, r2}
    None = None
    MaxRegistered = 1
    MaxFaults = 1
INVARIANT UrnsAreUnique
PROPERTY PublishedKeepURN
PROPERTY SuffixesStayApart
PROPERTY CollectionsKeepManagers
SYMMETRY MCSymmetry
CHECK_DEADLOCK FALSE
