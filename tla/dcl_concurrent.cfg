SPECIFICATION Spec
CONSTANTS
    None = None
    c1 = c1
    c2 = c2
    i1 = i1
    i2 = i2
    alice = alice
    bob = bob
    d1 = d1
    d2 = d2
    common = common
    epic = epic
    r1 = r1
    r2 = r2
    Collections = {c1}
    Items = {i1, i2}
    Users = {alice}
    Managers = {}
    RowManagers = {}
    Data = {d1}
    Rarities = {common}
    BodyRarities = {common}
    Deployable = {c1}
    StoredCollections <- MCOneCollection
    StoredItems <- MCItsItems
    Requests = {r1, r2}
    Kinds = {"save", "put", "publish", "post"}
    MayFail = TRUE
    MaxInserts = 2
    MaxMishaps = 1
INVARIANT IdsMatchChain
INVARIANT TopicIsLinked
PROPERTY PostStaysLinked
PROPERTY LockIsNotLifted
SYMMETRY MCSymmetry
CHECK_DEADLOCK FALSE
