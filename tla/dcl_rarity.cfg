SPECIFICATION Spec
CONSTANTS
    None = None
    c1 = c1
    c2 = c2
    i1 = i1
    i2 = i2
    alice = alice
    bob = bob
    d1 = d1
    d2 = d2
    common = common
    epic = epic
    r1 = r1
    r2 = r2
    Collections = {c1, c2}
    Items = {i1, i2}
    Users = {alice, bob}
    Managers = {bob}
    RowManagers = {}
    Data = {d1}
    Rarities = {common, epic}
    BodyRarities = {common, epic, None}
    Deployable = {c1}
    StoredCollections <- MCStoredCollections
    StoredItems <- MCStoredItems
    Requests = {r1}
    Kinds = {"put", "publish"}
    MayFail = FALSE
    MaxInserts = 2
    MaxMishaps = 1
INVARIANT RarityIsFixed
CHECK_DEADLOCK FALSE
