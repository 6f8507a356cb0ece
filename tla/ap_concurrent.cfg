SPECIFICATION Spec
CONSTANTS
    p1 = p1
    p2 = p2
    a1 = a1
    a2 = a2
    alice = alice
    bob = bob
    u1 = u1
    u2 = u2
    DefaultUser = bob
    NoUser = NoUser
    NoPack = NoPack
    Packs = {p1, p2}
    Assets = {a1, a2}
    Users = {alice, bob}
    MaxAssets = 1
    MaxPacks = 1
    StoredOwner <- MCOneOwner
    StoredPack <- MCOnePack
    Legacy = {p1}
    Uploads = {u1, u2}
    Removals = {r1}
    MaxInFlight = 2
    MayFail = TRUE
INVARIANT StoredPacksAreTheirOwners
INVARIANT PackWithinLimit
PROPERTY UploadIsServed
PROPERTY ClaimsAreKept
SYMMETRY MCSymmetry
