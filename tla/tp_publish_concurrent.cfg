SPECIFICATION MCSpec
CONSTANTS
    i1 = i1
    i2 = i2
    c1 = c1
    p1 = p1
    p2 = p2
    Items <- MCItems
    CollectionOf <- MCCollectionOf
    Collections = {c1}
    Hashes = {h1}
    NoHash = NoHash
    NoTopic = NoTopic
    Requests = {p1, p2}
    Publishers = {p1, p2}
    Editors = {e1}
    Removers = {d1}
    Reviewers = {}
    Committee = {}
    Submitters = {}
    MaxItems = 2
    MaxInFlight = 4
    idRank <- MCIdRank
    Faults = {"database"}
    NoFile = NoFile
    Posts = {post1, post2}
    Fields = {thumbnail, north}
    Bytes = {b1, b2}
SYMMETRY MCSymmetry
CHECK_DEADLOCK FALSE
INVARIANT RefusedLeavesNoTrace
INVARIANT PublishedEverywhere
INVARIANT ReadsAgree
PROPERTY UploadsAreAtomic
