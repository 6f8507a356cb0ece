SPECIFICATION TrackedSpec
CONSTANTS
    i1 = i1
    i2 = i2
    i3 = i3
    c1 = c1
    c2 = c2
    Items <- MCItems
    CollectionOf <- MCCollectionOf
    Collections = {c1, c2}
    Hashes = {h1, h2}
    NoHash = NoHash
    NoTopic = NoTopic
    Requests = {p1, p2, s1}
    Publishers = {p1, p2}
    Editors = {e1}
    Removers = {d1}
    Reviewers = {v1, v2}
    Committee = {v1}
    Submitters = {s1}
    MaxItems = 2
    MaxInFlight = 1
    MaxRequests = 4
    idRank <- MCIdRank
    Faults = {"forum"}
CHECK_DEADLOCK FALSE
INVARIANT SlotsRespected
INVARIANT OnePendingPerItem
INVARIANT ApprovalDataIsNewest
INVARIANT PublishedIsKept
INVARIANT OneTopicPerCollection
INVARIANT CommitteeCanListItems
PROPERTY OnlyLatestChangesStatus
