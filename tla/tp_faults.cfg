SPECIFICATION FairSpec
CONSTANTS
    i1 = i1
    i2 = i2
    i3 = i3
    c1 = c1
    c2 = c2
    p1 = p1
    p2 = p2
    Items <- MCTwoItems
    CollectionOf <- MCTwoItemsCollectionOf
    Collections = {c1}
    Hashes = {h1}
    NoHash = NoHash
    NoTopic = NoTopic
    Requests = {p1, s1}
    Publishers = {p1}
    Editors = {e1}
    Removers = {d1}
    Reviewers = {v1}
    Committee = {v1}
    Submitters = {s1}
    MaxItems = 2
    MaxInFlight = 2
    Faults = {"database", "rollback", "forum", "crash"}
INVARIANT CurationsArePaid
PROPERTY PublicationIsKept
PROPERTY CuratedBecomesReviewable
CHECK_DEADLOCK FALSE
