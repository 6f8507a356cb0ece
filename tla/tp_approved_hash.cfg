SPECIFICATION Spec
CONSTANTS
    i1 = i1
    i2 = i2
    i3 = i3
    c1 = c1
    c2 = c2
    p1 = p1
    p2 = p2
    Items <- MCTwoItems
    CollectionOf <- MCTwoItemsCollectionOf
    Collections = {c1}
    Hashes = {h1, h2}
    NoHash = NoHash
    NoTopic = NoTopic
    Requests = {p1}
    Publishers = {p1}
    Editors = {e1}
    Removers = {}
    Reviewers = {v1, v2}
    Committee = {v1}
    Submitters = {}
    MaxItems = 2
    MaxInFlight = 1
    Faults = {}
PROPERTY ApprovedHashIsFixed
CHECK_DEADLOCK FALSE
