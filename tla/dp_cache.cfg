SPECIFICATION FairSpec
CONSTANTS
    Requests = {r1, r2, r3}
    MaxVersion = 3
    MaxFailures = 2
    EmptyVersions <- MCEmptyVersions
    Nothing = Nothing
INVARIANT ServesDefaultPacks
INVARIANT OneFetchAtATime
PROPERTY CacheIsRefreshedUnlessFailed
