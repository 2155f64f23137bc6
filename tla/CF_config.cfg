SPECIFICATION ConfigSpec
CHECK_DEADLOCK FALSE
CONSTANTS
    Editor = {r1, r2}
    Searcher = {s1}
    Indexer = {i1}
    Query = {search, trend}
    Trending = {trend}
    Storage = {0, 1}
    MinStorage = 1
    Initial <- MCInitial
    Loopback = FALSE
    TokenConfigured = TRUE
    CacheTTL = 1
    MaxCacheEntries = 1
    MaxUpdates = 2
    MaxQueries = 2
    MaxFailures = 1
    MaxTicks = 2
SYMMETRY Symmetry
INVARIANT SavedConfigStarts
INVARIANT ChangesAgree
INVARIANT AnswersExpire
