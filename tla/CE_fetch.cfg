SPECIFICATION Spec
CHECK_DEADLOCK FALSE
CONSTANTS
    video = video
    picture = picture
    NoCid = NoCid
    NoThread = NoThread
    Media = {video, picture}
    Cid = {video, picture}
    Announced <- Announcements
    Thread = {t1, t2}
    FetchLimit = 1
    PrefetchLimit = 1
    MaxProviders = 2
    MaxCalls = 3
    MaxFaults = 1
INVARIANT TempFilesOwned
INVARIANT LimitsKept
INVARIANT OneSharedFetch
INVARIANT FetchedMediaStored
PROPERTY CallsEnd
