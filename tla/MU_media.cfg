SPECIFICATION MediaSpec
CHECK_DEADLOCK FALSE
CONSTANTS
    a = a
    b = b
    Goroutine = {g1, g2}
    Block = {a, b}
    File <- MCFile
    Foreign <- MCForeign
    Asked <- MCAsked
    Image <- MCImage
    Video <- MCVideo
    ChunkSize = 2
    Jpeg = Jpeg
    Own = Own
    Other = Other
    MaxUploads = 2
    MaxMessages = 1
    MaxChanges = 1
    MaxFaults = 1
SYMMETRY Symmetry
INVARIANT OwnUploadsKept
INVARIANT PublishedChunksAssemble
INVARIANT StagedFilesOwned
