SPECIFICATION Spec
CHECK_DEADLOCK FALSE
CONSTANTS
    me = me
    ann = ann
    bob = bob
    ownPost = ownPost
    annPost = annPost
    bobReply = bobReply
    bobLike = bobLike
    ownLike = ownLike
    ownDM = ownDM
    NoItem = NoItem
    Person <- All
    Local <- Mine
    Item = {ownPost, annPost, bobReply, bobLike, ownLike, ownDM}
    KindOf <- Kinded
    AuthorOf <- Authored
    TargetOf <- Targeted
    RecipientOf <- Addressed
    Worker = {w1, w2}
    FollowThread = {f1}
    Limit = 2
    LowWater = 1
    BatchSize = 2
    MaxDeliveries = 2
    MaxFaults = 1
    MaxCrashes = 1
    MaxChanges = 2
CONSTRAINT OneWorld
INVARIANT OwnContentKept
INVARIANT PostNotifiedOnce
INVARIANT HandledPostStored
INVARIANT CountsNeverOverstate
INVARIANT FollowedPostsPinned
SYMMETRY WorkerSymmetry
