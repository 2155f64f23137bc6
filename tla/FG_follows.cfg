CONSTANTS
    me = me
    ann = ann
    bob = bob
    h1 = h1
    h2 = h2
    User <- MCUser
    Local <- MCLocal
    Me = me
    Handler <- MCHandler
    Foreign <- MCForeign
    MaxEvents = 2
    MaxInbox = 1
    MaxLoads = 1
    MaxFaults = 1
SPECIFICATION Spec
SYMMETRY MCSymmetry
INVARIANTS CountsHeal OwnFollowRecorded
CHECK_DEADLOCK FALSE
