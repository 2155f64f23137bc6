SPECIFICATION FairSpec
CHECK_DEADLOCK FALSE
CONSTANTS
    Client = {c1, c2}
    Caster = {s1, s2}
    MaxClients = 1
    SendBuffer = 1
    MaxEvents = 3
INVARIANT SlotsAccounted
INVARIANT NoPanic
INVARIANT MissedAreDropped
PROPERTY PumpsEnd
