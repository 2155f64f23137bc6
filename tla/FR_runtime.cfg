SPECIFICATION Spec
CHECK_DEADLOCK FALSE
CONSTANTS
    NoTopic = NoTopic
    Nobody = Nobody
    Person = {me, alt}
    Owner = {me, alt}
    Topic <- Topics
    Posts <- PostsTopic
    DMs <- DMTopic
    Goroutine = {g1, g2}
    MaxCalls = 3
    MaxFaults = 1
INVARIANT OneReadLoop
INVARIANT JoinsAccounted
INVARIANT OnlyActiveDMRead
 
