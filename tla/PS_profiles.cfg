SPECIFICATION Spec
CHECK_DEADLOCK FALSE
CONSTANTS
    n1 = n1
    n2 = n2
    w1 = w1
    w2 = w2
    w3 = w3
    Nobody = Nobody
    Node = {n1, n2}
    Author = {ann}
    Home <- HomeNode
    Worker = {w1, w2, w3}
    At <- Placed
    MaxEdits = 2
    MaxFaults = 1
    MaxCrashes = 1
INVARIANT ProfilesAgree
