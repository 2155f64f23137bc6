SPECIFICATION Spec
CHECK_DEADLOCK FALSE
CONSTANTS
    NoKey = NoKey
    Legacy = Legacy
    Key = {k1, k2}
    Request = {c1, c2}
    Web = {c2}
    Fallible = {"drop", "adopt", "undup", "save", "count", "active"}
    MaxCalls = 3
    MaxFaults = 1
    MaxCrashes = 1
SYMMETRY Symmetry
INVARIANT NamesHonest
INVARIANT OneActiveRow
PROPERTY KeyKept
