SPECIFICATION Spec
CONSTANTS
    Browsers = {u}
    Clients = {u}
    Own = {"ann", "bob"}
    Posts = {"p1", "p2", "p3"}
    Messages = {"m1", "m2"}
    Notices = {"n1"}
    By <- MCBy
    To <- MCTo
    TimeOf <- MCTimeOf
    PageSize = 2
    MaxTime = 2
    MaxChanges = 3
INVARIANTS
    NothingShownTwice
    WalksComplete
    ReadByAddressee
