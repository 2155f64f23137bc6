SPECIFICATION Spec
CHECK_DEADLOCK FALSE
CONSTANTS
    NoToken = NoToken
    Token = {k1, k2, k3}
    Ticket = {t1, t2}
    Request = {r1, r2}
    MaxSessions = 2
    MaxTickets = 1
    SessionTTL = 2
    TicketTTL = 1
    Window = 1
    RouteLimit = 1
    GlobalLimit = 2
    MaxTime = 2
    MaxSends = 4
SYMMETRY Symmetry
INVARIANT LoggedOutStaysOut
PROPERTY SessionsKept
PROPERTY TicketsOneTime
