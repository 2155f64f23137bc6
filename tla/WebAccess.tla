----------------------------- MODULE WebAccess ------------------------------
(***************************************************************************)
(* How a request reaches a handler of the API server when an access token  *)
(* is configured (pkg/api): the login page, browser sessions with a        *)
(* sliding lifetime, WebSocket tickets, and the rate limiters in front of  *)
(* the login and of the router.  Each middleware a request passes is a     *)
(* step, and two requests of one browser carry the cookie it had when they *)
(* were sent.  Both token tables hold a deadline per token, 0 for one that *)
(* is not in the table.                                                    *)
(***************************************************************************)
EXTENDS Naturals, FiniteSets

CONSTANTS
    Token,          \* browser session tokens, each drawn once
    Ticket,         \* WebSocket tickets, each drawn once
    NoToken,        \* an empty cookie or ws_ticket
    Request,        \* requests that are served at the same time
    MaxSessions,    \* maxBrowserAuthSessions
    MaxTickets,     \* maxWSTickets
    SessionTTL, TicketTTL, Window,
    RouteLimit, GlobalLimit,
    MaxSends,       \* bound: requests that are sent
    MaxTime         \* bound: clock ticks

ASSUME AccessAssumption ==
    /\ NoToken \notin Token \cup Ticket
    /\ MaxSessions \in Nat \ {0} /\ MaxTickets \in Nat \ {0}
    /\ SessionTTL \in Nat \ {0} /\ TicketTTL \in Nat \ {0} /\ Window \in Nat \ {0}
    /\ RouteLimit \in Nat \ {0} /\ GlobalLimit \in Nat \ {0}
    /\ MaxSends \in Nat /\ MaxTime \in Nat

VARIABLES
    now,
    cookie,     \* the browser's xleaks_browser_auth
    sessions,   \* BrowserAuthManager.sessions
    drawn,      \* session tokens that exist
    revoked,    \* history: tokens of sessions that logged out
    tickets,    \* WSTicketManager.tickets
    ticketLog,  \* history: "new", "issued" or "accepted"
    visits,     \* RouteRateLimiter: the windows of the client's address
    request,    \* what each request is and where it is
    sends

vars == <<now, cookie, sessions, drawn, revoked, tickets, ticketLog, visits, request, sends>>

Kinds == {"login", "page", "ticket", "logout", "handshake"}
Steps == {"session", "bootstrap", "token", "guard", "limit", "handler", "revoke", "idle"}

\* login: the limiter of POST /auth/token; api: that of the router.
Windows == {"login", "api"} \X {"global", "route"}

Idle == [kind |-> "page", at |-> "idle", cookie |-> NoToken, ticket |-> NoToken,
         bearer |-> FALSE]

At(r, step) == request[r].at = step
Goto(r, step) == request' = [request EXCEPT ![r].at = step]
End(r) == request' = [request EXCEPT ![r] = Idle]

-----------------------------------------------------------------------------
\* The two tables.

Kept(table) == {k \in DOMAIN table : table[k] > now}

\* cleanupExpiredLocked
cleanupExpired(table) == [k \in DOMAIN table |-> IF table[k] > now THEN table[k] ELSE 0]

\* evictOldestLocked: the entry that expires first, any of them on a tie.
Oldest(table) == {k \in Kept(table) : \A j \in Kept(table) : table[k] <= table[j]}

\* Mutant of Insert: makes room for the new entry in a table that has it.
InsertCrowded(table, k, until, max, next) ==
    \/ /\ Cardinality(Kept(table)) + 1 < max
       /\ next = [cleanupExpired(table) EXCEPT ![k] = until]
    \/ \E old \in Oldest(table) :
          /\ Cardinality(Kept(table)) + 1 >= max
          /\ next = [cleanupExpired(table) EXCEPT ![old] = 0, ![k] = until]

\* Issue: clean, make room, insert; next is the table afterwards.
Insert(table, k, until, max, next) ==
    \/ /\ Cardinality(Kept(table)) < max
       /\ next = [cleanupExpired(table) EXCEPT ![k] = until]
    \/ \E old \in Oldest(table) :
          /\ Cardinality(Kept(table)) >= max
          /\ next = [cleanupExpired(table) EXCEPT ![old] = 0, ![k] = until]

\* BrowserAuthManager.Issue and SetCookie
IssueSession(k) ==
    /\ k \notin drawn
    /\ drawn' = drawn \cup {k}
    /\ Insert(sessions, k, now + SessionTTL, MaxSessions, sessions')
    /\ cookie' = k

\* sessionState: what the cookie is worth, and the table afterwards.
State(k) == IF k = NoToken THEN "missing" ELSE IF sessions[k] > now THEN "valid" ELSE "stale"

\* Mutant of Slide: the session is written back without looking it up.
SlideBlind(k) ==
    IF k = NoToken THEN sessions
    ELSE [cleanupExpired(sessions) EXCEPT ![k] = now + SessionTTL]

Slide(k) ==
    CASE State(k) = "missing" -> sessions
      [] State(k) = "valid" -> [cleanupExpired(sessions) EXCEPT ![k] = now + SessionTTL]
      [] OTHER -> cleanupExpired(sessions)

-----------------------------------------------------------------------------
\* RouteRateLimiter: fixed windows, first the global one, then the route's.

\* No entry, or one whose window ended; the latter are cleaned up by and by.
Fresh(w) == visits[w].count = 0 \/ now > visits[w].resetAt
LimitOf(w) == IF w[2] = "global" THEN GlobalLimit ELSE RouteLimit

Allowed(w) == Fresh(w) \/ visits[w].count < LimitOf(w)

\* allowLocked
Counted(w) == IF Fresh(w) THEN [count |-> 1, resetAt |-> now + Window]
              ELSE [visits[w] EXCEPT !.count = @ + 1]

\* A request that its route refuses counts in the global window.
Limiter(which, served) ==
    LET global == <<which, "global">>
        route == <<which, "route">>
        passes == Allowed(global) IN
    /\ served = (passes /\ Allowed(route))
    /\ visits' = IF ~passes THEN visits
                 ELSE IF ~Allowed(route)
                 THEN [visits EXCEPT ![global] = Counted(global)]
                 ELSE [visits EXCEPT ![global] = Counted(global), ![route] = Counted(route)]

-----------------------------------------------------------------------------
\* Requests.

Send(r, kind, c, t, bearer) ==
    /\ request[r] = Idle
    /\ request' = [request EXCEPT ![r] =
          [kind |-> kind, at |-> IF kind = "login" THEN "limit" ELSE "session",
           cookie |-> c, ticket |-> t, bearer |-> bearer]]
    /\ sends < MaxSends /\ sends' = sends + 1
    /\ UNCHANGED <<now, cookie, sessions, drawn, revoked, tickets, ticketLog, visits>>

\* POST /auth/token.
SendLogin(r) == Send(r, "login", cookie, NoToken, FALSE)

\* A page or an API call, with the browser's cookie or with the bearer token
\* of an API client, or with both.
SendPage(r, bearer) == Send(r, "page", cookie, NoToken, bearer)
SendTicketRequest(r, bearer) ==
    Send(r, "ticket", IF bearer THEN NoToken ELSE cookie, NoToken, bearer)

SendLogout(r) == Send(r, "logout", cookie, NoToken, FALSE)

\* GET /ws: any ticket that was ever issued, sent again included.
SendHandshake(r, c, t) ==
    /\ c \in {cookie, NoToken}
    /\ ticketLog[t] # "new"
    /\ Send(r, "handshake", c, t, FALSE)

\* browserSessionAuth.  A valid cookie stands for the bearer token, a stale
\* one is cleared and ends the request, and without a cookie a page is sent
\* to the login while any other request goes on to TokenAuth.
browserSessionAuth(r) ==
    /\ At(r, "session")
    /\ LET q == request[r]
           state == State(q.cookie) IN
       /\ sessions' = Slide(q.cookie)
       /\ cookie' = IF state = "stale" /\ ~q.bearer THEN NoToken ELSE cookie
       /\ \/ /\ q.bearer /\ q.kind = "page" /\ state # "valid"
             /\ Goto(r, "bootstrap")
          \/ /\ q.bearer /\ ~(q.kind = "page" /\ state # "valid")
             /\ Goto(r, "token")
          \/ /\ ~q.bearer /\ state = "valid"
             /\ request' = [request EXCEPT ![r].at = "token", ![r].bearer = TRUE]
          \/ /\ ~q.bearer /\ (state = "stale" \/ (state = "missing" /\ q.kind = "page"))
             /\ End(r)
          \/ /\ ~q.bearer /\ state = "missing" /\ q.kind # "page"
             /\ Goto(r, "token")
    /\ UNCHANGED <<now, drawn, revoked, tickets, ticketLog, visits, sends>>

\* GET /auth/token, which no limit delays: CookieState slides a session, and
\* a stale cookie is cleared.
LoginPage ==
    /\ sessions' = Slide(cookie)
    /\ cookie' = IF State(cookie) = "stale" THEN NoToken ELSE cookie
    /\ UNCHANGED <<now, drawn, revoked, tickets, ticketLog, visits, request, sends>>

\* A navigation with the bearer token gets a browser session.
BootstrapSession(r, k) ==
    /\ At(r, "bootstrap")
    /\ IssueSession(k)
    /\ Goto(r, "token")
    /\ UNCHANGED <<now, revoked, tickets, ticketLog, visits, sends>>

\* Mutant of Consumed: a ticket that is accepted stays in the table.
ConsumedLate(t) == cleanupExpired(tickets)

\* ValidateAndConsume removes the ticket, accepted or not.
Consumed(t) == [cleanupExpired(tickets) EXCEPT ![t] = 0]

\* TokenAuthWithWebSocketTicket.  A handshake without a good ticket may have the
\* access token in its query.
TokenAuth(r) ==
    /\ At(r, "token")
    /\ LET q == request[r] IN
       \/ q.bearer /\ Goto(r, "guard") /\ UNCHANGED <<tickets, ticketLog>>
       \/ /\ ~q.bearer /\ q.kind = "handshake"
          /\ tickets' = Consumed(q.ticket)
          /\ IF tickets[q.ticket] > now
             THEN /\ ticketLog' = [ticketLog EXCEPT ![q.ticket] = "accepted"]
                  /\ Goto(r, "guard")
             ELSE (Goto(r, "guard") \/ End(r)) /\ UNCHANGED ticketLog
       \/ /\ ~q.bearer /\ q.kind # "handshake"
          /\ End(r) /\ UNCHANGED <<tickets, ticketLog>>
    /\ UNCHANGED <<now, cookie, sessions, drawn, revoked, visits, sends>>

\* BrowserGuard and LocalOnly judge headers and addresses only.
BrowserGuard(r) ==
    /\ At(r, "guard")
    /\ Goto(r, "limit") \/ End(r)
    /\ UNCHANGED <<now, cookie, sessions, drawn, revoked, tickets, ticketLog, visits, sends>>

RateLimit(r) ==
    /\ At(r, "limit")
    /\ \E served \in BOOLEAN :
          /\ Limiter(IF request[r].kind = "login" THEN "login" ELSE "api", served)
          /\ IF served THEN Goto(r, "handler") ELSE End(r)
    /\ UNCHANGED <<now, cookie, sessions, drawn, revoked, tickets, ticketLog, sends>>

\* A wrong access token is refused.
Login(r, k) ==
    /\ At(r, "handler") /\ request[r].kind = "login"
    /\ \/ IssueSession(k)
       \/ UNCHANGED <<sessions, drawn, cookie>>
    /\ End(r)
    /\ UNCHANGED <<now, revoked, tickets, ticketLog, visits, sends>>

IssueTicket(r, t) ==
    /\ At(r, "handler") /\ request[r].kind = "ticket"
    /\ ticketLog[t] = "new"
    /\ Insert(tickets, t, now + TicketTTL, MaxTickets, tickets')
    /\ ticketLog' = [ticketLog EXCEPT ![t] = "issued"]
    /\ End(r)
    /\ UNCHANGED <<now, cookie, sessions, drawn, revoked, visits, sends>>

\* The other handlers, the hub and the web UI's logout among them.
Serve(r) ==
    /\ At(r, "handler") /\ request[r].kind \in {"page", "logout", "handshake"}
    /\ \/ request[r].kind = "logout" /\ Goto(r, "revoke")
       \/ End(r)
    /\ UNCHANGED <<now, cookie, sessions, drawn, revoked, tickets, ticketLog, visits, sends>>

\* The logout succeeded: the session is revoked and the cookie cleared.
Revoke(r) ==
    /\ At(r, "revoke")
    /\ sessions' = [sessions EXCEPT ![request[r].cookie] = 0]
    /\ revoked' = revoked \cup {request[r].cookie}
    /\ cookie' = NoToken
    /\ End(r)
    /\ UNCHANGED <<now, drawn, tickets, ticketLog, visits, sends>>

Tick ==
    /\ now < MaxTime
    /\ now' = now + 1
    /\ UNCHANGED <<cookie, sessions, drawn, revoked, tickets, ticketLog, visits, request, sends>>

Init ==
    /\ now = 0
    /\ cookie = NoToken
    /\ sessions = [k \in Token |-> 0]
    /\ drawn = {} /\ revoked = {}
    /\ tickets = [t \in Ticket |-> 0]
    /\ ticketLog = [t \in Ticket |-> "new"]
    /\ visits = [w \in Windows |-> [count |-> 0, resetAt |-> 0]]
    /\ request = [r \in Request |-> Idle]
    /\ sends = 0

Arrival(r) ==
    \/ SendLogin(r) \/ SendLogout(r)
    \/ \E bearer \in BOOLEAN : SendPage(r, bearer) \/ SendTicketRequest(r, bearer)
    \/ \E c \in {cookie, NoToken}, t \in Ticket : SendHandshake(r, c, t)

Step(r) ==
    \/ browserSessionAuth(r) \/ TokenAuth(r) \/ BrowserGuard(r) \/ RateLimit(r)
    \/ Serve(r) \/ Revoke(r)
    \/ \E k \in Token : BootstrapSession(r, k) \/ Login(r, k)
    \/ \E t \in Ticket : IssueTicket(r, t)

Next == Tick \/ LoginPage \/ \E r \in Request : Arrival(r) \/ Step(r)

Spec == Init /\ [][Next]_vars

-----------------------------------------------------------------------------

Cookies == Token \cup {NoToken}

\* The tables keep their types, and no window counts beyond its limit.
AccessTypeOK ==
    /\ now \in 0..MaxTime
    /\ cookie \in Cookies
    /\ sessions \in [Token -> Nat] /\ drawn \subseteq Token /\ revoked \subseteq drawn
    /\ tickets \in [Ticket -> Nat]
    /\ ticketLog \in [Ticket -> {"new", "issued", "accepted"}]
    /\ visits \in [Windows -> [count : Nat, resetAt : Nat]]
    /\ \A w \in Windows : visits[w].count <= LimitOf(w)
    /\ sends \in 0..MaxSends
    /\ request \in [Request -> [kind : Kinds, at : Steps, cookie : Cookies,
                                ticket : Ticket \cup {NoToken}, bearer : BOOLEAN]]

\* A session that logged out never authenticates again: a request of another
\* tab that validates the same cookie while the logout runs slides the
\* session's deadline, before or after the revocation, and must not bring the
\* entry back (sessionState and Revoke of pkg/api/browser_auth.go).
LoggedOutStaysOut == \A k \in revoked : sessions[k] = 0

\* A session that has time left is lost only by a logout, or to a new session
\* when as many as the table holds have time left (Issue, evictOldestLocked);
\* then it is the only one that is lost, and no other was nearer its end.
SessionsKept ==
    [][\A k \in Token :
          sessions[k] > now /\ sessions'[k] = 0 =>
              \/ k \in revoked'
              \/ /\ drawn' # drawn /\ Cardinality(Kept(sessions)) >= MaxSessions
                 /\ \A j \in Kept(sessions) \ {k} : sessions[k] <= sessions[j] /\ sessions'[j] # 0
    ]_vars

\* The state of a ticket as OneTimeTicket sees it.
TicketStatus ==
    [t \in Ticket |-> CASE ticketLog[t] = "new" -> "new"
                        [] ticketLog[t] = "accepted" -> "spent"
                        [] ticketLog[t] = "issued" /\ tickets[t] = 0 -> "void"
                        [] OTHER -> "live"]

Tickets == INSTANCE OneTimeTicket WITH
               Limit <- MaxTickets, TTL <- TicketTTL,
               status <- TicketStatus, deadline <- tickets

\* The table of tickets implements one-time tickets: whatever requests do with
\* a ticket, replays and handshakes that race for it included, it admits once,
\* before its deadline, and tickets are withdrawn as OneTimeTicket allows.
TicketsOneTime == Tickets!Spec
=============================================================================
