--------------------------- MODULE ApiServerProofs ---------------------------
(***************************************************************************)
(* Proofs about the API server.  Access: sessions that logged out stay     *)
(* out, no session is lost but to a logout or a full table, and the table  *)
(* of WebSocket tickets implements OneTimeTicket, for any number of        *)
(* requests, tokens and tickets and for any limits and lifetimes.  The     *)
(* WebSocket hub: slots are accounted for, no goroutine panics and a       *)
(* client that missed an event is dropped, for any number of clients and   *)
(* broadcasting goroutines.  The configuration: the saved file starts,     *)
(* changes that do not overlap agree, and cached answers of a removed      *)
(* indexer expire, for any number of requests and indexers.                *)
(* Media uploads: what was uploaded stays in the store and pinned, its     *)
(* chunks in any order are the file, and no staged file is lost track of,  *)
(* for any contents and goroutines.                                        *)
(***************************************************************************)
EXTENDS WebAccess, RealtimeHub, NodeConfig, MediaUpload, FiniteSetTheorems,
        WellFoundedInduction, TLAPS

-----------------------------------------------------------------------------
(* Access.                                                                 *)

Requests ==
    [kind : Kinds, at : Steps, cookie : Cookies, ticket : Ticket \cup {NoToken},
     bearer : BOOLEAN]

\* A logout passes the middlewares only with the cookie of a session that was
\* there, and a handshake carries a ticket.
Sound(q, given) ==
    /\ q.kind = "handshake" => q.ticket \in Ticket
    /\ q.kind = "logout" /\ q.at = "session" => ~q.bearer
    /\ q.kind = "logout" /\ q.at = "token" /\ q.bearer => q.cookie \in given
    /\ q.kind = "logout" /\ q.at \in {"guard", "limit", "handler", "revoke"} => q.cookie \in given
    /\ q.at = "bootstrap" => q.kind = "page"
    /\ q.at = "revoke" => q.kind = "logout"

RequestsSound == \A r \in Request : Sound(request[r], drawn)

SessionsSound ==
    /\ now \in 0 .. MaxTime /\ cookie \in Cookies
    /\ sessions \in [Token -> Nat] /\ drawn \subseteq Token /\ revoked \subseteq drawn
    /\ \A k \in Token : sessions[k] # 0 => k \in drawn
    /\ LoggedOutStaysOut

Outstanding == {t \in Ticket : tickets[t] # 0}

TicketsSound ==
    /\ tickets \in [Ticket -> Nat]
    /\ ticketLog \in [Ticket -> {"new", "issued", "accepted"}]
    /\ \A t \in Ticket : ticketLog[t] # "issued" => tickets[t] = 0
    /\ IsFiniteSet(Outstanding) /\ Cardinality(Outstanding) <= MaxTickets

VisitsSound ==
    /\ visits \in [Windows -> [count : Nat, resetAt : Nat]]
    /\ \A w \in Windows : visits[w].count <= LimitOf(w)

RequestTypes == request \in [Request -> Requests] /\ sends \in 0 .. MaxSends

AccessInv == SessionsSound /\ TicketsSound /\ VisitsSound /\ RequestTypes /\ RequestsSound

-----------------------------------------------------------------------------
\* The tables.

LEMMA CleanedTables ==
    ASSUME NEW K, NEW table \in [K -> Nat]
    PROVE  /\ cleanupExpired(table) \in [K -> Nat]
           /\ \A k \in K : cleanupExpired(table)[k] = IF table[k] > now THEN table[k] ELSE 0
           /\ Kept(table) = {k \in K : table[k] > now}
BY DEF cleanupExpired, Kept

\* Issuing keeps what has time left, but for the entry that makes room.
Issued(K, table, k, until, max, next, gone) ==
    /\ next \in [K -> Nat] /\ next[k] = until
    /\ \A j \in K : j # k => next[j] = IF table[j] > now /\ j \notin gone THEN table[j] ELSE 0
    /\ \/ gone = {} /\ Cardinality(Kept(table)) < max
       \/ \E old \in Kept(table) :
            /\ gone = {old} /\ \A j \in Kept(table) : table[old] <= table[j]
            /\ Cardinality(Kept(table)) >= max

LEMMA EntryIssued ==
    ASSUME NEW K, NEW table \in [K -> Nat], NEW k \in K, NEW until \in Nat, NEW max, NEW next,
           Insert(table, k, until, max, next)
    PROVE  \E gone \in SUBSET Kept(table) : Issued(K, table, k, until, max, next, gone)
<1> DEFINE clean == cleanupExpired(table)
<1>0. /\ clean \in [K -> Nat]
      /\ \A j \in K : clean[j] = IF table[j] > now THEN table[j] ELSE 0
      /\ Kept(table) = {j \in K : table[j] > now}
  BY CleanedTables
<1> HIDE DEF clean
<1>1. CASE Cardinality(Kept(table)) < max /\ next = [clean EXCEPT ![k] = until]
  <2>1. /\ next \in [K -> Nat] /\ next[k] = until
        /\ \A j \in K : j # k => next[j] = IF table[j] > now THEN table[j] ELSE 0
    BY <1>0, <1>1
  <2>2. Issued(K, table, k, until, max, next, {})
    BY <1>1, <2>1 DEF Issued
  <2> QED BY <2>2
<1>2. ASSUME NEW old \in Oldest(table), Cardinality(Kept(table)) >= max,
             next = [clean EXCEPT ![old] = 0, ![k] = until]
      PROVE  \E gone \in SUBSET Kept(table) : Issued(K, table, k, until, max, next, gone)
  <2>1. old \in Kept(table) /\ old \in K /\ \A j \in Kept(table) : table[old] <= table[j]
    BY <1>0 DEF Oldest
  <2>2. next \in [K -> Nat] /\ next[k] = until
    BY <1>0, <1>2, <2>1
  <2>3. \A j \in K : j # k => next[j] = IF j = old THEN 0 ELSE clean[j]
    BY <1>0, <1>2, <2>1
  <2>4. \A j \in K : j # k => next[j] = IF table[j] > now /\ j \notin {old} THEN table[j] ELSE 0
    BY <1>0, <2>3
  <2>5. Issued(K, table, k, until, max, next, {old})
    BY <1>2, <2>1, <2>2, <2>4 DEF Issued
  <2>6. {old} \in SUBSET Kept(table)
    BY <2>1
  <2> QED BY <2>5, <2>6
<1> QED BY <1>1, <1>2 DEF Insert, clean

-----------------------------------------------------------------------------
\* Sessions.

\* What a session step may do: keep and clean, slide a live session, issue a
\* token that was never drawn, or revoke one that was.
SessionsStep ==
    /\ sessions' \in [Token -> Nat] /\ cookie' \in Cookies /\ drawn' \subseteq Token
    /\ drawn \subseteq drawn' /\ revoked \subseteq revoked' /\ revoked' \subseteq drawn'
    /\ \A k \in Token : sessions'[k] # 0 =>
          /\ k \notin revoked' \/ (sessions[k] # 0 /\ k \notin revoked' \ revoked)
          /\ k \in drawn' \/ sessions[k] # 0
          /\ sessions[k] # 0 \/ k \notin drawn
    /\ \A k \in Token : sessions[k] > now /\ sessions'[k] = 0 =>
          \/ k \in revoked'
          \/ /\ drawn' # drawn /\ Cardinality(Kept(sessions)) >= MaxSessions
             /\ \A j \in Kept(sessions) \ {k} : sessions[k] <= sessions[j] /\ sessions'[j] # 0

LEMMA SlideStep ==
    ASSUME AccessInv, NEW k \in Cookies, sessions' = Slide(k), cookie' \in {cookie, NoToken},
           UNCHANGED <<drawn, revoked>>
    PROVE  SessionsStep
<1>0. SessionsSound /\ now \in Nat
  BY DEF AccessInv, SessionsSound
<1>1. /\ sessions' \in [Token -> Nat]
      /\ \A j \in Token : sessions'[j] # 0 => sessions[j] # 0
      /\ \A j \in Token : sessions[j] > now => sessions'[j] # 0
  <2>1. CASE State(k) = "missing"
    BY <1>0, <2>1 DEF Slide, SessionsSound
  <2>2. CASE State(k) = "valid"
    <3>1. k \in Token /\ sessions[k] > now /\ now + SessionTTL \in Nat \ {0}
      BY <1>0, <2>2, AccessAssumption DEF State, Cookies, SessionsSound
    <3>2. sessions' = [cleanupExpired(sessions) EXCEPT ![k] = now + SessionTTL]
      BY <2>2 DEF Slide
    <3>3. /\ cleanupExpired(sessions) \in [Token -> Nat]
          /\ \A j \in Token : cleanupExpired(sessions)[j] = IF sessions[j] > now THEN sessions[j] ELSE 0
      BY <1>0, CleanedTables DEF SessionsSound
    <3>4. \A j \in Token : sessions'[j] = IF j = k THEN now + SessionTTL
                             ELSE IF sessions[j] > now THEN sessions[j] ELSE 0
      BY <3>2, <3>3
    <3>5. sessions' \in [Token -> Nat]
      BY <3>1, <3>2, <3>3
    <3> QED BY <1>0, <3>1, <3>4, <3>5 DEF SessionsSound
  <2>3. CASE State(k) # "missing" /\ State(k) # "valid"
    <3>1. sessions' = cleanupExpired(sessions)
      BY <2>3 DEF Slide
    <3>2. /\ cleanupExpired(sessions) \in [Token -> Nat]
          /\ \A j \in Token : cleanupExpired(sessions)[j] = IF sessions[j] > now THEN sessions[j] ELSE 0
      BY <1>0, CleanedTables DEF SessionsSound
    <3> QED BY <1>0, <3>1, <3>2 DEF SessionsSound
  <2> QED BY <2>1, <2>2, <2>3
<1> QED BY <1>0, <1>1 DEF SessionsStep, SessionsSound, LoggedOutStaysOut, Cookies

LEMMA IssueStep ==
    ASSUME AccessInv, NEW k \in Token, IssueSession(k), UNCHANGED revoked
    PROVE  SessionsStep
<1>0. SessionsSound /\ now \in Nat /\ now + SessionTTL \in Nat
  BY AccessAssumption DEF AccessInv, SessionsSound
<1>1. PICK gone \in SUBSET Kept(sessions) :
        Issued(Token, sessions, k, now + SessionTTL, MaxSessions, sessions', gone)
  <2>1. Insert(sessions, k, now + SessionTTL, MaxSessions, sessions') /\ sessions \in [Token -> Nat]
    BY <1>0 DEF IssueSession, SessionsSound
  <2> QED BY <1>0, <2>1, EntryIssued
<1>2. k \notin drawn /\ drawn' = drawn \cup {k} /\ cookie' = k
  BY DEF IssueSession
<1>3. \A j \in Token : sessions[j] > now /\ sessions'[j] = 0 =>
        /\ drawn' # drawn /\ Cardinality(Kept(sessions)) >= MaxSessions
        /\ \A i \in Kept(sessions) \ {j} : sessions[j] <= sessions[i] /\ sessions'[i] # 0
  <2> SUFFICES ASSUME NEW j \in Token, sessions[j] > now, sessions'[j] = 0
               PROVE  /\ Cardinality(Kept(sessions)) >= MaxSessions
                      /\ \A i \in Kept(sessions) \ {j} :
                            sessions[j] <= sessions[i] /\ sessions'[i] # 0
    BY <1>2
  <2>1. j # k
    BY <1>0, <1>1, AccessAssumption DEF Issued
  <2>2. j \in gone
    BY <1>0, <1>1, <2>1 DEF Issued, SessionsSound
  <2>3. /\ gone = {j} /\ Cardinality(Kept(sessions)) >= MaxSessions
        /\ \A i \in Kept(sessions) : sessions[j] <= sessions[i]
    BY <1>1, <2>2 DEF Issued
  <2>4. ASSUME NEW i \in Kept(sessions) \ {j} PROVE sessions'[i] # 0
    <3>1. i \in Token /\ sessions[i] > now /\ sessions[i] \in Nat
      BY <1>0 DEF Kept, SessionsSound
    <3>2. CASE i = k
      BY <1>0, <1>1, <3>2, AccessAssumption DEF Issued
    <3>3. CASE i # k
      BY <1>0, <1>1, <2>3, <3>1, <3>3 DEF Issued
    <3> QED BY <3>2, <3>3
  <2> QED BY <2>3, <2>4
<1>4. \A j \in Token : sessions'[j] # 0 => j = k \/ sessions[j] # 0
  BY <1>0, <1>1 DEF Issued, SessionsSound
<1> QED BY <1>0, <1>1, <1>2, <1>3, <1>4 DEF Issued, SessionsStep, SessionsSound, LoggedOutStaysOut, Cookies

LEMMA RevokeStep ==
    ASSUME AccessInv, NEW r \in Request, Revoke(r)
    PROVE  SessionsStep
<1>0. SessionsSound /\ now \in Nat /\ request[r].cookie \in drawn
  BY DEF AccessInv, SessionsSound, RequestsSound, Sound, Revoke, At
<1> DEFINE k == request[r].cookie
<1>1. /\ sessions' = [sessions EXCEPT ![k] = 0] /\ revoked' = revoked \cup {k}
      /\ cookie' = NoToken /\ drawn' = drawn
  BY DEF Revoke
<1> HIDE DEF k
<1>2. k \in drawn /\ k \in Token
  BY <1>0 DEF k, SessionsSound
<1>3. /\ sessions' \in [Token -> Nat] /\ sessions'[k] = 0
      /\ \A j \in Token : j # k => sessions'[j] = sessions[j]
  BY <1>0, <1>1, <1>2 DEF SessionsSound
<1> QED BY <1>0, <1>1, <1>2, <1>3 DEF SessionsStep, SessionsSound, LoggedOutStaysOut, Cookies

LEMMA AllSessionsSteps ==
    ASSUME AccessInv, [Next]_vars
    PROVE  SessionsStep
<1>0. SessionsSound /\ RequestTypes
  BY DEF AccessInv
<1>1. ASSUME UNCHANGED <<cookie, sessions, drawn, revoked>> PROVE SessionsStep
  BY <1>0, <1>1 DEF SessionsStep, SessionsSound, LoggedOutStaysOut
<1>2. CASE LoginPage
  BY <1>0, <1>2, SlideStep DEF LoginPage, SessionsSound
<1>3. ASSUME NEW r \in Request, Step(r) PROVE SessionsStep
  <2>1. CASE browserSessionAuth(r)
    <3>1. request[r].cookie \in Cookies
      BY <1>0 DEF RequestTypes, Requests
    <3> QED BY <3>1, <2>1, SlideStep DEF browserSessionAuth
  <2>2. ASSUME NEW k \in Token, BootstrapSession(r, k) \/ Login(r, k) PROVE SessionsStep
    BY <2>2, <1>1, IssueStep DEF BootstrapSession, Login
  <2> QED BY <1>1, <1>3, <2>1, <2>2, RevokeStep
          DEF Step, TokenAuth, BrowserGuard, RateLimit, Serve, IssueTicket
<1>4. ASSUME NEW r \in Request, Arrival(r) PROVE SessionsStep
  BY <1>1, <1>4 DEF Arrival, SendLogin, SendLogout, SendPage, SendTicketRequest, SendHandshake, Send
<1> QED BY <1>1, <1>2, <1>3, <1>4 DEF Next, Tick, vars

LEMMA TimeStep ==
    ASSUME AccessInv, [Next]_vars
    PROVE  now' \in 0 .. MaxTime
<1>1. now \in 0 .. MaxTime
  BY DEF AccessInv, SessionsSound
<1>2. CASE Tick
  BY <1>1, <1>2, AccessAssumption DEF Tick
<1>3. ASSUME NEW r \in Request, Arrival(r) PROVE now' = now
  BY <1>3 DEF Arrival, SendLogin, SendLogout, SendPage, SendTicketRequest, SendHandshake, Send
<1>4. ASSUME NEW r \in Request, Step(r) PROVE now' = now
  BY <1>4 DEF Step, browserSessionAuth, TokenAuth, BrowserGuard, RateLimit, Serve, Revoke,
              BootstrapSession, Login, IssueTicket
<1> QED BY <1>1, <1>2, <1>3, <1>4 DEF Next, LoginPage, vars

LEMMA SessionsPart ==
    ASSUME AccessInv, [Next]_vars
    PROVE  SessionsSound'
<1>1. SessionsStep /\ now' \in 0 .. MaxTime
  BY AllSessionsSteps, TimeStep
<1>2. SessionsSound
  BY DEF AccessInv
<1>3. \A k \in Token : sessions'[k] # 0 => k \in drawn'
  BY <1>1, <1>2 DEF SessionsStep, SessionsSound
<1>4. LoggedOutStaysOut'
  <2> SUFFICES ASSUME NEW k \in revoked', sessions'[k] # 0 PROVE FALSE
    BY DEF LoggedOutStaysOut
  <2>1. k \in Token
    BY <1>1 DEF SessionsStep
  <2>2. sessions[k] # 0 /\ k \in revoked
    BY <1>1, <2>1 DEF SessionsStep
  <2> QED BY <1>2, <2>2 DEF SessionsSound, LoggedOutStaysOut
<1> QED BY <1>1, <1>3, <1>4 DEF SessionsStep, SessionsSound

-----------------------------------------------------------------------------
\* Requests and windows.

LEMMA RequestsPart ==
    ASSUME AccessInv, [Next]_vars
    PROVE  RequestTypes' /\ RequestsSound'
<1>0. /\ request \in [Request -> Requests] /\ sends \in 0 .. MaxSends
      /\ \A r \in Request : Sound(request[r], drawn)
      /\ SessionsSound
  BY DEF AccessInv, RequestTypes, RequestsSound
<1>1. drawn \subseteq drawn'
  BY AllSessionsSteps DEF SessionsStep
<1>2. ASSUME NEW r \in Request, NEW q \in Requests, Sound(q, drawn),
             request' = [request EXCEPT ![r] = q]
      PROVE  request' \in [Request -> Requests] /\ RequestsSound'
  <2>1. \A s \in Request : Sound(request'[s], drawn)
    BY <1>0, <1>2
  <2>2. \A s \in Request : Sound(request'[s], drawn')
    BY <1>1, <2>1 DEF Sound
  <2> QED BY <1>0, <1>2, <2>2 DEF RequestsSound
<1>3. ASSUME request' = request PROVE RequestsSound'
  BY <1>0, <1>1, <1>3 DEF RequestsSound, Sound
<1>4. Idle \in Requests /\ Sound(Idle, drawn)
  BY DEF Idle, Requests, Sound, Kinds, Steps, Cookies
<1>5. ASSUME NEW r \in Request, End(r) PROVE request' \in [Request -> Requests] /\ RequestsSound'
  BY <1>2, <1>4, <1>5 DEF End
<1>6. ASSUME NEW r \in Request, NEW step \in Steps, Goto(r, step),
             Sound([request[r] EXCEPT !.at = step], drawn)
      PROVE  request' \in [Request -> Requests] /\ RequestsSound'
  <2>1. request[r] \in Requests
    BY <1>0
  <2>2. [request[r] EXCEPT !.at = step] \in Requests
    BY <2>1, <1>6 DEF Requests
  <2>3. request' = [request EXCEPT ![r] = [request[r] EXCEPT !.at = step]]
    BY <1>6 DEF Goto
  <2> QED BY <1>2, <1>6, <2>2, <2>3
<1>7. ASSUME NEW r \in Request, Arrival(r)
      PROVE  request' \in [Request -> Requests] /\ RequestsSound' /\ sends' \in 0 .. MaxSends
  <2>1. ASSUME NEW kind \in Kinds, NEW c \in Cookies, NEW t \in Ticket \cup {NoToken},
               NEW bearer \in BOOLEAN, Send(r, kind, c, t, bearer),
               kind = "handshake" => t \in Ticket, kind = "logout" => ~bearer
        PROVE  request' \in [Request -> Requests] /\ RequestsSound' /\ sends' \in 0 .. MaxSends
    <3> DEFINE q == [kind |-> kind, at |-> IF kind = "login" THEN "limit" ELSE "session",
                     cookie |-> c, ticket |-> t, bearer |-> bearer]
    <3>1. q \in Requests
      BY DEF Requests, Steps
    <3>2. Sound(q, drawn)
      BY <2>1 DEF Sound, Kinds
    <3>3. request' = [request EXCEPT ![r] = q]
      BY <2>1 DEF Send
    <3>4. sends' \in 0 .. MaxSends
      BY <1>0, <2>1, AccessAssumption DEF Send
    <3> HIDE DEF q
    <3> QED BY <1>2, <3>1, <3>2, <3>3, <3>4
  <2>2. cookie \in Cookies /\ NoToken \in Cookies
    BY <1>0 DEF SessionsSound, Cookies
  <2>3. CASE SendLogin(r) \/ SendLogout(r)
    BY <2>1, <2>2, <2>3 DEF SendLogin, SendLogout, Kinds
  <2>4. ASSUME NEW bearer \in BOOLEAN, SendPage(r, bearer) \/ SendTicketRequest(r, bearer)
        PROVE  request' \in [Request -> Requests] /\ RequestsSound' /\ sends' \in 0 .. MaxSends
    BY <2>1, <2>2, <2>4 DEF SendPage, SendTicketRequest, Kinds
  <2>5. ASSUME NEW c \in {cookie, NoToken}, NEW t \in Ticket, SendHandshake(r, c, t)
        PROVE  request' \in [Request -> Requests] /\ RequestsSound' /\ sends' \in 0 .. MaxSends
    BY <2>1, <2>2, <2>5 DEF SendHandshake, Kinds
  <2> QED BY <1>7, <2>3, <2>4, <2>5 DEF Arrival
<1>8. ASSUME NEW r \in Request, Step(r)
      PROVE  request' \in [Request -> Requests] /\ RequestsSound'
  <2>0. Sound(request[r], drawn) /\ request[r] \in Requests
    BY <1>0
  <2>1. CASE browserSessionAuth(r)
    <3>1. CASE End(r)
      BY <1>5, <3>1
    <3>2. CASE Goto(r, "bootstrap") /\ request[r].kind = "page" /\ At(r, "session")
      <4>1. Sound([request[r] EXCEPT !.at = "bootstrap"], drawn)
        BY <2>0, <3>2 DEF Sound, Requests
      <4> QED BY <1>6, <3>2, <4>1 DEF Steps
    <3>3. CASE Goto(r, "token") /\ At(r, "session")
      <4>1. Sound([request[r] EXCEPT !.at = "token"], drawn)
        BY <2>0, <3>3 DEF Sound, Requests, At
      <4> QED BY <1>6, <3>3, <4>1 DEF Steps
    <3>4. CASE /\ request' = [request EXCEPT ![r].at = "token", ![r].bearer = TRUE]
               /\ State(request[r].cookie) = "valid"
      <4> DEFINE q == [request[r] EXCEPT !.at = "token", !.bearer = TRUE]
      <4>1. request[r].cookie \in Token /\ sessions[request[r].cookie] > now
        BY <2>0, <3>4 DEF State, Requests, Cookies
      <4>2. request[r].cookie \in drawn
        BY <1>0, <4>1 DEF SessionsSound
      <4>3. q \in Requests
        BY <2>0 DEF Requests, Steps
      <4>4. Sound(q, drawn)
        BY <2>0, <4>2 DEF Sound, Requests
      <4>5. request' = [request EXCEPT ![r] = q]
        BY <3>4
      <4> HIDE DEF q
      <4> QED BY <1>2, <4>3, <4>4, <4>5
    <3> QED BY <2>1, <3>1, <3>2, <3>3, <3>4 DEF browserSessionAuth
  <2>2. ASSUME NEW k \in Token, BootstrapSession(r, k)
        PROVE  request' \in [Request -> Requests] /\ RequestsSound'
    <3>1. Goto(r, "token") /\ request[r].kind = "page"
      BY <2>0, <2>2 DEF BootstrapSession, At, Sound
    <3>2. Sound([request[r] EXCEPT !.at = "token"], drawn)
      BY <2>0, <3>1 DEF Sound, Requests
    <3> QED BY <1>6, <3>1, <3>2 DEF Steps
  <2>3. CASE TokenAuth(r)
    <3>1. CASE Goto(r, "guard") /\ At(r, "token") /\ (request[r].bearer \/ request[r].kind = "handshake")
      <4>1. Sound([request[r] EXCEPT !.at = "guard"], drawn)
        BY <2>0, <3>1 DEF Sound, Requests, At
      <4> QED BY <1>6, <3>1, <4>1 DEF Steps
    <3> QED BY <2>3, <3>1, <1>5 DEF TokenAuth
  <2>4. CASE BrowserGuard(r)
    <3>1. CASE Goto(r, "limit") /\ At(r, "guard")
      <4>1. Sound([request[r] EXCEPT !.at = "limit"], drawn)
        BY <2>0, <3>1 DEF Sound, Requests, At
      <4> QED BY <1>6, <3>1, <4>1 DEF Steps
    <3> QED BY <2>4, <3>1, <1>5 DEF BrowserGuard
  <2>5. CASE RateLimit(r)
    <3>1. CASE Goto(r, "handler") /\ At(r, "limit")
      <4>1. Sound([request[r] EXCEPT !.at = "handler"], drawn)
        BY <2>0, <3>1 DEF Sound, Requests, At
      <4> QED BY <1>6, <3>1, <4>1 DEF Steps
    <3> QED BY <2>5, <3>1, <1>5 DEF RateLimit
  <2>6. CASE Serve(r)
    <3>1. CASE Goto(r, "revoke") /\ At(r, "handler") /\ request[r].kind = "logout"
      <4>1. Sound([request[r] EXCEPT !.at = "revoke"], drawn)
        BY <2>0, <3>1 DEF Sound, Requests, At
      <4> QED BY <1>6, <3>1, <4>1 DEF Steps
    <3> QED BY <2>6, <3>1, <1>5 DEF Serve
  <2> QED BY <1>5, <1>8, <2>1, <2>2, <2>3, <2>4, <2>5, <2>6 DEF Step, Revoke, Login, IssueTicket
<1>9. ASSUME NEW r \in Request, Step(r) PROVE sends' = sends
  BY <1>9 DEF Step, browserSessionAuth, TokenAuth, BrowserGuard, RateLimit, Serve, Revoke,
              BootstrapSession, Login, IssueTicket
<1> QED BY <1>0, <1>3, <1>7, <1>8, <1>9 DEF Next, LoginPage, Tick, vars, RequestTypes

LEMMA CountedStep ==
    ASSUME VisitsSound, now \in Nat, NEW w \in Windows, Allowed(w)
    PROVE  Counted(w) \in [count : Nat, resetAt : Nat] /\ Counted(w).count <= LimitOf(w)
<1>1. visits[w] \in [count : Nat, resetAt : Nat] /\ LimitOf(w) \in Nat \ {0}
  BY AccessAssumption DEF VisitsSound, LimitOf
<1>2. CASE Fresh(w)
  BY <1>1, <1>2, AccessAssumption DEF Counted
<1>3. CASE ~Fresh(w)
  <2>1. visits[w].count < LimitOf(w)
    BY <1>3 DEF Allowed
  <2> QED BY <1>1, <1>3, <2>1 DEF Counted
<1> QED BY <1>2, <1>3

LEMMA VisitsPart ==
    ASSUME AccessInv, [Next]_vars
    PROVE  VisitsSound'
<1>0. VisitsSound /\ now \in Nat
  BY DEF AccessInv, SessionsSound
<1>1. CASE visits' = visits
  BY <1>0, <1>1 DEF VisitsSound, LimitOf
<1>2. ASSUME NEW which \in {"login", "api"}, NEW served, Limiter(which, served) PROVE VisitsSound'
  <2> DEFINE g == <<which, "global">>
             u == <<which, "route">>
  <2>1. g \in Windows /\ u \in Windows
    BY DEF Windows
  <2>2. ASSUME NEW w \in Windows, Allowed(w),
               visits' = [visits EXCEPT ![w] = Counted(w)]
        PROVE  VisitsSound'
    BY <1>0, <2>2, CountedStep DEF VisitsSound, LimitOf
  <2>3. ASSUME Allowed(g), Allowed(u),
               visits' = [visits EXCEPT ![g] = Counted(g), ![u] = Counted(u)]
        PROVE  VisitsSound'
    BY <1>0, <2>1, <2>3, CountedStep DEF VisitsSound, LimitOf
  <2> QED BY <1>1, <1>2, <2>1, <2>2, <2>3 DEF Limiter
<1>3. ASSUME NEW r \in Request, RateLimit(r) PROVE VisitsSound'
  BY <1>2, <1>3 DEF RateLimit
<1>4. ASSUME NEW r \in Request, Arrival(r) PROVE visits' = visits
  BY <1>4 DEF Arrival, SendLogin, SendLogout, SendPage, SendTicketRequest, SendHandshake, Send
<1>5. ASSUME NEW r \in Request, Step(r), ~RateLimit(r) PROVE visits' = visits
  BY <1>5 DEF Step, browserSessionAuth, TokenAuth, BrowserGuard, Serve, Revoke,
              BootstrapSession, Login, IssueTicket
<1> QED BY <1>1, <1>3, <1>4, <1>5 DEF Next, LoginPage, Tick, vars
-----------------------------------------------------------------------------
\* Tickets.

LEMMA Statuses ==
    /\ TicketStatus = [t \in Ticket |-> TicketStatus[t]]
    /\ \A t \in Ticket :
          /\ ticketLog[t] = "new" => TicketStatus[t] = "new"
          /\ ticketLog[t] = "accepted" => TicketStatus[t] = "spent"
          /\ ticketLog[t] = "issued" /\ tickets[t] = 0 => TicketStatus[t] = "void"
          /\ ticketLog[t] = "issued" /\ tickets[t] # 0 => TicketStatus[t] = "live"
<1>1. TicketStatus = [t \in Ticket |-> TicketStatus[t]]
  BY DEF TicketStatus
<1>2. ASSUME NEW t \in Ticket, ticketLog[t] = "new" PROVE TicketStatus[t] = "new"
  BY <1>2 DEF TicketStatus
<1>3. ASSUME NEW t \in Ticket, ticketLog[t] = "accepted" PROVE TicketStatus[t] = "spent"
  BY <1>3 DEF TicketStatus
<1>4. ASSUME NEW t \in Ticket, ticketLog[t] = "issued", tickets[t] = 0 PROVE TicketStatus[t] = "void"
  BY <1>4 DEF TicketStatus
<1>5. ASSUME NEW t \in Ticket, ticketLog[t] = "issued", tickets[t] # 0 PROVE TicketStatus[t] = "live"
  BY <1>5 DEF TicketStatus
<1> QED BY <1>1, <1>2, <1>3, <1>4, <1>5

LEMMA StatusesNext ==
    /\ TicketStatus' = [t \in Ticket |-> TicketStatus'[t]]
    /\ \A t \in Ticket :
          /\ ticketLog'[t] = "new" => TicketStatus'[t] = "new"
          /\ ticketLog'[t] = "accepted" => TicketStatus'[t] = "spent"
          /\ ticketLog'[t] = "issued" /\ tickets'[t] = 0 => TicketStatus'[t] = "void"
          /\ ticketLog'[t] = "issued" /\ tickets'[t] # 0 => TicketStatus'[t] = "live"
<1>1. TicketStatus' = [t \in Ticket |-> TicketStatus'[t]]
  BY DEF TicketStatus
<1>2. ASSUME NEW t \in Ticket, ticketLog'[t] = "new" PROVE TicketStatus'[t] = "new"
  BY <1>2 DEF TicketStatus
<1>3. ASSUME NEW t \in Ticket, ticketLog'[t] = "accepted" PROVE TicketStatus'[t] = "spent"
  BY <1>3 DEF TicketStatus
<1>4. ASSUME NEW t \in Ticket, ticketLog'[t] = "issued", tickets'[t] = 0 PROVE TicketStatus'[t] = "void"
  BY <1>4 DEF TicketStatus
<1>5. ASSUME NEW t \in Ticket, ticketLog'[t] = "issued", tickets'[t] # 0 PROVE TicketStatus'[t] = "live"
  BY <1>5 DEF TicketStatus
<1> QED BY <1>1, <1>2, <1>3, <1>4, <1>5

\* The abstract specification counts as this module does.
LEMMA SameCount == \A S : Tickets!Cardinality(S) = Cardinality(S)
BY DEF Tickets!Cardinality, Cardinality

\* What OneTimeTicket calls live and expired.
LEMMA View ==
    ASSUME TicketsSound, now \in Nat
    PROVE  /\ Tickets!Live = Outstanding
           /\ Tickets!Expired = {t \in Outstanding : tickets[t] <= now}
           /\ Kept(tickets) = Outstanding \ Tickets!Expired
<1>1. \A t \in Ticket : TicketStatus[t] = "live" <=> tickets[t] # 0
  BY Statuses DEF TicketsSound
<1>2. Tickets!Live = Outstanding
  BY <1>1 DEF Tickets!Live, Outstanding
<1>3. Tickets!Expired = {t \in Outstanding : tickets[t] <= now}
  BY <1>2 DEF Tickets!Expired
<1>4. Kept(tickets) = {t \in Ticket : tickets[t] > now}
  BY CleanedTables DEF TicketsSound
<1> QED BY <1>2, <1>3, <1>4 DEF Outstanding, TicketsSound

\* A step that leaves fewer tickets outstanding keeps their number in bounds.
LEMMA Withdrawn ==
    ASSUME TicketsSound, Outstanding' \subseteq Outstanding
    PROVE  IsFiniteSet(Outstanding') /\ Cardinality(Outstanding') <= MaxTickets
<1>1. /\ IsFiniteSet(Outstanding') /\ Cardinality(Outstanding') \in Nat
      /\ Cardinality(Outstanding) \in Nat /\ Cardinality(Outstanding') <= Cardinality(Outstanding)
  BY FS_Subset, FS_CardinalityType DEF TicketsSound
<1> QED BY <1>1, AccessAssumption DEF TicketsSound

\* A handshake with a ticket that has time left redeems it.
LEMMA RedeemStep ==
    ASSUME TicketsSound, now \in Nat, NEW t \in Ticket, tickets[t] > now,
           tickets' = Consumed(t), ticketLog' = [ticketLog EXCEPT ![t] = "accepted"], now' = now
    PROVE  TicketsSound' /\ Tickets!Redeem(t)
<1>1. /\ tickets' \in [Ticket -> Nat]
      /\ \A u \in Ticket : tickets'[u] = IF u # t /\ tickets[u] > now THEN tickets[u] ELSE 0
  BY CleanedTables DEF Consumed, TicketsSound
<1>2. /\ ticketLog' \in [Ticket -> {"new", "issued", "accepted"}]
      /\ \A u \in Ticket : ticketLog'[u] = IF u = t THEN "accepted" ELSE ticketLog[u]
  BY DEF TicketsSound
<1>3. TicketsSound'
  <2>1. \A u \in Ticket : ticketLog'[u] # "issued" => tickets'[u] = 0
    BY <1>1, <1>2 DEF TicketsSound
  <2>2. Outstanding' \subseteq Outstanding
    BY <1>1 DEF Outstanding
  <2> QED BY <1>1, <1>2, <2>1, <2>2, Withdrawn DEF TicketsSound
<1> DEFINE S == Tickets!Expired
<1>4. S = {u \in Ticket : tickets[u] # 0 /\ tickets[u] <= now} /\ t \in Tickets!Live \ S
  BY View DEF Outstanding, TicketsSound
<1>5. tickets' = [Tickets!Clear(S) EXCEPT ![t] = 0]
  <2>1. \A u \in Ticket : tickets'[u] = [Tickets!Clear(S) EXCEPT ![t] = 0][u]
    BY <1>1, <1>4 DEF Tickets!Clear, TicketsSound
  <2>2. [Tickets!Clear(S) EXCEPT ![t] = 0] = [u \in Ticket |-> [Tickets!Clear(S) EXCEPT ![t] = 0][u]]
    BY DEF Tickets!Clear
  <2>3. tickets' = [u \in Ticket |-> tickets'[u]]
    BY <1>1
  <2> QED BY <2>1, <2>2, <2>3
<1>6. TicketStatus' = [Tickets!Void(S) EXCEPT ![t] = "spent"]
  <2>1. \A u \in Ticket : TicketStatus'[u] = IF u = t THEN "spent" ELSE IF u \in S THEN "void" ELSE TicketStatus[u]
    <3>1. TicketStatus'[t] = "spent"
      BY <1>2, StatusesNext
    <3>2. ASSUME NEW u \in Ticket, u # t, u \in S PROVE TicketStatus'[u] = "void"
      <4>1. ticketLog'[u] = "issued" /\ tickets'[u] = 0
        BY <1>1, <1>2, <1>4, <3>2 DEF TicketsSound
      <4> QED BY <4>1, StatusesNext
    <3>3. ASSUME NEW u \in Ticket, u # t, u \notin S PROVE TicketStatus'[u] = TicketStatus[u]
      <4>1. ticketLog'[u] = ticketLog[u] /\ tickets'[u] = tickets[u]
        BY <1>1, <1>2, <1>4, <3>3 DEF TicketsSound
      <4> QED BY <4>1 DEF TicketStatus
    <3> QED BY <3>1, <3>2, <3>3
  <2>2. \A u \in Ticket : [Tickets!Void(S) EXCEPT ![t] = "spent"][u]
                           = IF u = t THEN "spent" ELSE IF u \in S THEN "void" ELSE TicketStatus[u]
    BY DEF Tickets!Void
  <2>3. [Tickets!Void(S) EXCEPT ![t] = "spent"] = [u \in Ticket |-> [Tickets!Void(S) EXCEPT ![t] = "spent"][u]]
    BY DEF Tickets!Void
  <2> QED BY <2>1, <2>2, <2>3, StatusesNext
<1>7. Tickets!Redeem(t)
  <2> HIDE DEF S
  <2>1. S \in SUBSET Tickets!Expired
    BY DEF S
  <2> QED BY <1>4, <1>5, <1>6, <2>1 DEF Tickets!Redeem, S
<1> QED BY <1>3, <1>7

\* One without time is refused, and expired tickets are cleaned up.
LEMMA LapseStep ==
    ASSUME TicketsSound, now \in Nat, NEW t \in Ticket, ~(tickets[t] > now),
           tickets' = Consumed(t), UNCHANGED <<ticketLog, now>>
    PROVE  TicketsSound' /\ Tickets!Lapse
<1>1. /\ tickets' \in [Ticket -> Nat]
      /\ \A u \in Ticket : tickets'[u] = IF tickets[u] > now THEN tickets[u] ELSE 0
  BY CleanedTables DEF Consumed, TicketsSound
<1>2. TicketsSound'
  <2>1. Outstanding' \subseteq Outstanding
    BY <1>1 DEF Outstanding
  <2> QED BY <1>1, <2>1, Withdrawn DEF TicketsSound
<1> DEFINE S == Tickets!Expired
<1>3. S = {u \in Ticket : tickets[u] # 0 /\ tickets[u] <= now}
  BY View DEF Outstanding, TicketsSound
<1>4. tickets' = Tickets!Clear(S)
  BY <1>1, <1>3 DEF Tickets!Clear, TicketsSound
<1>5. TicketStatus' = Tickets!Void(S)
  <2>1. ASSUME NEW u \in Ticket, u \in S PROVE TicketStatus'[u] = "void"
    <3>1. ticketLog'[u] = "issued" /\ tickets'[u] = 0
      BY <1>1, <1>3, <2>1 DEF TicketsSound
    <3> QED BY <3>1, StatusesNext
  <2>2. ASSUME NEW u \in Ticket, u \notin S PROVE TicketStatus'[u] = TicketStatus[u]
    <3>1. ticketLog'[u] = ticketLog[u] /\ tickets'[u] = tickets[u]
      BY <1>1, <1>3, <2>2 DEF TicketsSound
    <3> QED BY <3>1 DEF TicketStatus
  <2> HIDE DEF S
  <2>3. \A u \in Ticket : TicketStatus'[u] = IF u \in S THEN "void" ELSE TicketStatus[u]
    BY <2>1, <2>2
  <2> QED BY <2>3, StatusesNext DEF Tickets!Void
<1> QED BY <1>2, <1>4, <1>5 DEF Tickets!Lapse

\* A new ticket is granted, the one nearest its end withdrawn for it when the
\* table is full.
LEMMA GrantStep ==
    ASSUME TicketsSound, now \in Nat, NEW t \in Ticket, ticketLog[t] = "new",
           Insert(tickets, t, now + TicketTTL, MaxTickets, tickets'),
           ticketLog' = [ticketLog EXCEPT ![t] = "issued"], now' = now
    PROVE  TicketsSound' /\ Tickets!Grant(t)
<1>0. tickets \in [Ticket -> Nat] /\ now + TicketTTL \in Nat /\ now + TicketTTL # 0
  BY AccessAssumption DEF TicketsSound
<1>1. PICK gone \in SUBSET Kept(tickets) :
        Issued(Ticket, tickets, t, now + TicketTTL, MaxTickets, tickets', gone)
  BY <1>0, EntryIssued
<1> DEFINE S == Tickets!Expired \cup gone
<1>2. /\ Tickets!Live = Outstanding
      /\ Tickets!Expired = {u \in Ticket : tickets[u] # 0 /\ tickets[u] <= now}
      /\ Kept(tickets) = Tickets!Live \ Tickets!Expired
      /\ t \notin Tickets!Live
  BY View DEF Outstanding, TicketsSound
<1>3. /\ \A u \in Ticket : u # t => tickets'[u] = IF u \in S THEN 0 ELSE tickets[u]
      /\ tickets' \in [Ticket -> Nat] /\ tickets'[t] = now + TicketTTL
  <2>1. /\ tickets' \in [Ticket -> Nat] /\ tickets'[t] = now + TicketTTL
        /\ \A u \in Ticket : u # t => tickets'[u] = IF tickets[u] > now /\ u \notin gone THEN tickets[u] ELSE 0
    BY <1>1 DEF Issued
  <2>2. ASSUME NEW u \in Ticket, u # t PROVE tickets'[u] = IF u \in S THEN 0 ELSE tickets[u]
    <3>1. tickets[u] \in Nat /\ (u \in Tickets!Expired <=> tickets[u] # 0 /\ tickets[u] <= now)
      BY <1>0, <1>2
    <3> QED BY <2>1, <2>2, <3>1
  <2> QED BY <2>1, <2>2
<1>4. /\ ticketLog' \in [Ticket -> {"new", "issued", "accepted"}]
      /\ \A u \in Ticket : ticketLog'[u] = IF u = t THEN "issued" ELSE ticketLog[u]
  BY DEF TicketsSound
<1>5. /\ IsFiniteSet(Tickets!Live \ S) /\ Cardinality(Tickets!Live \ S) \in Nat
      /\ Cardinality(Tickets!Live \ S) < MaxTickets
  <2>1. /\ IsFiniteSet(Kept(tickets)) /\ Cardinality(Kept(tickets)) \in Nat
        /\ Cardinality(Kept(tickets)) <= MaxTickets
    <3>1. Kept(tickets) \subseteq Outstanding
      BY <1>2
    <3>2. IsFiniteSet(Outstanding) /\ Cardinality(Outstanding) <= MaxTickets /\ Cardinality(Outstanding) \in Nat
      BY FS_CardinalityType DEF TicketsSound
    <3> QED BY <3>1, <3>2, FS_Subset, FS_CardinalityType, AccessAssumption
  <2>2. Tickets!Live \ S = Kept(tickets) \ gone
    BY <1>2
  <2>3. CASE gone = {} /\ Cardinality(Kept(tickets)) < MaxTickets
    <3>1. Tickets!Live \ S = Kept(tickets)
      BY <2>2, <2>3
    <3> QED BY <2>1, <2>3, <3>1
  <2>4. ASSUME NEW old \in Kept(tickets), gone = {old}
        PROVE  <1>5
    <3>1. /\ IsFiniteSet(Kept(tickets) \ {old})
          /\ Cardinality(Kept(tickets) \ {old}) = Cardinality(Kept(tickets)) - 1
      BY <2>1, FS_RemoveElement
    <3>2. Cardinality(Kept(tickets) \ {old}) \in Nat
      BY <3>1, FS_CardinalityType
    <3> QED BY <2>1, <2>2, <2>4, <3>1, <3>2, AccessAssumption
  <2> QED BY <1>1, <2>3, <2>4 DEF Issued
<1>6. Tickets!Room(S)
  <2>1. CASE gone = {} /\ Cardinality(Kept(tickets)) < MaxTickets
    <3>1. S = Tickets!Expired /\ Cardinality(Tickets!Live \ Tickets!Expired) < MaxTickets
      BY <1>2, <2>1
    <3> QED BY <3>1, SameCount DEF Tickets!Room
  <2>2. ASSUME NEW old \in Kept(tickets), gone = {old},
               \A j \in Kept(tickets) : tickets[old] <= tickets[j],
               Cardinality(Kept(tickets)) >= MaxTickets
        PROVE  Tickets!Room(S)
    <3>1. /\ old \in Tickets!Live \ Tickets!Expired
          /\ \A j \in Tickets!Live \ Tickets!Expired : tickets[old] <= tickets[j]
          /\ S \subseteq Tickets!Expired \cup {old}
      BY <1>2, <2>2
    <3>2. ~(Cardinality(Tickets!Live \ Tickets!Expired) < MaxTickets)
      <4>1. Cardinality(Kept(tickets)) \in Nat
        <5>1. IsFiniteSet(Kept(tickets))
          BY <1>2, FS_Subset DEF TicketsSound
        <5> QED BY <5>1, FS_CardinalityType
      <4> QED BY <1>2, <2>2, <4>1, AccessAssumption
    <3> HIDE DEF S
    <3> QED BY <3>1, <3>2, SameCount DEF Tickets!Room
  <2> QED BY <1>1, <2>1, <2>2 DEF Issued
<1>7. TicketsSound'
  <2>1. \A u \in Ticket : ticketLog'[u] # "issued" => tickets'[u] = 0
    BY <1>3, <1>4 DEF TicketsSound
  <2>2. Outstanding' = (Tickets!Live \ S) \cup {t} /\ t \notin Tickets!Live \ S
    BY <1>0, <1>2, <1>3 DEF Outstanding
  <2>3. IsFiniteSet(Outstanding') /\ Cardinality(Outstanding') = Cardinality(Tickets!Live \ S) + 1
    BY <1>5, <2>2, FS_AddElement
  <2>4. Cardinality(Outstanding') <= MaxTickets
    BY <1>5, <2>3, AccessAssumption
  <2> QED BY <1>3, <1>4, <2>1, <2>3, <2>4 DEF TicketsSound
<1>8. S \in SUBSET Tickets!Live
  BY <1>2 DEF Outstanding
<1>9. tickets' = [Tickets!Clear(S) EXCEPT ![t] = now + TicketTTL]
  <2> HIDE DEF S
  <2>1. \A u \in Ticket : tickets'[u] = [Tickets!Clear(S) EXCEPT ![t] = now + TicketTTL][u]
    BY <1>3 DEF Tickets!Clear
  <2>2. [Tickets!Clear(S) EXCEPT ![t] = now + TicketTTL]
          = [u \in Ticket |-> [Tickets!Clear(S) EXCEPT ![t] = now + TicketTTL][u]]
    BY DEF Tickets!Clear
  <2>3. tickets' = [u \in Ticket |-> tickets'[u]]
    BY <1>3
  <2> QED BY <2>1, <2>2, <2>3
<1>10. TicketStatus' = [Tickets!Void(S) EXCEPT ![t] = "live"]
  <2>1. TicketStatus'[t] = "live"
    BY <1>0, <1>3, <1>4, StatusesNext
  <2>2. ASSUME NEW u \in Ticket, u # t, u \in S PROVE TicketStatus'[u] = "void"
    <3>1. ticketLog'[u] = "issued" /\ tickets'[u] = 0
      BY <1>2, <1>3, <1>4, <1>8, <2>2 DEF TicketsSound, Outstanding
    <3> QED BY <3>1, StatusesNext
  <2>3. ASSUME NEW u \in Ticket, u # t, u \notin S PROVE TicketStatus'[u] = TicketStatus[u]
    <3>1. ticketLog'[u] = ticketLog[u] /\ tickets'[u] = tickets[u]
      BY <1>3, <1>4, <2>3
    <3> QED BY <3>1 DEF TicketStatus
  <2> HIDE DEF S
  <2>4. \A u \in Ticket : TicketStatus'[u] = IF u = t THEN "live" ELSE IF u \in S THEN "void" ELSE TicketStatus[u]
    BY <2>1, <2>2, <2>3
  <2>5. \A u \in Ticket : [Tickets!Void(S) EXCEPT ![t] = "live"][u]
                           = IF u = t THEN "live" ELSE IF u \in S THEN "void" ELSE TicketStatus[u]
    BY DEF Tickets!Void
  <2>6. [Tickets!Void(S) EXCEPT ![t] = "live"] = [u \in Ticket |-> [Tickets!Void(S) EXCEPT ![t] = "live"][u]]
    BY DEF Tickets!Void
  <2> QED BY <2>4, <2>5, <2>6, StatusesNext
<1>11. Tickets!Grant(t)
  <2>1. TicketStatus[t] = "new"
    BY Statuses
  <2> HIDE DEF S
  <2> QED BY <1>5, <1>6, <1>8, <1>9, <1>10, <2>1, SameCount DEF Tickets!Grant
<1> QED BY <1>7, <1>11

LEMMA TicketsPart ==
    ASSUME AccessInv, [Next]_vars
    PROVE  TicketsSound' /\ [Tickets!Next]_(Tickets!vars)
<1>0. /\ TicketsSound /\ now \in Nat
      /\ \A r \in Request : request[r].kind = "handshake" => request[r].ticket \in Ticket
  BY DEF AccessInv, SessionsSound, RequestsSound, Sound
<1>1. ASSUME UNCHANGED <<tickets, ticketLog>> PROVE TicketsSound' /\ TicketStatus' = TicketStatus
  BY <1>0, <1>1 DEF TicketsSound, Outstanding, TicketStatus
<1>2. ASSUME UNCHANGED <<now, tickets, ticketLog>> PROVE TicketsSound' /\ UNCHANGED Tickets!vars
  BY <1>1, <1>2 DEF Tickets!vars
<1>3. CASE Tick
  BY <1>1, <1>3 DEF Tick, Tickets!Next, Tickets!Tick
<1>4. ASSUME NEW r \in Request, TokenAuth(r)
      PROVE  TicketsSound' /\ [Tickets!Next]_(Tickets!vars)
  <2>1. CASE UNCHANGED <<tickets, ticketLog>>
    BY <1>2, <1>4, <2>1 DEF TokenAuth
  <2>2. CASE ~UNCHANGED <<tickets, ticketLog>>
    <3> DEFINE t == request[r].ticket
    <3>1. t \in Ticket /\ tickets' = Consumed(t) /\ now' = now
      BY <1>0, <1>4, <2>2 DEF TokenAuth
    <3>2. CASE tickets[t] > now
      <4>1. ticketLog' = [ticketLog EXCEPT ![t] = "accepted"]
        BY <1>4, <2>2, <3>2 DEF TokenAuth
      <4> HIDE DEF t
      <4>2. TicketsSound' /\ Tickets!Redeem(t)
        BY <1>0, <3>1, <3>2, <4>1, RedeemStep
      <4> QED BY <3>1, <4>2 DEF Tickets!Next
    <3>3. CASE ~(tickets[t] > now)
      <4>1. ticketLog' = ticketLog
        BY <1>4, <2>2, <3>3 DEF TokenAuth
      <4> HIDE DEF t
      <4>2. TicketsSound' /\ Tickets!Lapse
        BY <1>0, <3>1, <3>3, <4>1, LapseStep
      <4> QED BY <4>2 DEF Tickets!Next
    <3> QED BY <3>2, <3>3
  <2> QED BY <2>1, <2>2
<1>5. ASSUME NEW r \in Request, NEW t \in Ticket, IssueTicket(r, t)
      PROVE  TicketsSound' /\ [Tickets!Next]_(Tickets!vars)
  <2>1. TicketsSound' /\ Tickets!Grant(t)
    BY <1>0, <1>5, GrantStep DEF IssueTicket
  <2> QED BY <2>1 DEF Tickets!Next
<1>6. ASSUME NEW r \in Request, Arrival(r) PROVE UNCHANGED <<now, tickets, ticketLog>>
  BY <1>6 DEF Arrival, SendLogin, SendLogout, SendPage, SendTicketRequest, SendHandshake, Send
<1>7. ASSUME NEW r \in Request, Step(r), ~TokenAuth(r), \A t \in Ticket : ~IssueTicket(r, t)
      PROVE  UNCHANGED <<now, tickets, ticketLog>>
  BY <1>7 DEF Step, browserSessionAuth, BrowserGuard, RateLimit, Serve, Revoke, BootstrapSession, Login
<1>8. ASSUME NEW r \in Request, Step(r)
      PROVE  TicketsSound' /\ [Tickets!Next]_(Tickets!vars)
  BY <1>2, <1>4, <1>5, <1>7, <1>8
<1> QED BY <1>2, <1>3, <1>6, <1>8 DEF Next, LoginPage, vars

-----------------------------------------------------------------------------

LEMMA AccessInit == Init => AccessInv /\ Tickets!Init
<1> SUFFICES ASSUME Init PROVE AccessInv /\ Tickets!Init
  OBVIOUS
<1>1. SessionsSound
  BY AccessAssumption DEF Init, SessionsSound, LoggedOutStaysOut, Cookies
<1>2. TicketsSound
  <2>1. Outstanding = {}
    BY DEF Init, Outstanding
  <2> QED BY <2>1, FS_EmptySet, AccessAssumption DEF Init, TicketsSound
<1>3. VisitsSound
  BY AccessAssumption DEF Init, VisitsSound, LimitOf
<1>4. RequestTypes /\ RequestsSound
  <2>1. Idle \in Requests /\ Sound(Idle, drawn)
    BY DEF Idle, Requests, Sound, Kinds, Steps, Cookies
  <2> QED BY <2>1, AccessAssumption DEF Init, RequestTypes, RequestsSound
<1>5. Tickets!Init
  <2>1. \A t \in Ticket : TicketStatus[t] = "new"
    BY Statuses DEF Init
  <2> QED BY <2>1, Statuses DEF Init, Tickets!Init
<1> QED BY <1>1, <1>2, <1>3, <1>4, <1>5 DEF AccessInv

LEMMA AccessNext == AccessInv /\ [Next]_vars => AccessInv'
BY SessionsPart, TicketsPart, VisitsPart, RequestsPart DEF AccessInv

\* The tables, windows and requests keep their types, and a session that logged
\* out never authenticates again (sessionState, Revoke, Issue), for any number of
\* requests that race with the logout.
THEOREM LoggedOutStaysOutTheorem == Spec => [](AccessTypeOK /\ LoggedOutStaysOut)
<1>1. AccessInv => AccessTypeOK /\ LoggedOutStaysOut
  BY DEF AccessInv, AccessTypeOK, SessionsSound, TicketsSound, VisitsSound, RequestTypes, Requests
<1> QED BY <1>1, AccessInit, AccessNext, PTL DEF Spec

\* A session with time left is lost only by a logout, or to a new session when at
\* least MaxSessions have time left, and then it is the one nearest its end and
\* the only one that goes (Issue, cleanupExpiredLocked, evictOldestLocked), for
\* any limit, lifetime and number of requests at a time.
THEOREM SessionsKeptTheorem == Spec => SessionsKept
<1>1. AccessInv /\ [Next]_vars =>
        [\A k \in Token :
          sessions[k] > now /\ sessions'[k] = 0 =>
              \/ k \in revoked'
              \/ /\ drawn' # drawn /\ Cardinality(Kept(sessions)) >= MaxSessions
                 /\ \A j \in Kept(sessions) \ {k} :
                       sessions[k] <= sessions[j] /\ sessions'[j] # 0]_vars
  BY AllSessionsSteps DEF SessionsStep
<1> QED BY <1>1, AccessInit, AccessNext, PTL DEF Spec, SessionsKept

\* The ticket table (Issue and ValidateAndConsume of WSTicketManager) implements
\* one-time tickets for any number of requests, tickets and any limit.
THEOREM TicketsOneTimeTheorem == Spec => TicketsOneTime
<1>1. AccessInv /\ [Next]_vars => [Tickets!Next]_(Tickets!vars)
  BY TicketsPart
<1> QED BY <1>1, AccessInit, AccessNext, PTL DEF Spec, TicketsOneTime, Tickets!Spec

-----------------------------------------------------------------------------
(* The WebSocket hub.  The argument rests on the lock: a broadcast in its  *)
(* loop holds hub.mu for reading, so that nothing it has yet to send to    *)
(* leaves the hub, and what is in the hub is open.                         *)

\* What the hub holds is past its handshake and open.
TableSound ==
    /\ \A c \in clients : stage[c] \in {"registered", "served"} /\ ~send[c].closed
    /\ \A c \in reader : stage[c] = "served"
    /\ \A c \in missed : stage[c] \in {"registered", "served"}

\* A broadcast in its loop has only registered clients before it, and one that
\* is over has nobody left to drop.
CastsSound ==
    \A s \in Caster : /\ cast[s].at = "send" => cast[s].todo \subseteq clients
                      /\ cast[s].at = "idle" => cast[s].stale = {}

HubInv ==
    /\ HubTypeOK /\ TableSound /\ CastsSound
    /\ SlotsAccounted /\ NoPanic /\ MissedAreDropped

-----------------------------------------------------------------------------
\* Counting.

LEMMA Adding ==
    ASSUME NEW S, IsFiniteSet(S), NEW x, x \notin S
    PROVE  Cardinality(S \cup {x}) = Cardinality(S) + 1 /\ Cardinality(S) \in Nat
BY FS_AddElement, FS_CardinalityType

LEMMA Removing ==
    ASSUME NEW S, IsFiniteSet(S), NEW x \in S
    PROVE  Cardinality(S \ {x}) = Cardinality(S) - 1 /\ Cardinality(S) \in Nat
BY FS_RemoveElement, FS_CardinalityType

LEMMA Fewer ==
    ASSUME NEW S, IsFiniteSet(S), NEW T \in SUBSET S
    PROVE  /\ IsFiniteSet(T)
           /\ Cardinality(T) \in Nat /\ Cardinality(S) \in Nat
           /\ Cardinality(T) <= Cardinality(S)
BY FS_Subset, FS_CardinalityType

\* The sets that are counted are finite.
LEMMA HubSetsFinite ==
    ASSUME HubTypeOK
    PROVE  /\ IsFiniteSet(Upgrading) /\ IsFiniteSet(clients) /\ IsFiniteSet(reader)
           /\ Cardinality(clients) \in Nat /\ Cardinality(Upgrading) \in Nat
           /\ Cardinality(reader) \in Nat
<1>1. Upgrading \in SUBSET Client /\ clients \in SUBSET Client /\ reader \in SUBSET Client
  BY DEF Upgrading, HubTypeOK
<1> QED BY <1>1, Fewer, HubAssumption

-----------------------------------------------------------------------------
\* Handshakes.

LEMMA ReserveStep ==
    ASSUME HubInv, NEW c \in Client, reserveSlot(c)
    PROVE  HubInv'
<1> USE DEF HubInv, reserveSlot
<1>1. HubTypeOK'
  BY DEF HubTypeOK
<1>2. TableSound'
  BY DEF HubTypeOK, TableSound
<1>3. SlotsAccounted'
  <2>1. CASE HasRoom
    <3>1. Upgrading' = Upgrading \cup {c} /\ c \notin Upgrading
      BY <2>1 DEF Upgrading, HubTypeOK
    <3>2. Cardinality(Upgrading') = Cardinality(Upgrading) + 1
      BY <3>1, HubSetsFinite, Adding
    <3> QED BY <2>1, <3>2, HubSetsFinite, HubAssumption DEF SlotsAccounted, HasRoom, HubTypeOK
  <2>2. CASE ~HasRoom
    <3>1. Upgrading' = Upgrading
      BY <2>2 DEF Upgrading, HubTypeOK
    <3> QED BY <2>2, <3>1 DEF SlotsAccounted
  <2> QED BY <2>1, <2>2
<1> QED BY <1>1, <1>2, <1>3 DEF CastsSound, NoPanic, MissedAreDropped

LEMMA ReleaseStep ==
    ASSUME HubInv, NEW c \in Client, releasePendingSlot(c)
    PROVE  HubInv'
<1> USE DEF HubInv, releasePendingSlot
<1>1. HubTypeOK'
  BY DEF HubTypeOK
<1>2. TableSound'
  BY DEF HubTypeOK, TableSound
<1>3. SlotsAccounted'
  <2>1. Upgrading' = Upgrading \ {c} /\ c \in Upgrading
    BY DEF Upgrading, HubTypeOK
  <2>2. Cardinality(Upgrading') = Cardinality(Upgrading) - 1 /\ Cardinality(Upgrading') \in Nat
    <3>1. Upgrading' \in SUBSET Upgrading
      BY <2>1
    <3> QED BY <2>1, <3>1, HubSetsFinite, Removing, Fewer
  <2> QED BY <2>2, HubSetsFinite, HubAssumption DEF SlotsAccounted, HubTypeOK
<1> QED BY <1>1, <1>2, <1>3 DEF CastsSound, NoPanic, MissedAreDropped

\* A client that registers has an open channel: only that of a registered client
\* is closed.
EarlyOpen ==
    \A c \in Client : stage[c] \in {"new", "reserved"} => ~send[c].closed

LEMMA RegisterStep ==
    ASSUME HubInv, EarlyOpen, NEW c \in Client, Register(c)
    PROVE  HubInv'
<1> USE DEF HubInv, Register
<1>1. Upgrading' = Upgrading \ {c} /\ c \in Upgrading
  BY DEF Upgrading, HubTypeOK
<1>2. Cardinality(Upgrading') = Cardinality(Upgrading) - 1 /\ Cardinality(Upgrading') \in Nat
  <2>1. Upgrading' \in SUBSET Upgrading
    BY <1>1
  <2> QED BY <1>1, <2>1, HubSetsFinite, Removing, Fewer
<1>3. HubTypeOK'
  <2>1. pending' \in Nat
    BY <1>2 DEF SlotsAccounted
  <2> QED BY <2>1 DEF HubTypeOK
<1>4. TableSound'
  BY DEF HubTypeOK, TableSound, EarlyOpen
<1>5. SlotsAccounted'
  <2>1. c \notin clients
    BY DEF TableSound
  <2>2. Cardinality(clients') = Cardinality(clients) + 1
    BY <2>1, HubSetsFinite, Adding
  <2> QED BY <1>2, <2>2, HubSetsFinite, HubAssumption DEF SlotsAccounted, HubTypeOK
<1>6. MissedAreDropped'
  BY DEF MissedAreDropped, TableSound
<1> QED BY <1>3, <1>4, <1>5, <1>6 DEF CastsSound, NoPanic

LEMMA StartStep ==
    ASSUME HubInv, NEW c \in Client, StartPumps(c)
    PROVE  HubInv'
<1> USE DEF HubInv, StartPumps
<1>1. HubTypeOK'
  BY DEF HubTypeOK
<1>2. TableSound'
  BY DEF HubTypeOK, TableSound
<1>3. SlotsAccounted'
  <2>1. c \notin reader
    BY DEF TableSound
  <2>2. Cardinality(reader') = Cardinality(reader) + 1
    BY <2>1, HubSetsFinite, Adding
  <2>3. Upgrading' = Upgrading
    BY DEF Upgrading, HubTypeOK
  <2> QED BY <2>2, <2>3 DEF SlotsAccounted
<1> QED BY <1>1, <1>2, <1>3 DEF CastsSound, NoPanic, MissedAreDropped

-----------------------------------------------------------------------------
\* Broadcasts.

LEMMA BroadcastStep ==
    ASSUME HubInv, NEW s \in Caster, Broadcast(s)
    PROVE  HubInv'
<1> USE DEF HubInv, Broadcast
<1>1. [at |-> "send", todo |-> clients, stale |-> {}]
        \in [at : {"idle", "send", "drop"}, todo : SUBSET Client, stale : SUBSET Client]
  BY DEF HubTypeOK
<1>2. HubTypeOK'
  BY <1>1, HubAssumption DEF HubTypeOK
<1>3. CastsSound'
  BY DEF CastsSound, HubTypeOK
<1>4. SlotsAccounted'
  BY DEF SlotsAccounted, Upgrading
<1>5. MissedAreDropped'
  <2> SUFFICES ASSUME NEW c \in missed \cap clients
               PROVE  \E u \in Caster : c \in cast'[u].stale
    BY DEF MissedAreDropped
  <2>1. PICK u \in Caster : c \in cast[u].stale
    BY DEF MissedAreDropped
  <2>2. u # s
    BY <2>1 DEF CastsSound
  <2> QED BY <2>1, <2>2 DEF HubTypeOK
<1> QED BY <1>2, <1>3, <1>4, <1>5 DEF TableSound, NoPanic

LEMMA OfferStep ==
    ASSUME HubInv, NEW s \in Caster, NEW c \in Client, Offer(s, c)
    PROVE  HubInv'
<1> USE DEF HubInv
<1>1. /\ cast[s].at = "send" /\ c \in cast[s].todo /\ c \in clients /\ ~send[c].closed
      /\ send[c].n \in 0 .. SendBuffer
  BY DEF Offer, CastsSound, TableSound, HubTypeOK
<1>2. /\ UNCHANGED <<clients, pending, stage, conn, writer, reader, gauge, shut, events>>
      /\ panicked' = panicked
  <2>1. panicked' = (panicked \/ send[c].closed)
    BY DEF Offer
  <2>2. panicked \in BOOLEAN
    BY DEF HubTypeOK
  <2>3. panicked' = panicked
    BY <1>1, <2>1, <2>2
  <2> QED BY <2>3 DEF Offer
<1> DEFINE full == send[c].n = SendBuffer
           left == cast[s].todo \ {c}
           late == IF full THEN cast[s].stale \cup {c} ELSE cast[s].stale
<1>3. /\ cast[s] \in [at : {"idle", "send", "drop"}, todo : SUBSET Client, stale : SUBSET Client]
      /\ cast' \in [Caster -> [at : {"idle", "send", "drop"}, todo : SUBSET Client, stale : SUBSET Client]]
      /\ \A u \in Caster : u # s => cast'[u] = cast[u]
      /\ cast'[s].at = "send" /\ cast'[s].todo = left /\ cast'[s].stale = late
  BY <1>1 DEF Offer, HubTypeOK
<1>4. /\ send' \in [Client -> [n : 0 .. SendBuffer, closed : BOOLEAN]]
      /\ \A d \in Client : send'[d].closed = send[d].closed
  <2>1. CASE full
    BY <2>1, <1>1 DEF Offer, HubTypeOK
  <2>2. CASE ~full
    <3>1. send' = [send EXCEPT ![c].n = @ + 1] /\ send \in [Client -> [n : 0 .. SendBuffer, closed : BOOLEAN]]
      BY <2>2, <1>1 DEF Offer, HubTypeOK
    <3>2. send[c].n + 1 \in 0 .. SendBuffer
      BY <2>2, <1>1, HubAssumption
    <3> QED BY <3>1, <3>2
  <2> QED BY <2>1, <2>2
<1>5. missed' = IF full THEN missed \cup {c} ELSE missed
  BY DEF Offer
<1> HIDE DEF full, left, late
<1>6. HubTypeOK'
  BY <1>2, <1>3, <1>4, <1>5 DEF HubTypeOK
<1>7. TableSound'
  BY <1>1, <1>2, <1>4, <1>5 DEF TableSound, HubTypeOK
<1>8. CastsSound'
  <2>1. clients' = clients /\ left \subseteq clients
    BY <1>1, <1>2 DEF CastsSound, left
  <2>2. /\ cast'[s].at = "send" /\ cast'[s].todo = left
        /\ \A u \in Caster : u # s => cast'[u] = cast[u]
    BY <1>3
  <2>3. ASSUME NEW u \in Caster
        PROVE  /\ cast'[u].at = "send" => cast'[u].todo \subseteq clients'
               /\ cast'[u].at = "idle" => cast'[u].stale = {}
    <3>1. CASE u = s
      BY <3>1, <2>1, <2>2
    <3>2. CASE u # s
      BY <3>2, <2>1, <2>2 DEF CastsSound
    <3> QED BY <3>1, <3>2
  <2> QED BY <2>3 DEF CastsSound
<1>9. SlotsAccounted'
  BY <1>2 DEF SlotsAccounted, Upgrading
<1>10. MissedAreDropped'
  <2> SUFFICES ASSUME NEW d \in missed' \cap clients'
               PROVE  \E u \in Caster : d \in cast'[u].stale
    BY DEF MissedAreDropped
  <2>1. CASE d \in missed
    <3>1. PICK u \in Caster : d \in cast[u].stale
      BY <2>1, <1>2 DEF MissedAreDropped
    <3> QED BY <3>1, <1>3 DEF late
  <2>2. CASE d \notin missed
    <3>1. full /\ d = c
      BY <2>2, <1>5
    <3> QED BY <3>1, <1>3 DEF late
  <2> QED BY <2>1, <2>2
<1> QED BY <1>2, <1>6, <1>7, <1>8, <1>9, <1>10 DEF NoPanic

LEMMA EndLoopStep ==
    ASSUME HubInv, NEW s \in Caster, EndLoop(s)
    PROVE  HubInv'
<1> USE DEF HubInv, EndLoop
<1>1. /\ cast' \in [Caster -> [at : {"idle", "send", "drop"}, todo : SUBSET Client, stale : SUBSET Client]]
      /\ \A u \in Caster : cast'[u].stale = cast[u].stale /\ (u # s => cast'[u] = cast[u])
      /\ cast'[s].at = IF cast[s].stale # {} THEN "drop" ELSE "idle"
  BY DEF HubTypeOK
<1>2. HubTypeOK'
  BY <1>1 DEF HubTypeOK
<1>3. CastsSound'
  BY <1>1 DEF CastsSound
<1>4. MissedAreDropped'
  BY <1>1 DEF MissedAreDropped
<1> QED BY <1>2, <1>3, <1>4 DEF TableSound, NoPanic, SlotsAccounted, Upgrading

LEMMA DropStep ==
    ASSUME HubInv, NEW s \in Caster, DropStale(s)
    PROVE  HubInv'
<1> USE DEF HubInv
<1>1. /\ \A u \in Caster : cast[u].at # "send"
      /\ clients' = clients \ ToDrop(s)
      /\ UNCHANGED <<pending, stage, conn, writer, reader, gauge, missed, shut, events>>
  BY DEF DropStale, Unread
<1>2. panicked' = panicked
  <2>1. ~ \E c \in ToDrop(s) : send[c].closed
    BY DEF ToDrop, TableSound
  <2>2. panicked' = (panicked \/ \E c \in ToDrop(s) : send[c].closed) /\ panicked \in BOOLEAN
    BY DEF DropStale, HubTypeOK
  <2> QED BY <2>1, <2>2
<1>3. /\ send' \in [Client -> [n : 0 .. SendBuffer, closed : BOOLEAN]]
      /\ \A c \in Client \ ToDrop(s) : send'[c] = send[c]
  BY DEF DropStale, Close, HubTypeOK
<1>4. /\ cast' \in [Caster -> [at : {"idle", "send", "drop"}, todo : SUBSET Client, stale : SUBSET Client]]
      /\ \A u \in Caster : u # s => cast'[u] = cast[u]
      /\ cast'[s].at = "idle" /\ cast'[s].stale = {}
  BY DEF DropStale, NoCast, HubTypeOK
<1>5. HubTypeOK'
  BY <1>1, <1>2, <1>3, <1>4 DEF HubTypeOK
<1>6. TableSound'
  BY <1>1, <1>3 DEF TableSound, HubTypeOK
<1>7. CastsSound'
  BY <1>1, <1>4 DEF CastsSound
<1>8. SlotsAccounted'
  <2>1. Cardinality(clients') <= Cardinality(clients) /\ Cardinality(clients') \in Nat
    <3>1. clients' \in SUBSET clients
      BY <1>1
    <3> QED BY <3>1, HubSetsFinite, Fewer
  <2>2. Upgrading' = Upgrading
    BY <1>1 DEF Upgrading
  <2> QED BY <1>1, <2>1, <2>2, HubSetsFinite, HubAssumption DEF SlotsAccounted, HubTypeOK
<1>9. MissedAreDropped'
  <2> SUFFICES ASSUME NEW c \in missed' \cap clients'
               PROVE  \E u \in Caster : c \in cast'[u].stale
    BY DEF MissedAreDropped
  <2>1. PICK u \in Caster : c \in cast[u].stale
    BY <1>1 DEF MissedAreDropped
  <2>2. u # s
    BY <1>1, <2>1 DEF ToDrop
  <2> QED BY <1>4, <2>1, <2>2
<1> QED BY <1>2, <1>5, <1>6, <1>7, <1>8, <1>9 DEF NoPanic

-----------------------------------------------------------------------------
\* The pumps and the connection change neither table nor casts, but for the
\* reader that leaves.

LEMMA PumpStep ==
    ASSUME HubInv, NEW c \in Client,
           WriteMessage(c) \/ WriteClose(c) \/ Ping(c) \/ ConnectionLost(c)
    PROVE  HubInv'
<1> USE DEF HubInv
<1>1. UNCHANGED <<clients, pending, stage, reader, gauge, cast, missed, shut, panicked, events>>
  BY DEF WriteMessage, WriteClose, Ping, ConnectionLost
<1>2. /\ writer' \subseteq Client
      /\ conn' \in [Client -> {"up", "down"}]
  BY DEF WriteMessage, WriteClose, Ping, ConnectionLost, StopWriter, HubTypeOK
<1>3. /\ send' \in [Client -> [n : 0 .. SendBuffer, closed : BOOLEAN]]
      /\ \A d \in Client : send'[d].closed = send[d].closed
  <2>0. send \in [Client -> [n : 0 .. SendBuffer, closed : BOOLEAN]]
    BY DEF HubTypeOK
  <2>1. CASE WriteMessage(c)
    <3>1. send' = [send EXCEPT ![c].n = @ - 1] /\ send[c].n > 0
      BY <2>1 DEF WriteMessage
    <3>2. send[c].n - 1 \in 0 .. SendBuffer
      BY <2>0, <3>1, HubAssumption
    <3> QED BY <2>0, <3>1, <3>2
  <2>2. CASE WriteClose(c) \/ Ping(c) \/ ConnectionLost(c)
    BY <2>0, <2>2 DEF WriteClose, Ping, ConnectionLost
  <2> QED BY <2>1, <2>2
<1>4. HubTypeOK'
  BY <1>1, <1>2, <1>3 DEF HubTypeOK
<1>5. TableSound'
  BY <1>1, <1>3 DEF TableSound, HubTypeOK
<1> QED BY <1>1, <1>4, <1>5 DEF CastsSound, SlotsAccounted, Upgrading, NoPanic, MissedAreDropped

LEMMA ReaderStep ==
    ASSUME HubInv, NEW c \in Client, StopReader(c)
    PROVE  HubInv'
<1> USE DEF HubInv, StopReader
<1>1. HubTypeOK'
  BY DEF HubTypeOK
<1>2. SlotsAccounted'
  <2>1. Cardinality(clients') <= Cardinality(clients) /\ Cardinality(clients') \in Nat
    <3>1. clients' \in SUBSET clients
      OBVIOUS
    <3> QED BY <3>1, HubSetsFinite, Fewer
  <2>2. Cardinality(reader') = Cardinality(reader) - 1
    BY HubSetsFinite, Removing
  <2>3. Upgrading' = Upgrading
    BY DEF Upgrading
  <2> QED BY <2>1, <2>2, <2>3, HubSetsFinite, HubAssumption DEF SlotsAccounted, HubTypeOK
<1>3. CastsSound'
  BY DEF CastsSound, Unread
<1> QED BY <1>1, <1>2, <1>3 DEF TableSound, NoPanic, MissedAreDropped

LEMMA CloseStep ==
    ASSUME HubInv, CloseHub
    PROVE  HubInv'
<1> USE DEF HubInv
<1>1. /\ \A u \in Caster : cast[u].at # "send"
      /\ clients' = {} /\ shut' = TRUE
      /\ UNCHANGED <<pending, stage, writer, reader, gauge, cast, missed, events>>
  BY DEF CloseHub, Unread
<1>2. panicked' = panicked
  <2>1. ~ \E c \in clients : send[c].closed
    BY DEF TableSound
  <2>2. panicked' = (panicked \/ \E c \in clients : send[c].closed) /\ panicked \in BOOLEAN
    BY DEF CloseHub, HubTypeOK
  <2> QED BY <2>1, <2>2
<1>3. /\ send' \in [Client -> [n : 0 .. SendBuffer, closed : BOOLEAN]]
      /\ conn' \in [Client -> {"up", "down"}]
  BY DEF CloseHub, Close, HubTypeOK
<1>4. HubTypeOK'
  BY <1>1, <1>2, <1>3 DEF HubTypeOK
<1>5. SlotsAccounted'
  <2>1. Cardinality(clients') <= Cardinality(clients) /\ Cardinality(clients') \in Nat
    <3>1. clients' \in SUBSET clients
      BY <1>1
    <3> QED BY <3>1, HubSetsFinite, Fewer
  <2>2. Upgrading' = Upgrading
    BY <1>1 DEF Upgrading
  <2> QED BY <1>1, <2>1, <2>2, HubSetsFinite, HubAssumption DEF SlotsAccounted, HubTypeOK
<1>6. TableSound'
  BY <1>1 DEF TableSound
<1> QED BY <1>1, <1>2, <1>4, <1>5, <1>6 DEF CastsSound, NoPanic, MissedAreDropped

-----------------------------------------------------------------------------

LEMMA HubStarts == HubInit => HubInv /\ EarlyOpen
<1> SUFFICES ASSUME HubInit PROVE HubInv /\ EarlyOpen
  OBVIOUS
<1>1. HubTypeOK
  <2>1. /\ EmptyChan \in [n : 0 .. SendBuffer, closed : BOOLEAN]
        /\ NoCast \in [at : {"idle", "send", "drop"}, todo : SUBSET Client, stale : SUBSET Client]
    BY HubAssumption DEF NoCast, EmptyChan
  <2>2. /\ stage \in [Client -> {"new", "reserved", "registered", "served", "refused"}]
        /\ conn \in [Client -> {"up", "down"}]
        /\ 0 \in 0 .. MaxEvents
    BY HubAssumption DEF HubInit
  <2>3. /\ send \in [Client -> [n : 0 .. SendBuffer, closed : BOOLEAN]]
        /\ cast \in [Caster -> [at : {"idle", "send", "drop"}, todo : SUBSET Client,
                                 stale : SUBSET Client]]
    BY <2>1 DEF HubInit
  <2>4. /\ clients \subseteq Client /\ pending \in Nat /\ writer \subseteq Client
        /\ reader \subseteq Client /\ gauge \in Int /\ missed \subseteq Client
    BY DEF HubInit
  <2>5. shut \in BOOLEAN /\ panicked \in BOOLEAN /\ events \in 0 .. MaxEvents
    BY <2>2 DEF HubInit
  <2> QED BY <2>2, <2>3, <2>4, <2>5 DEF HubTypeOK
<1>2. SlotsAccounted
  <2>1. Upgrading = {}
    BY DEF HubInit, Upgrading
  <2> QED BY <2>1, FS_EmptySet, HubAssumption DEF HubInit, SlotsAccounted
<1> QED BY <1>1, <1>2 DEF HubInit, HubInv, TableSound, CastsSound, NoPanic, MissedAreDropped,
                          EarlyOpen, NoCast, EmptyChan

\* Only what is in the hub is closed.
LEMMA OpenStep ==
    ASSUME HubInv, EarlyOpen, [HubNext]_hubVars
    PROVE  EarlyOpen'
<1> SUFFICES ASSUME NEW d \in Client, stage'[d] \in {"new", "reserved"}
             PROVE  ~send'[d].closed
  BY DEF EarlyOpen
<1>0. /\ send \in [Client -> [n : 0 .. SendBuffer, closed : BOOLEAN]]
      /\ stage \in [Client -> {"new", "reserved", "registered", "served", "refused"}]
  BY DEF HubInv, HubTypeOK
<1>1. stage[d] \in {"new", "reserved"}
  BY <1>0 DEF HubNext, Handshake, Pumping, Casting, hubVars, reserveSlot, releasePendingSlot, Register,
         StartPumps, Broadcast, Offer, EndLoop, DropStale, WriteMessage, WriteClose, Ping,
         ConnectionLost, StopReader, CloseHub
<1>2. d \notin clients /\ ~send[d].closed
  BY <1>1 DEF HubInv, TableSound, EarlyOpen
<1>3. send'[d].closed = send[d].closed
  <2>1. ASSUME NEW c \in Client, Handshake(c) \/ Pumping(c) \/ ConnectionLost(c)
        PROVE  send'[d].closed = send[d].closed
    BY <1>0, <2>1 DEF Handshake, Pumping, reserveSlot, releasePendingSlot, Register, StartPumps,
         WriteMessage, WriteClose, Ping, ConnectionLost, StopReader
  <2>2. ASSUME NEW s \in Caster, Casting(s)
        PROVE  send'[d].closed = send[d].closed
    <3>1. ASSUME NEW c \in Client, Offer(s, c) PROVE send'[d].closed = send[d].closed
      BY <1>0, <3>1 DEF Offer
    <3>2. ASSUME DropStale(s) PROVE send'[d].closed = send[d].closed
      BY <1>0, <1>2, <3>2 DEF DropStale, Close, ToDrop
    <3> QED BY <2>2, <3>1, <3>2 DEF Casting, Broadcast, EndLoop
  <2>3. ASSUME CloseHub PROVE send'[d].closed = send[d].closed
    BY <1>0, <1>2, <2>3 DEF CloseHub, Close
  <2> QED BY <2>1, <2>2, <2>3 DEF HubNext, hubVars
<1> QED BY <1>2, <1>3

LEMMA HubKept ==
    ASSUME HubInv, EarlyOpen, [HubNext]_hubVars
    PROVE  HubInv'
<1>1. ASSUME NEW c \in Client, Handshake(c) \/ Pumping(c) \/ ConnectionLost(c)
      PROVE  HubInv'
  BY <1>1, ReserveStep, ReleaseStep, RegisterStep, StartStep, PumpStep, ReaderStep
     DEF Handshake, Pumping
<1>2. ASSUME NEW s \in Caster, Casting(s)
      PROVE  HubInv'
  BY <1>2, BroadcastStep, OfferStep, EndLoopStep, DropStep DEF Casting
<1>3. CASE UNCHANGED hubVars
  BY <1>3 DEF hubVars, HubInv, HubTypeOK, TableSound, CastsSound, SlotsAccounted, Upgrading,
              NoPanic, MissedAreDropped
<1> QED BY <1>1, <1>2, <1>3, CloseStep DEF HubNext

\* The hub keeps its types, and no goroutine sends on a closed channel or closes
\* one twice (Broadcast, Close, readPump), for any clients and broadcasts.
THEOREM HubNoPanic == HubSpec => [](HubTypeOK /\ NoPanic)
<1>1. HubInv => HubTypeOK /\ NoPanic
  BY DEF HubInv
<1> QED BY <1>1, HubStarts, HubKept, OpenStep, PTL DEF HubSpec

\* Slots, limit and gauge (reserveSlot, releasePendingSlot, HandleWebSocket) agree
\* with the connections for any number of handshakes and any limit.
THEOREM SlotsAccountedTheorem == HubSpec => []SlotsAccounted
<1>1. HubInv => SlotsAccounted
  BY DEF HubInv
<1> QED BY <1>1, HubStarts, HubKept, OpenStep, PTL DEF HubSpec

\* A client that missed an event is held by a broadcast that will drop it, or has
\* left the hub (Broadcast), for any number of broadcasts at once.
THEOREM MissedAreDroppedTheorem == HubSpec => []MissedAreDropped
<1>1. HubInv => MissedAreDropped
  BY DEF HubInv
<1> QED BY <1>1, HubStarts, HubKept, OpenStep, PTL DEF HubSpec

-----------------------------------------------------------------------------
(* The configuration and the indexer client.                               *)

\* What is in the file, in memory and about to be saved passes the start-up
\* check.  The web section is one word, so a copy has it from one of these.
WebSafe ==
    /\ StartsWith(file) /\ StartsWith(cfg)
    /\ \A r \in Editor : edit[r] # NoChange => StartsWith(edit[r].next)

InAgreement == file = cfg /\ limit = cfg.storage /\ cfg.indexers \subseteq known

\* How far a lone request in state e has come: what it has written is what it
\* is to write, and the rest is still in agreement.
Progress(e) ==
    /\ e.at = "save" => InAgreement
    /\ e.at \in {"storage", "web", "indexers", "refresh", "limit"} => file = e.next
    /\ e.at \in {"web", "indexers", "refresh", "limit"} => cfg.storage = e.next.storage
    /\ e.at \in {"indexers", "refresh", "limit"} => cfg.web = e.next.web
    /\ e.at \in {"refresh", "limit"} => cfg.indexers = e.next.indexers
    /\ e.at = "limit" => e.next.indexers \subseteq known
    /\ e.at # "idle" /\ ~e.refresh =>
          /\ e.at # "refresh"
          /\ e.next.indexers = cfg.indexers /\ e.next.indexers \subseteq known

Alone(r) == \A q \in Editor : edit[q] # NoChange => q = r

AgreeInv ==
    serial =>
        /\ (\A r \in Editor : edit[r] = NoChange) => InAgreement
        /\ \A r \in Editor : edit[r] # NoChange => Alone(r) /\ Progress(edit[r])

\* Who can still be asked, or is being asked, is reached now.
ReachedInv ==
    /\ \A i \in Indexer : reached[i] <= clock
    /\ \A i \in Reachable : reached[i] = clock
    /\ AnswersExpire

\* A request that has begun is at a step; one that has not is idle.
LEMMA EditShape ==
    ASSUME NEW e \in {NoChange} \cup Edits
    PROVE  /\ e # NoChange => e \in Edits
           /\ e = NoChange <=> e.at = "idle"
<1>1. NoChange.at = "idle"
  BY DEF NoChange
<1>2. \A x \in Edits : x.at # "idle"
  BY DEF Edits
<1> QED BY <1>1, <1>2

\* A request goes from one step to another, or ends.
LEMMA EditMoves ==
    ASSUME ConfigTypeOK, NEW r \in Editor, NEW from,
           NEW to \in {"idle", "save", "storage", "web", "indexers", "refresh", "limit"},
           from # "idle", EditStep(r, from, to)
    PROVE  /\ edit[r] \in Edits /\ edit[r].at = from /\ edit[r] # NoChange
           /\ edit' \in [Editor -> {NoChange} \cup Edits]
           /\ \A q \in Editor \ {r} : edit'[q] = edit[q]
           /\ to = "idle" => edit'[r] = NoChange
           /\ to # "idle" => /\ edit'[r] \in Edits /\ edit'[r] # NoChange
                             /\ edit'[r].at = to /\ edit'[r].next = edit[r].next
                             /\ edit'[r].refresh = edit[r].refresh
<1> DEFINE e == [edit[r] EXCEPT !.at = to]
<1>1. edit[r] \in {NoChange} \cup Edits /\ edit[r].at = from
  BY DEF ConfigTypeOK, EditStep
<1>2. edit[r] \in Edits /\ edit[r] # NoChange
  BY <1>1, EditShape
<1>3. CASE to = "idle"
  <2>1. edit' = [edit EXCEPT ![r] = NoChange]
    BY <1>3 DEF EditStep
  <2> QED BY <1>1, <1>2, <1>3, <2>1 DEF ConfigTypeOK
<1>4. CASE to # "idle"
  <2>1. edit' = [edit EXCEPT ![r] = e]
    BY <1>4 DEF EditStep
  <2>2. e \in Edits /\ e.at = to /\ e.next = edit[r].next /\ e.refresh = edit[r].refresh
    BY <1>2, <1>4 DEF Edits
  <2> HIDE DEF e
  <2>3. e # NoChange
    BY <1>4, <2>2, EditShape
  <2> QED BY <1>1, <1>2, <1>4, <2>1, <2>2, <2>3 DEF ConfigTypeOK
<1> QED BY <1>3, <1>4

\* The steps of a request but its first.
LEMMA ChangeSteps ==
    ASSUME NEW r \in Editor, Change(r)
    PROVE  \/ \E refresh \in BOOLEAN : \E next :
                 /\ Begin(r, next, refresh)
                 /\ \/ next \in Edited(refresh) /\ Accepted(next)
                    \/ \E s \in Storage : next = [cfg EXCEPT !.storage = s] /\ ~refresh
           \/ Save(r) \/ SaveFails(r)
           \/ AssignStorage(r) \/ AssignWeb(r) \/ AssignIndexers(r)
           \/ SetIndexers(r) \/ SetStorageLimit(r)
<1>1. CASE UpdateNodeConfig(r)
  BY <1>1, Zenon DEF UpdateNodeConfig
<1>2. CASE saveOnboardingStorageContribution(r)
  BY <1>2, Zenon DEF saveOnboardingStorageContribution
<1> QED BY <1>1, <1>2 DEF Change

\* What a request begins with: a copy of the configuration with one section
\* changed, checked if it is the web UI's; the list of indexers is passed on if
\* it is the one that changed.
LEMMA BeginMoves ==
    ASSUME ConfigTypeOK, NEW r \in Editor, NEW refresh \in BOOLEAN, NEW next,
           Begin(r, next, refresh),
           \/ next \in Edited(refresh) /\ Accepted(next)
           \/ \E s \in Storage : next = [cfg EXCEPT !.storage = s] /\ ~refresh
    PROVE  /\ next \in Config
           /\ next.web = cfg.web \/ Accepted(next)
           /\ ~refresh => next.indexers = cfg.indexers
           /\ edit[r] = NoChange
           /\ edit' \in [Editor -> {NoChange} \cup Edits]
           /\ \A q \in Editor \ {r} : edit'[q] = edit[q]
           /\ edit'[r] \in Edits /\ edit'[r] # NoChange /\ edit'[r].at = "save"
           /\ edit'[r].next = next /\ edit'[r].refresh = refresh
<1> DEFINE e == [at |-> "save", next |-> next, refresh |-> refresh]
<1>0. cfg \in Config
  BY DEF ConfigTypeOK
<1>3. /\ next \in Config
      /\ next.web = cfg.web \/ Accepted(next)
      /\ ~refresh => next.indexers = cfg.indexers
  <2>1. CASE \E s \in Storage : next = [cfg EXCEPT !.storage = s] /\ ~refresh
    BY <1>0, <2>1 DEF Config
  <2>2. CASE next \in Edited(refresh) /\ Accepted(next) /\ refresh
    <3>1. PICK l \in SUBSET Indexer : next = [cfg EXCEPT !.indexers = l]
      BY <2>2 DEF Edited, normalizeIndexerURLs
    <3> QED BY <1>0, <2>2, <3>1 DEF Config
  <2>3. CASE next \in Edited(refresh) /\ Accepted(next) /\ ~refresh
    <3>1. \/ \E s \in Storage : next = [cfg EXCEPT !.storage = s]
          \/ \E w \in WebUI : next = [cfg EXCEPT !.web = w]
      BY <2>3 DEF Edited
    <3> QED BY <1>0, <2>3, <3>1 DEF Config
  <2> QED BY <2>1, <2>2, <2>3
<1>4. e \in Edits /\ e.at = "save" /\ e.next = next /\ e.refresh = refresh
  BY <1>3 DEF Edits
<1>5. edit[r] = NoChange /\ edit' = [edit EXCEPT ![r] = e]
  BY DEF Begin
<1> HIDE DEF e
<1>6. e # NoChange
  BY <1>4, EditShape
<1> QED BY <1>3, <1>4, <1>5, <1>6 DEF ConfigTypeOK

-----------------------------------------------------------------------------
(* Types.                                                                  *)

NodeTypes ==
    /\ file \in Config /\ cfg \in Config /\ limit \in Storage /\ known \subseteq Indexer
    /\ edit \in [Editor -> {NoChange} \cup Edits]
    /\ reached \in [Indexer -> 0..MaxTicks] /\ serial \in BOOLEAN
    /\ updates \in Nat /\ failures \in Nat

ClientTypes ==
    /\ search \in [Searcher -> Searches]
    /\ \A s \in Searcher : ~(search[s].at = "idle") => search[s].query \in Query
    /\ \A s \in Searcher : search[s].at \in {"copy", "ask"} => search[s].left > 0
    /\ cache \in [Query -> [until : Nat, sources : SUBSET Indexer]]
    /\ clock \in 0..MaxTicks /\ queries \in Nat

LEMMA TypesAre == ConfigTypeOK <=> NodeTypes /\ ClientTypes
BY DEF ConfigTypeOK, NodeTypes, ClientTypes

\* A request that changes the configuration.
LEMMA ChangeTypes ==
    ASSUME ConfigTypeOK, NEW r \in Editor, Change(r)
    PROVE  NodeTypes' /\ UNCHANGED <<search, cache, clock, queries>>
<1>0. /\ NodeTypes /\ clock \in 0..MaxTicks
      /\ \A u \in SUBSET Indexer : Learn(u) \in [Indexer -> 0..MaxTicks]
  BY DEF ConfigTypeOK, NodeTypes, Learn
<1>1. ASSUME NEW refresh \in BOOLEAN, NEW next, Begin(r, next, refresh),
             \/ next \in Edited(refresh) /\ Accepted(next)
             \/ \E s \in Storage : next = [cfg EXCEPT !.storage = s] /\ ~refresh
      PROVE  NodeTypes' /\ UNCHANGED <<search, cache, clock, queries>>
  <2>1. edit' \in [Editor -> {NoChange} \cup Edits]
    BY <1>1, BeginMoves
  <2> QED BY <1>0, <1>1, <2>1 DEF Begin, NodeTypes, client
<1>2. CASE Save(r)
  <2>1. edit[r] \in Edits /\ edit' \in [Editor -> {NoChange} \cup Edits]
    BY <1>2, EditMoves DEF Save
  <2>2. edit[r].next \in Config
    BY <2>1 DEF Edits
  <2> QED BY <1>0, <1>2, <2>1, <2>2 DEF Save, EditStep, NodeTypes
<1>3. CASE SaveFails(r)
  <2>1. edit[r] \in Edits /\ edit' \in [Editor -> {NoChange} \cup Edits]
    BY <1>3, EditMoves DEF SaveFails
  <2>2. edit[r].next \in Config
    BY <2>1 DEF Edits
  <2>3. file' \in Config /\ serial' \in BOOLEAN
    BY <1>0, <1>3, <2>2 DEF SaveFails, NodeTypes
  <2> QED BY <1>0, <1>3, <2>1, <2>3 DEF SaveFails, EditStep, NodeTypes
<1>4. CASE AssignStorage(r)
  <2>1. edit[r] \in Edits /\ edit' \in [Editor -> {NoChange} \cup Edits]
    BY <1>4, EditMoves DEF AssignStorage
  <2>2. cfg' \in Config
    BY <1>0, <1>4, <2>1 DEF AssignStorage, NodeTypes, Edits, Config
  <2> QED BY <1>0, <1>4, <2>1, <2>2 DEF AssignStorage, EditStep, NodeTypes
<1>5. CASE AssignWeb(r)
  <2>1. edit[r] \in Edits /\ edit' \in [Editor -> {NoChange} \cup Edits]
    BY <1>5, EditMoves DEF AssignWeb
  <2>2. cfg' \in Config
    BY <1>0, <1>5, <2>1 DEF AssignWeb, NodeTypes, Edits, Config
  <2> QED BY <1>0, <1>5, <2>1, <2>2 DEF AssignWeb, EditStep, NodeTypes
<1>6. CASE AssignIndexers(r)
  <2>1. edit[r] \in Edits /\ edit' \in [Editor -> {NoChange} \cup Edits]
    BY <1>6, EditMoves DEF AssignIndexers
  <2>2. cfg' \in Config
    BY <1>0, <1>6, <2>1 DEF AssignIndexers, NodeTypes, Edits, Config
  <2> QED BY <1>0, <1>6, <2>1, <2>2 DEF AssignIndexers, EditStep, NodeTypes
<1>7. CASE SetIndexers(r)
  <2>1. edit[r] \in Edits /\ edit' \in [Editor -> {NoChange} \cup Edits]
    BY <1>7, EditMoves DEF SetIndexers
  <2>2. edit[r].next.indexers \in SUBSET Indexer
    BY <2>1 DEF Edits, Config
  <2> QED BY <1>0, <1>7, <2>1, <2>2 DEF SetIndexers, EditStep, NodeTypes
<1>8. CASE SetStorageLimit(r)
  <2>1. edit[r] \in Edits /\ edit' \in [Editor -> {NoChange} \cup Edits]
    BY <1>8, EditMoves DEF SetStorageLimit
  <2>2. edit[r].next.storage \in Storage
    BY <2>1 DEF Edits, Config
  <2> QED BY <1>0, <1>8, <2>1, <2>2 DEF SetStorageLimit, EditStep, NodeTypes
<1> QED BY <1>1, <1>2, <1>3, <1>4, <1>5, <1>6, <1>7, <1>8, ChangeSteps

\* A query goes on.
LEMMA SearchTypes ==
    ASSUME ClientTypes, NEW s \in Searcher, NEW x \in Searches,
           search' = [search EXCEPT ![s] = x],
           x.at # "idle" => x.query \in Query, x.at \in {"copy", "ask"} => x.left > 0,
           cache' \in [Query -> [until : Nat, sources : SUBSET Indexer]],
           clock' = clock, queries' \in Nat
    PROVE  ClientTypes'
BY DEF ClientTypes

LEMMA CleanedTypes ==
    ASSUME ClientTypes
    PROVE  /\ NoEntry \in [until : Nat, sources : SUBSET Indexer]
           /\ Cleaned \in [Query -> [until : Nat, sources : SUBSET Indexer]]
<1>1. NoEntry \in [until : Nat, sources : SUBSET Indexer]
  BY DEF NoEntry
<1> QED BY <1>1 DEF ClientTypes, Cleaned

\* A query that is over leaves one more to make, or all made.
LEMMA EndedTypes ==
    ASSUME NEW x \in Searches, x.left > 0
    PROVE  /\ Ended(x) \in Searches /\ Ended(x).query = x.query
           /\ Ended(x).at \in {"store", "copy"} /\ (Ended(x).at = "copy" => Ended(x).left > 0)
           /\ Ended(x).snapshot = {} /\ Ended(x).sources = x.sources
<1>1. x.left \in 1..2
  BY DEF Searches
<1>2. CASE x.left = 1
  <2>1. Ended(x) = [x EXCEPT !.snapshot = {}, !.left = 0, !.at = "store"]
    BY <1>2 DEF Ended
  <2>2. 0 \in 0..2 /\ {} \in SUBSET Indexer /\ "store" \in {"idle", "copy", "ask", "store"}
    OBVIOUS
  <2>3. Ended(x) \in Searches
    BY <2>1, <2>2 DEF Searches
  <2>4. /\ Ended(x).query = x.query /\ Ended(x).at = "store" /\ Ended(x).left = 0
        /\ Ended(x).snapshot = {} /\ Ended(x).sources = x.sources
    BY <2>1 DEF Searches
  <2> QED BY <2>3, <2>4
<1>3. CASE x.left = 2
  <2>1. Ended(x) = [x EXCEPT !.snapshot = {}, !.left = 1, !.at = "copy"]
    BY <1>3 DEF Ended
  <2>2. 1 \in 0..2 /\ {} \in SUBSET Indexer /\ "copy" \in {"idle", "copy", "ask", "store"}
    OBVIOUS
  <2>3. Ended(x) \in Searches
    BY <2>1, <2>2 DEF Searches
  <2>4. /\ Ended(x).query = x.query /\ Ended(x).at = "copy" /\ Ended(x).left = 1
        /\ Ended(x).snapshot = {} /\ Ended(x).sources = x.sources
    BY <2>1 DEF Searches
  <2> QED BY <2>3, <2>4
<1> QED BY <1>1, <1>2, <1>3

LEMMA SearchingTypes ==
    ASSUME ConfigTypeOK, NEW s \in Searcher, Searching(s)
    PROVE  ClientTypes' /\ UNCHANGED <<node, known, clock, reached>>
<1> USE ConfigAssumption
<1> DEFINE j == search[s]
<1>0. /\ ClientTypes /\ j \in Searches /\ known \subseteq Indexer
      /\ (j.at # "idle" => j.query \in Query) /\ (j.at \in {"copy", "ask"} => j.left > 0)
      /\ NoSearch \in Searches /\ NoSearch.at = "idle" /\ j.left \in 0..2
  BY DEF ConfigTypeOK, ClientTypes, NoSearch, Searches
<1>1. ASSUME NEW q \in Query, Lookup(s, q)
      PROVE  ClientTypes' /\ UNCHANGED <<node, known, clock, reached>>
  <2>1. queries' \in Nat /\ UNCHANGED <<node, known, clock, reached>>
    BY <1>0, <1>1 DEF Lookup, ClientTypes
  <2>2. CASE Live(q)
    BY <1>0, <1>1, <2>1, <2>2 DEF Lookup, Hit, ClientTypes
  <2>3. CASE ~Live(q)
    <3> DEFINE n == IF q \in Trending THEN 2 ELSE 1
               x == [NoSearch EXCEPT !.at = "copy", !.query = q, !.left = n]
    <3>2. search' = [search EXCEPT ![s] = x] /\ cache' = [cache EXCEPT ![q] = NoEntry]
      BY <1>1, <2>3 DEF Lookup
    <3>4. n \in 0..2 /\ n > 0
      OBVIOUS
    <3> HIDE DEF n
    <3>1. x \in Searches /\ x.query \in Query /\ x.left > 0
      BY <3>4 DEF NoSearch, Searches
    <3> HIDE DEF x
    <3>3. cache' \in [Query -> [until : Nat, sources : SUBSET Indexer]]
      BY <1>0, <3>2, CleanedTypes DEF ClientTypes
    <3> QED BY <1>0, <2>1, <3>1, <3>2, <3>3, SearchTypes
  <2> QED BY <2>2, <2>3
<1>2. CASE CopyIndexers(s)
  <2> DEFINE x == [j EXCEPT !.snapshot = known, !.at = "ask"]
  <2>1. j.at = "copy" /\ search' = [search EXCEPT ![s] = x]
    BY <1>2 DEF CopyIndexers
  <2>2. x \in Searches /\ x.query = j.query /\ x.left = j.left
    BY <1>0 DEF Searches
  <2> HIDE DEF x
  <2>3. UNCHANGED <<node, known, clock, reached, cache, queries>>
    BY <1>2 DEF CopyIndexers
  <2> QED BY <1>0, <2>1, <2>2, <2>3, SearchTypes DEF ClientTypes
<1>3. CASE Answered(s)
  <2>1. PICK i \in j.snapshot :
          search' = [search EXCEPT ![s] = [Ended(j) EXCEPT !.sources = j.sources \cup {i}]]
    BY <1>3, Zenon DEF Answered
  <2> DEFINE x == [Ended(j) EXCEPT !.sources = j.sources \cup {i}]
  <2>2. search' = [search EXCEPT ![s] = x] /\ j.at = "ask" /\ i \in Indexer
    BY <1>0, <1>3, <2>1 DEF Answered, Searches
  <2>3. /\ Ended(j) \in Searches /\ Ended(j).query = j.query
        /\ (Ended(j).at = "copy" => Ended(j).left > 0) /\ Ended(j).at \in {"store", "copy"}
    BY <1>0, <2>2, EndedTypes
  <2>6. j.sources \cup {i} \in SUBSET Indexer
    BY <1>0, <2>2 DEF Searches
  <2>4. /\ x \in Searches /\ x.query = Ended(j).query
        /\ x.at = Ended(j).at /\ x.left = Ended(j).left
    BY <2>3, <2>6 DEF Searches
  <2> HIDE DEF x
  <2>5. UNCHANGED <<node, known, clock, reached, cache, queries>>
    BY <1>3 DEF Answered
  <2> QED BY <1>0, <2>2, <2>3, <2>4, <2>5, SearchTypes DEF ClientTypes
<1>4. CASE Failed(s)
  <2>0. UNCHANGED <<node, known, clock, reached, cache, queries>>
        /\ j.at \in {"copy", "ask"}
    BY <1>4 DEF Failed
  <2>1. CASE j.query \notin Trending
    <3>1. search' = [search EXCEPT ![s] = NoSearch]
      BY <1>4, <2>1 DEF Failed
    <3> QED BY <1>0, <2>0, <3>1, SearchTypes DEF ClientTypes
  <2>2. CASE j.query \in Trending
    <3>1. search' = [search EXCEPT ![s] = Ended(j)]
      BY <1>4, <2>2 DEF Failed
    <3>2. /\ Ended(j) \in Searches /\ Ended(j).query = j.query
          /\ (Ended(j).at = "copy" => Ended(j).left > 0) /\ Ended(j).at \in {"store", "copy"}
      BY <1>0, <2>0, EndedTypes
    <3> QED BY <1>0, <2>0, <3>1, <3>2, SearchTypes DEF ClientTypes
  <2> QED BY <2>1, <2>2
<1>5. CASE PutInCache(s)
  <2> DEFINE q == j.query
             entry == [until |-> clock + CacheTTL, sources |-> j.sources]
  <2>1. UNCHANGED <<node, known, clock, reached, queries>> /\ q \in Query
        /\ search' = [search EXCEPT ![s] = NoSearch]
    BY <1>0, <1>5 DEF PutInCache
  <2>2. \/ cache' = [Cleaned EXCEPT ![q] = entry]
        \/ \E old \in Entries : cache' = [Cleaned EXCEPT ![old] = NoEntry, ![q] = entry]
    BY <1>5, Zenon DEF PutInCache
  <2>3. entry \in [until : Nat, sources : SUBSET Indexer]
    BY <1>0 DEF Searches, ClientTypes
  <2> HIDE DEF q, entry
  <2>4. cache' \in [Query -> [until : Nat, sources : SUBSET Indexer]]
    BY <1>0, <2>2, <2>3, CleanedTypes
  <2> QED BY <1>0, <2>1, <2>4, SearchTypes DEF ClientTypes
<1> QED BY <1>1, <1>2, <1>3, <1>4, <1>5 DEF Searching, SearchPosts, GetTrending

LEMMA ConfigStepTypes == ConfigTypeOK /\ [ConfigNext]_configVars => ConfigTypeOK'
<1> SUFFICES ASSUME ConfigTypeOK, [ConfigNext]_configVars PROVE ConfigTypeOK'
  OBVIOUS
<1> USE ConfigAssumption
<1>0. NodeTypes /\ ClientTypes
  BY TypesAre
<1>1. ASSUME NEW r \in Editor, Change(r) PROVE ConfigTypeOK'
  <2>1. NodeTypes' /\ UNCHANGED <<search, cache, clock, queries>>
    BY <1>1, ChangeTypes
  <2> QED BY <1>0, <2>1, TypesAre DEF ClientTypes, ConfigTypeOK, NodeTypes
<1>2. ASSUME NEW s \in Searcher, Searching(s) PROVE ConfigTypeOK'
  <2>1. ClientTypes' /\ UNCHANGED <<node, known, clock, reached>>
    BY <1>2, SearchingTypes
  <2> QED BY <1>0, <2>1 DEF NodeTypes, node, ClientTypes, ConfigTypeOK
<1>3. ASSUME NEW i \in Indexer, AddIndexer(i) PROVE ConfigTypeOK'
  <2>1. reached' \in [Indexer -> 0..MaxTicks]
    BY <1>0, <1>3 DEF AddIndexer, Learn, NodeTypes, ClientTypes
  <2> QED BY <1>0, <1>3, <2>1 DEF AddIndexer, NodeTypes, ClientTypes, node, ConfigTypeOK
<1>4. CASE CleanCache
  BY <1>0, <1>4, CleanedTypes DEF CleanCache, NodeTypes, ClientTypes, node, ConfigTypeOK
<1>5. CASE ClockTick
  <2>1. clock' \in 0..MaxTicks /\ reached' \in [Indexer -> 0..MaxTicks]
    BY <1>0, <1>5 DEF ClockTick, NodeTypes, ClientTypes
  <2> QED BY <1>0, <1>5, <2>1 DEF ClockTick, NodeTypes, ClientTypes, node, ConfigTypeOK
<1>6. CASE RestartNode
  <2>1. cfg' \in Config /\ limit' \in Storage /\ known' \subseteq Indexer
    BY <1>0, <1>6 DEF RestartNode, NodeTypes, Config
  <2>2. reached' \in [Indexer -> 0..MaxTicks]
    BY <1>0, <1>6 DEF RestartNode, Learn, NodeTypes, ClientTypes
  <2>3. cache' \in [Query -> [until : Nat, sources : SUBSET Indexer]]
    BY <1>0, <1>6, CleanedTypes DEF RestartNode
  <2>4. NoSearch \in Searches /\ NoSearch.at = "idle"
    BY DEF NoSearch, Searches
  <2>5. search' \in [Searcher -> Searches] /\ \A s \in Searcher : search'[s] = NoSearch
    BY <1>6, <2>4 DEF RestartNode
  <2> QED BY <1>0, <1>6, <2>1, <2>2, <2>3, <2>4, <2>5
      DEF RestartNode, NodeTypes, ClientTypes, ConfigTypeOK
<1>7. CASE UNCHANGED configVars
  BY <1>0, <1>7 DEF configVars, node, client, NodeTypes, ClientTypes, ConfigTypeOK
<1> QED BY <1>1, <1>2, <1>3, <1>4, <1>5, <1>6, <1>7 DEF ConfigNext

LEMMA ConfigInitTypes == ConfigInit => ConfigTypeOK
<1> SUFFICES ASSUME ConfigInit PROVE ConfigTypeOK
  OBVIOUS
<1> USE ConfigAssumption
<1>1. file \in Config
  BY DEF ConfigInit, Config, WebUI
<1>2. NodeTypes
  BY <1>1 DEF ConfigInit, NodeTypes, Config
<1>3. NoSearch \in Searches /\ NoSearch.at = "idle"
      /\ NoEntry \in [until : Nat, sources : SUBSET Indexer]
  BY DEF NoSearch, Searches, NoEntry
<1>4. ClientTypes
  BY <1>3 DEF ConfigInit, ClientTypes
<1> QED BY <1>2, <1>4, TypesAre

\* Configuration, requests, queries and cache keep their types, for any
\* indexers, queries and numbers of requests.
THEOREM ConfigTypes == ConfigSpec => []ConfigTypeOK
BY ConfigInitTypes, ConfigStepTypes, PTL DEF ConfigSpec

-----------------------------------------------------------------------------
(* The saved configuration.                                                *)

\* The check looks at the web section alone.
LEMMA StartsBy ==
    ASSUME NEW c, NEW d, c.web = d.web
    PROVE  StartsWith(c) <=> StartsWith(d)
BY DEF StartsWith

LEMMA ChangeSafe ==
    ASSUME ConfigTypeOK, WebSafe, NEW r \in Editor, Change(r)
    PROVE  WebSafe'
<1>0. cfg \in Config
  BY DEF ConfigTypeOK
<1>1. ASSUME NEW refresh \in BOOLEAN, NEW next, Begin(r, next, refresh),
             \/ next \in Edited(refresh) /\ Accepted(next)
             \/ \E s \in Storage : next = [cfg EXCEPT !.storage = s] /\ ~refresh
      PROVE  WebSafe'
  <2>1. /\ next.web = cfg.web \/ Accepted(next)
        /\ \A q \in Editor \ {r} : edit'[q] = edit[q]
        /\ edit'[r].next = next
    BY <1>1, BeginMoves
  <2>2. StartsWith(next)
    BY <2>1, StartsBy DEF WebSafe, Accepted, ValidWebUI, StartsWith
  <2>3. UNCHANGED <<file, cfg>>
    BY <1>1 DEF Begin
  <2> QED BY <2>1, <2>2, <2>3 DEF WebSafe, StartsWith
<1>2. ASSUME NEW from, NEW to \in {"idle", "save", "storage", "web", "indexers",
                                   "refresh", "limit"},
             from # "idle", EditStep(r, from, to), StartsWith(file'), StartsWith(cfg')
      PROVE  WebSafe'
  <2>1. /\ edit[r] # NoChange /\ \A q \in Editor \ {r} : edit'[q] = edit[q]
        /\ edit'[r] = NoChange \/ edit'[r].next = edit[r].next
    BY <1>2, EditMoves
  <2>2. \A q \in Editor : edit'[q] # NoChange => StartsWith(edit'[q].next)
    BY <2>1 DEF WebSafe
  <2> QED BY <1>2, <2>2 DEF WebSafe, StartsWith
<1>3. ASSUME edit[r].at # "idle" PROVE StartsWith(edit[r].next) /\ edit[r] \in Edits
  BY <1>3, EditShape DEF WebSafe, ConfigTypeOK
<1>4. CASE Save(r) \/ SaveFails(r)
  <2>1. edit[r].at = "save" /\ cfg' = cfg /\ (file' = file \/ file' = edit[r].next)
    BY <1>4 DEF Save, SaveFails, EditStep
  <2>2. StartsWith(file') /\ StartsWith(cfg')
    BY <1>3, <2>1 DEF WebSafe
  <2> QED BY <1>2, <1>4, <2>2 DEF Save, SaveFails
<1>5. CASE AssignStorage(r)
  <2>1. cfg'.web = cfg.web /\ file' = file
    BY <1>0, <1>5 DEF AssignStorage, Config
  <2>2. StartsWith(file') /\ StartsWith(cfg')
    BY <2>1, StartsBy DEF WebSafe
  <2> QED BY <1>2, <1>5, <2>2 DEF AssignStorage
<1>6. CASE AssignWeb(r)
  <2>1. edit[r].at = "web" /\ cfg'.web = edit[r].next.web /\ file' = file
    BY <1>0, <1>6 DEF AssignWeb, Config, EditStep
  <2>2. StartsWith(file') /\ StartsWith(cfg')
    BY <1>3, <2>1, StartsBy DEF WebSafe
  <2> QED BY <1>2, <1>6, <2>2 DEF AssignWeb
<1>7. CASE AssignIndexers(r)
  <2>1. cfg'.web = cfg.web /\ file' = file
    BY <1>0, <1>7 DEF AssignIndexers, Config
  <2>2. StartsWith(file') /\ StartsWith(cfg')
    BY <2>1, StartsBy DEF WebSafe
  <2> QED BY <1>2, <1>7, <2>2 DEF AssignIndexers
<1>8. CASE SetIndexers(r) \/ SetStorageLimit(r)
  <2>1. StartsWith(file') /\ StartsWith(cfg')
    BY <1>8 DEF SetIndexers, SetStorageLimit, WebSafe
  <2> QED BY <1>2, <1>8, <2>1 DEF SetIndexers, SetStorageLimit
<1> QED BY <1>1, <1>4, <1>5, <1>6, <1>7, <1>8, ChangeSteps

\* config.toml passes the start-up check of the web UI's exposure at every
\* moment, whatever copies of a half-assigned configuration are saved
\* (UpdateNodeConfig, saveOnboardingStorageContribution), for any number of
\* overlapping requests.
THEOREM SavedConfigStartsTheorem == ConfigSpec => []SavedConfigStarts
<1>1. ConfigInit => WebSafe
  BY DEF ConfigInit, WebSafe
<1>2. ConfigTypeOK /\ WebSafe /\ [ConfigNext]_configVars => WebSafe'
  <2> SUFFICES ASSUME ConfigTypeOK, WebSafe, [ConfigNext]_configVars PROVE WebSafe'
    OBVIOUS
  <2>1. ASSUME UNCHANGED <<file, cfg, edit>> PROVE WebSafe'
    BY <2>1 DEF WebSafe, StartsWith
  <2>2. ASSUME NEW s \in Searcher, Searching(s) PROVE WebSafe'
    BY <2>1, <2>2, SearchingTypes DEF node
  <2>3. ASSUME NEW i \in Indexer, AddIndexer(i) PROVE WebSafe'
    BY <2>1, <2>3 DEF AddIndexer, node
  <2>4. CASE CleanCache \/ ClockTick \/ UNCHANGED configVars
    BY <2>1, <2>4 DEF CleanCache, ClockTick, configVars, node
  <2>5. CASE RestartNode
    BY <2>5 DEF RestartNode, WebSafe, StartsWith
  <2> QED BY <2>2, <2>3, <2>4, <2>5, ChangeSafe DEF ConfigNext
<1>3. WebSafe => SavedConfigStarts
  BY DEF WebSafe, SavedConfigStarts
<1> QED BY <1>1, <1>2, <1>3, ConfigTypes, PTL DEF ConfigSpec

-----------------------------------------------------------------------------
(* The answers of the indexers.                                            *)

LEMMA ReachableIs ==
    ASSUME NEW i
    PROVE  i \in Reachable <=>
              \/ i \in known
              \/ \E s \in Searcher : i \in search[s].snapshot \/ i \in search[s].sources
BY DEF Reachable

\* Nothing becomes reachable but what is learned, and what is stored comes from
\* what is reachable.
LEMMA ReachedFrame ==
    ASSUME ConfigTypeOK, ReachedInv, clock' = clock,
           \A i \in Indexer : reached'[i] = reached[i] \/ reached'[i] = clock,
           Reachable' \subseteq Indexer,
           \A i \in Reachable' : i \in Reachable \/ reached'[i] = clock,
           \A q \in Query : \/ cache'[q] = cache[q]
                            \/ cache'[q] = NoEntry
                            \/ /\ cache'[q].until = clock + CacheTTL
                               /\ cache'[q].sources \subseteq Reachable
    PROVE  ReachedInv'
<1> USE ConfigAssumption
<1>0. /\ clock \in Nat /\ \A i \in Indexer : reached[i] \in Nat /\ reached[i] <= clock
      /\ Reachable \subseteq Indexer
      /\ \A q \in Query : cache[q].until \in Nat /\ cache[q].sources \subseteq Indexer
  BY ReachableIs DEF ConfigTypeOK, ReachedInv, Searches
<1>1. \A i \in Indexer : reached[i] <= reached'[i] /\ reached'[i] <= clock'
  BY <1>0
<1>2. \A i \in Reachable' : reached'[i] = clock'
  BY <1>0 DEF ReachedInv
<1>3. ASSUME NEW q \in Query, NEW i \in cache'[q].sources
      PROVE  cache'[q].until <= reached'[i] + CacheTTL
  <2>1. CASE cache'[q] = cache[q]
    <3>1. i \in Indexer /\ cache[q].until <= reached[i] + CacheTTL
      BY <1>0, <1>3, <2>1 DEF ReachedInv, AnswersExpire
    <3> QED BY <1>0, <1>1, <2>1, <3>1
  <2>2. CASE cache'[q] = NoEntry
    BY <1>3, <2>2 DEF NoEntry
  <2>3. CASE cache'[q].until = clock + CacheTTL /\ cache'[q].sources \subseteq Reachable
    <3>1. i \in Indexer /\ reached[i] = clock
      BY <1>0, <1>3, <2>3 DEF ReachedInv
    <3> QED BY <1>0, <1>1, <2>3, <3>1
  <2> QED BY <2>1, <2>2, <2>3
<1>4. AnswersExpire'
  BY <1>3 DEF AnswersExpire
<1> QED BY <1>1, <1>2, <1>4 DEF ReachedInv

LEMMA ReachableTyped == ConfigTypeOK => Reachable \subseteq Indexer
BY ReachableIs DEF ConfigTypeOK, Searches

\* A query takes up nothing but what is reachable.
LEMMA SearchReaches ==
    ASSUME ConfigTypeOK, NEW s \in Searcher, NEW x, known' = known,
           search' = [search EXCEPT ![s] = x],
           x.snapshot \subseteq Reachable, x.sources \subseteq Reachable
    PROVE  Reachable' \subseteq Reachable
<1> SUFFICES ASSUME NEW i, i \in Reachable' PROVE i \in Reachable
  OBVIOUS
<1>1. \/ i \in known'
      \/ \E t \in Searcher : i \in search'[t].snapshot \/ i \in search'[t].sources
  BY DEF Reachable
<1>2. search'[s] = x /\ \A t \in Searcher \ {s} : search'[t] = search[t]
  BY DEF ConfigTypeOK
<1>3. CASE i \in known'
  BY <1>3, ReachableIs
<1>4. ASSUME NEW t \in Searcher, i \in search'[t].snapshot \/ i \in search'[t].sources
      PROVE  i \in Reachable
  BY <1>2, <1>4, ReachableIs
<1> QED BY <1>1, <1>3, <1>4

LEMMA SearchingReached ==
    ASSUME ConfigTypeOK, ReachedInv, NEW s \in Searcher, Searching(s)
    PROVE  ReachedInv'
<1> DEFINE j == search[s]
<1>0. /\ ClientTypes /\ Reachable \subseteq Indexer
      /\ UNCHANGED <<known, clock, reached>>
  BY SearchingTypes, TypesAre, ReachableTyped
<1>1. /\ j \in Searches /\ j.snapshot \subseteq Reachable /\ j.sources \subseteq Reachable
      /\ known \subseteq Reachable
  BY ReachableIs DEF ConfigTypeOK
<1>2. NoSearch.snapshot = {} /\ NoSearch.sources = {}
  BY DEF NoSearch
<1>3. ASSUME Reachable' \subseteq Reachable,
             \A q \in Query : \/ cache'[q] = cache[q]
                              \/ cache'[q] = NoEntry
                              \/ /\ cache'[q].until = clock + CacheTTL
                                 /\ cache'[q].sources \subseteq Reachable
      PROVE  ReachedInv'
  BY <1>0, <1>3, ReachedFrame
<1>4. ASSUME NEW q \in Query, Lookup(s, q) PROVE ReachedInv'
  <2>1. CASE Live(q)
    <3>1. cache' = cache /\ search' = search
      BY <1>4, <2>1 DEF Lookup, Hit
    <3> QED BY <1>0, <1>3, <3>1 DEF Reachable
  <2>2. CASE ~Live(q)
    <3> DEFINE n == IF q \in Trending THEN 2 ELSE 1
               x == [NoSearch EXCEPT !.at = "copy", !.query = q, !.left = n]
    <3>1. search' = [search EXCEPT ![s] = x] /\ cache' = [cache EXCEPT ![q] = NoEntry]
      BY <1>4, <2>2 DEF Lookup
    <3>2. x.snapshot = {} /\ x.sources = {}
      BY DEF NoSearch
    <3> HIDE DEF x
    <3>3. Reachable' \subseteq Reachable
      BY <1>0, <3>1, <3>2, SearchReaches
    <3>4. \A p \in Query : cache'[p] = cache[p] \/ cache'[p] = NoEntry
      BY <3>1 DEF ConfigTypeOK
    <3> QED BY <1>3, <3>3, <3>4
  <2> QED BY <2>1, <2>2
<1>5. CASE CopyIndexers(s)
  <2> DEFINE x == [j EXCEPT !.snapshot = known, !.at = "ask"]
  <2>1. search' = [search EXCEPT ![s] = x] /\ cache' = cache
    BY <1>5 DEF CopyIndexers
  <2>2. x.snapshot = known /\ x.sources = j.sources
    BY <1>1 DEF Searches
  <2> HIDE DEF x
  <2>3. Reachable' \subseteq Reachable
    BY <1>0, <1>1, <2>1, <2>2, SearchReaches
  <2> QED BY <1>3, <2>1, <2>3
<1>6. CASE Answered(s)
  <2>1. PICK i \in j.snapshot :
          search' = [search EXCEPT ![s] = [Ended(j) EXCEPT !.sources = j.sources \cup {i}]]
    BY <1>6, Zenon DEF Answered
  <2> DEFINE x == [Ended(j) EXCEPT !.sources = j.sources \cup {i}]
  <2>2. search' = [search EXCEPT ![s] = x] /\ cache' = cache /\ j.left > 0
    BY <1>6, <2>1 DEF Answered, ConfigTypeOK
  <2>3. Ended(j) \in Searches /\ Ended(j).snapshot = {}
    BY <1>1, <2>2, EndedTypes
  <2>4. x.snapshot = {} /\ x.sources = j.sources \cup {i}
    BY <2>3 DEF Searches
  <2> HIDE DEF x
  <2>5. Reachable' \subseteq Reachable
    BY <1>0, <1>1, <2>2, <2>4, SearchReaches
  <2> QED BY <1>3, <2>2, <2>5
<1>7. CASE Failed(s)
  <2>0. cache' = cache /\ j.left > 0
    BY <1>7 DEF Failed, ConfigTypeOK
  <2>1. Ended(j).snapshot = {} /\ Ended(j).sources = j.sources
    BY <1>1, <2>0, EndedTypes
  <2>2. search' = [search EXCEPT ![s] = NoSearch] \/ search' = [search EXCEPT ![s] = Ended(j)]
    BY <1>7 DEF Failed
  <2>3. Reachable' \subseteq Reachable
    <3>1. CASE search' = [search EXCEPT ![s] = NoSearch]
      BY <1>0, <1>2, <3>1, SearchReaches
    <3>2. CASE search' = [search EXCEPT ![s] = Ended(j)]
      BY <1>0, <1>1, <2>1, <3>2, SearchReaches
    <3> QED BY <2>2, <3>1, <3>2
  <2> QED BY <1>3, <2>0, <2>3
<1>8. CASE PutInCache(s)
  <2> DEFINE q == j.query
             entry == [until |-> clock + CacheTTL, sources |-> j.sources]
  <2>1. search' = [search EXCEPT ![s] = NoSearch]
    BY <1>8 DEF PutInCache
  <2>2. \/ cache' = [Cleaned EXCEPT ![q] = entry]
        \/ \E old \in Entries : cache' = [Cleaned EXCEPT ![old] = NoEntry, ![q] = entry]
    BY <1>8, Zenon DEF PutInCache
  <2>3. entry.until = clock + CacheTTL /\ entry.sources = j.sources
    OBVIOUS
  <2> HIDE DEF q, entry
  <2>4. /\ Cleaned \in [Query -> [until : Nat, sources : SUBSET Indexer]]
        /\ \A p \in Query : Cleaned[p] = cache[p] \/ Cleaned[p] = NoEntry
    BY <1>0, CleanedTypes DEF Cleaned
  <2>5. \A p \in Query : cache'[p] = cache[p] \/ cache'[p] = NoEntry \/ cache'[p] = entry
    BY <2>2, <2>4
  <2>6. Reachable' \subseteq Reachable
    BY <1>0, <1>2, <2>1, SearchReaches
  <2> QED BY <1>1, <1>3, <2>3, <2>5, <2>6
<1> QED BY <1>4, <1>5, <1>6, <1>7, <1>8 DEF Searching, SearchPosts, GetTrending

\* The indexers are set or added to.
LEMMA LearnReached ==
    ASSUME ConfigTypeOK, ReachedInv, NEW u \in SUBSET Indexer,
           known' \subseteq known \cup u, reached' = Learn(u),
           UNCHANGED <<cache, search, clock>>
    PROVE  ReachedInv'
<1>1. \A i \in Indexer : reached'[i] = IF i \in u THEN clock ELSE reached[i]
  BY DEF Learn
<1>2. \A i \in Reachable' : i \in Reachable \/ i \in u
  BY DEF Reachable
<1>3. Reachable' \subseteq Indexer
  BY <1>2, ReachableTyped
<1> QED BY <1>1, <1>2, <1>3, ReachedFrame

LEMMA ConfigStepReached ==
    ConfigTypeOK /\ ReachedInv /\ [ConfigNext]_configVars => ReachedInv'
<1> SUFFICES ASSUME ConfigTypeOK, ReachedInv, [ConfigNext]_configVars PROVE ReachedInv'
  OBVIOUS
<1> USE ConfigAssumption
<1>0. NodeTypes /\ ClientTypes /\ Reachable \subseteq Indexer
  BY TypesAre, ReachableTyped
<1>1. ASSUME UNCHANGED <<known, reached, cache, search, clock>> PROVE ReachedInv'
  BY <1>1 DEF ReachedInv, Reachable, AnswersExpire
<1>2. ASSUME NEW r \in Editor, Change(r) PROVE ReachedInv'
  <2>0. UNCHANGED <<search, cache, clock>>
    BY <1>2, ChangeTypes
  <2>1. CASE SetIndexers(r)
    <3>1. edit[r] \in Edits
      BY <2>1, EditMoves DEF SetIndexers
    <3>2. edit[r].next.indexers \in SUBSET Indexer
      BY <3>1 DEF Edits, Config
    <3> QED BY <2>0, <2>1, <3>2, LearnReached DEF SetIndexers
  <2>2. ASSUME NEW refresh \in BOOLEAN, NEW next, Begin(r, next, refresh) PROVE ReachedInv'
    BY <1>1, <2>0, <2>2 DEF Begin, client
  <2>3. CASE Save(r) \/ SaveFails(r) \/ AssignStorage(r) \/ AssignWeb(r)
             \/ AssignIndexers(r) \/ SetStorageLimit(r)
    BY <1>1, <2>0, <2>3
       DEF Save, SaveFails, AssignStorage, AssignWeb, AssignIndexers, SetStorageLimit
  <2> QED BY <1>2, <2>1, <2>2, <2>3, ChangeSteps
<1>3. ASSUME NEW i \in Indexer, AddIndexer(i) PROVE ReachedInv'
  BY <1>3, LearnReached DEF AddIndexer
<1>4. CASE CleanCache
  <2>1. \A q \in Query : cache'[q] = cache[q] \/ cache'[q] = NoEntry
    BY <1>4 DEF CleanCache, Cleaned
  <2>2. Reachable' = Reachable /\ UNCHANGED <<reached, clock>>
    BY <1>4 DEF CleanCache, Reachable
  <2> QED BY <1>0, <2>1, <2>2, ReachedFrame
<1>5. CASE ClockTick
  <2>1. /\ clock \in Nat /\ clock' = clock + 1 /\ UNCHANGED cache
        /\ Reachable' = Reachable
    BY <1>0, <1>5 DEF ClockTick, Reachable, ClientTypes
  <2>2. \A i \in Indexer : /\ reached[i] \in Nat /\ reached[i] <= clock
                           /\ reached'[i] = IF i \in Reachable THEN clock + 1 ELSE reached[i]
    BY <1>0, <1>5 DEF ClockTick, NodeTypes, ReachedInv
  <2>3. \A i \in Indexer : reached'[i] <= clock' /\ reached[i] <= reached'[i]
    BY <2>1, <2>2
  <2>4. \A i \in Reachable' : reached'[i] = clock'
    BY <1>0, <2>1, <2>2
  <2>5. AnswersExpire'
    <3> SUFFICES ASSUME NEW q \in Query, NEW i \in cache[q].sources
                 PROVE  cache[q].until <= reached'[i] + CacheTTL
      BY <2>1 DEF AnswersExpire
    <3>1. i \in Indexer /\ cache[q].until \in Nat
      BY <1>0 DEF ClientTypes
    <3>2. cache[q].until <= reached[i] + CacheTTL
      BY DEF ReachedInv, AnswersExpire
    <3> QED BY <2>1, <2>2, <2>3, <3>1, <3>2
  <2> QED BY <2>3, <2>4, <2>5 DEF ReachedInv
<1>6. CASE RestartNode
  <2> DEFINE u == file.indexers
  <2>1. /\ u \in SUBSET Indexer /\ known' = u /\ clock' = clock
        /\ reached' = Learn(u)
        /\ \A s \in Searcher : search'[s] = NoSearch
        /\ \A q \in Query : cache'[q] = NoEntry
    BY <1>0, <1>6 DEF RestartNode, NodeTypes, Config
  <2>2. \A i \in Indexer : reached'[i] = IF i \in u THEN clock ELSE reached[i]
    BY <2>1 DEF Learn
  <2>3. Reachable' = u
    BY <2>1 DEF Reachable, NoSearch
  <2> QED BY <2>1, <2>2, <2>3, ReachedFrame
<1>7. CASE UNCHANGED configVars
  BY <1>1, <1>7 DEF configVars, client
<1> QED BY <1>2, <1>3, <1>4, <1>5, <1>6, <1>7, SearchingReached DEF ConfigNext

\* An answer of an indexer is gone from the cache one lifetime after it could
\* last be asked (putInCache, getFromCache), for any indexers, searches, limit
\* of the cache and lifetime of its entries.
THEOREM AnswersExpireTheorem == ConfigSpec => []AnswersExpire
<1>1. ConfigInit => ReachedInv
  <2> SUFFICES ASSUME ConfigInit PROVE ReachedInv
    OBVIOUS
  <2>1. clock = 0 /\ \A i \in Indexer : reached[i] = 0
    BY DEF ConfigInit
  <2>2. Reachable \subseteq Indexer
    BY ConfigInitTypes, ReachableTyped
  <2>3. AnswersExpire
    BY DEF ConfigInit, AnswersExpire, NoEntry
  <2> QED BY <2>1, <2>2, <2>3 DEF ReachedInv
<1>2. ReachedInv => AnswersExpire
  BY DEF ReachedInv
<1> QED BY <1>1, <1>2, ConfigTypes, ConfigStepReached, PTL DEF ConfigSpec

-----------------------------------------------------------------------------
(* What the changes leave behind.                                          *)

\* A lone request takes a step: it keeps its progress or leaves agreement.
LEMMA AloneMoves ==
    ASSUME ConfigTypeOK, AgreeInv, serial, NEW r \in Editor, NEW from,
           NEW to \in {"idle", "save", "storage", "web", "indexers", "refresh", "limit"},
           from # "idle", EditStep(r, from, to),
           to = "idle" => InAgreement', to # "idle" => Progress(edit[r])'
    PROVE  AgreeInv'
<1>1. /\ edit[r] # NoChange /\ \A q \in Editor \ {r} : edit'[q] = edit[q]
      /\ to = "idle" => edit'[r] = NoChange
      /\ to # "idle" => edit'[r] # NoChange
  BY EditMoves
<1>2. \A q \in Editor \ {r} : edit'[q] = NoChange
  BY <1>1 DEF AgreeInv, Alone
<1>3. CASE to = "idle"
  BY <1>1, <1>2, <1>3 DEF AgreeInv
<1>4. CASE to # "idle"
  <2>1. Alone(r)'
    BY <1>2 DEF Alone
  <2>2. \A q \in Editor : edit'[q] # NoChange => q = r
    BY <1>2
  <2> QED BY <1>1, <1>4, <2>1, <2>2 DEF AgreeInv
<1> QED BY <1>3, <1>4

LEMMA ChangeAgrees ==
    ASSUME ConfigTypeOK, AgreeInv, NEW r \in Editor, Change(r)
    PROVE  AgreeInv'
<1> DEFINE e == edit[r]
<1>0. /\ cfg \in Config /\ file \in Config /\ serial \in BOOLEAN
      /\ e \in {NoChange} \cup Edits
  BY DEF ConfigTypeOK
<1> SUFFICES ASSUME serial' PROVE AgreeInv'
  BY DEF AgreeInv
<1>1. ASSUME NEW refresh \in BOOLEAN, NEW next, Begin(r, next, refresh),
             \/ next \in Edited(refresh) /\ Accepted(next)
             \/ \E s \in Storage : next = [cfg EXCEPT !.storage = s] /\ ~refresh
      PROVE  AgreeInv'
  <2>1. /\ ~refresh => next.indexers = cfg.indexers
        /\ \A q \in Editor \ {r} : edit'[q] = edit[q]
        /\ edit'[r] # NoChange /\ edit'[r].at = "save"
        /\ edit'[r].next = next /\ edit'[r].refresh = refresh
    BY <1>1, BeginMoves
  <2>2. /\ serial /\ \A q \in Editor : edit[q] = NoChange
        /\ UNCHANGED <<file, cfg, limit, known>>
    BY <1>0, <1>1 DEF Begin
  <2>3. InAgreement /\ InAgreement'
    BY <2>2 DEF AgreeInv, InAgreement
  <2>4. Progress(edit[r])'
    BY <2>1, <2>2, <2>3 DEF Progress, InAgreement
  <2>5. \A q \in Editor : edit'[q] # NoChange => q = r
    BY <2>1, <2>2
  <2> QED BY <2>1, <2>4, <2>5 DEF AgreeInv, Alone
<1>2. ASSUME e.at # "idle", serial
      PROVE  e \in Edits /\ Progress(e) /\ e.next \in Config /\ e.refresh \in BOOLEAN
  BY <1>0, <1>2, EditShape DEF AgreeInv, Edits
<1>3. CASE Save(r)
  <2>1. /\ EditStep(r, "save", "storage") /\ serial /\ e.at = "save" /\ file' = e.next
        /\ UNCHANGED <<cfg, limit, known>>
    BY <1>0, <1>3 DEF Save, EditStep
  <2>2. edit'[r].at = "storage" /\ edit'[r].next = e.next /\ edit'[r].refresh = e.refresh
    BY <2>1, EditMoves
  <2>3. Progress(edit[r])'
    BY <1>2, <2>1, <2>2 DEF Progress
  <2> QED BY <2>1, <2>3, AloneMoves
<1>4. CASE SaveFails(r)
  <2>1. /\ EditStep(r, "save", "idle") /\ serial /\ e.at = "save"
        /\ UNCHANGED <<file, cfg, limit, known>>
    BY <1>0, <1>4 DEF SaveFails, EditStep
  <2>2. InAgreement'
    BY <1>2, <2>1 DEF Progress, InAgreement
  <2> QED BY <2>1, <2>2, AloneMoves
<1>5. CASE AssignStorage(r)
  <2>1. /\ EditStep(r, "storage", "web") /\ serial /\ e.at = "storage"
        /\ UNCHANGED <<file, limit, known>>
    BY <1>0, <1>5 DEF AssignStorage, EditStep
  <2>2. edit'[r].at = "web" /\ edit'[r].next = e.next /\ edit'[r].refresh = e.refresh
    BY <2>1, EditMoves
  <2>3. cfg'.storage = e.next.storage /\ cfg'.indexers = cfg.indexers
    BY <1>0, <1>5 DEF AssignStorage, Config
  <2>4. Progress(edit[r])'
    BY <1>2, <2>1, <2>2, <2>3 DEF Progress
  <2> QED BY <2>1, <2>4, AloneMoves
<1>6. CASE AssignWeb(r)
  <2>1. /\ EditStep(r, "web", "indexers") /\ serial /\ e.at = "web"
        /\ UNCHANGED <<file, limit, known>>
    BY <1>0, <1>6 DEF AssignWeb, EditStep
  <2>2. edit'[r].at = "indexers" /\ edit'[r].next = e.next /\ edit'[r].refresh = e.refresh
    BY <2>1, EditMoves
  <2>3. /\ cfg'.web = e.next.web /\ cfg'.indexers = cfg.indexers
        /\ cfg'.storage = cfg.storage
    BY <1>0, <1>6 DEF AssignWeb, Config
  <2>4. Progress(edit[r])'
    BY <1>2, <2>1, <2>2, <2>3 DEF Progress
  <2> QED BY <2>1, <2>4, AloneMoves
<1>7. CASE AssignIndexers(r)
  <2> DEFINE to == IF e.refresh THEN "refresh" ELSE "limit"
  <2>1. /\ EditStep(r, "indexers", to) /\ serial /\ e.at = "indexers"
        /\ UNCHANGED <<file, limit, known>>
    BY <1>0, <1>7 DEF AssignIndexers, EditStep
  <2>2. edit'[r].at = to /\ edit'[r].next = e.next /\ edit'[r].refresh = e.refresh
    BY <2>1, EditMoves
  <2>3. /\ cfg'.web = cfg.web /\ cfg'.indexers = e.next.indexers
        /\ cfg'.storage = cfg.storage
    BY <1>0, <1>7 DEF AssignIndexers, Config
  <2>4. Progress(edit[r])'
    BY <1>2, <2>1, <2>2, <2>3 DEF Progress
  <2> QED BY <2>1, <2>4, AloneMoves
<1>8. CASE SetIndexers(r)
  <2>1. /\ EditStep(r, "refresh", "limit") /\ serial /\ e.at = "refresh"
        /\ known' = e.next.indexers /\ UNCHANGED <<file, cfg, limit>>
    BY <1>0, <1>8 DEF SetIndexers, EditStep
  <2>2. edit'[r].at = "limit" /\ edit'[r].next = e.next /\ edit'[r].refresh = e.refresh
    BY <2>1, EditMoves
  <2>3. Progress(edit[r])'
    BY <1>2, <2>1, <2>2 DEF Progress
  <2> QED BY <2>1, <2>3, AloneMoves
<1>9. CASE SetStorageLimit(r)
  <2>1. /\ EditStep(r, "limit", "idle") /\ serial /\ e.at = "limit"
        /\ limit' = e.next.storage /\ UNCHANGED <<file, cfg, known>>
    BY <1>0, <1>9 DEF SetStorageLimit, EditStep
  <2>2. /\ file = e.next /\ cfg.storage = e.next.storage /\ cfg.web = e.next.web
        /\ cfg.indexers = e.next.indexers /\ e.next.indexers \subseteq known
    BY <1>2, <2>1 DEF Progress
  <2>3. cfg = e.next
    BY <1>0, <1>2, <2>1, <2>2 DEF Config
  <2>4. InAgreement'
    BY <2>1, <2>2, <2>3 DEF InAgreement
  <2> QED BY <2>1, <2>4, AloneMoves
<1> QED BY <1>1, <1>3, <1>4, <1>5, <1>6, <1>7, <1>8, <1>9, ChangeSteps

\* Requests that did not overlap leave the file, the configuration, the storage
\* limit and the indexers in agreement (UpdateNodeConfig, its rejected saves
\* and crashes between its steps), for any number of them.
THEOREM ChangesAgreeTheorem == ConfigSpec => []ChangesAgree
<1>1. ConfigInit => AgreeInv
  BY DEF ConfigInit, AgreeInv, InAgreement
<1>2. ConfigTypeOK /\ AgreeInv /\ [ConfigNext]_configVars => AgreeInv'
  <2> SUFFICES ASSUME ConfigTypeOK, AgreeInv, [ConfigNext]_configVars PROVE AgreeInv'
    OBVIOUS
  <2>1. ASSUME UNCHANGED <<file, cfg, limit, edit, serial>>, known \subseteq known'
        PROVE  AgreeInv'
    <3> SUFFICES ASSUME serial PROVE AgreeInv'
      BY <2>1 DEF AgreeInv
    <3>1. InAgreement => InAgreement'
      BY <2>1 DEF InAgreement
    <3>2. ASSUME NEW r \in Editor, edit[r] # NoChange PROVE Alone(r)' /\ Progress(edit[r])'
      <4>1. Alone(r) /\ Progress(edit[r])
        BY <3>2 DEF AgreeInv
      <4>2. Alone(r)'
        BY <2>1, <4>1 DEF Alone
      <4>3. Progress(edit[r])'
        BY <2>1, <3>1, <4>1 DEF Progress
      <4> QED BY <4>2, <4>3
    <3> QED BY <2>1, <3>1, <3>2 DEF AgreeInv
  <2>2. ASSUME NEW s \in Searcher, Searching(s) PROVE AgreeInv'
    BY <2>1, <2>2, SearchingTypes DEF node
  <2>3. ASSUME NEW i \in Indexer, AddIndexer(i) PROVE AgreeInv'
    BY <2>1, <2>3 DEF AddIndexer, node
  <2>4. CASE CleanCache \/ ClockTick \/ UNCHANGED configVars
    BY <2>1, <2>4 DEF CleanCache, ClockTick, configVars, node
  <2>5. CASE RestartNode
    BY <2>5 DEF RestartNode, AgreeInv, InAgreement
  <2> QED BY <2>2, <2>3, <2>4, <2>5, ChangeAgrees DEF ConfigNext
<1>3. AgreeInv => ChangesAgree
  BY DEF AgreeInv, InAgreement, ChangesAgree
<1> QED BY <1>1, <1>2, <1>3, ConfigTypes, PTL DEF ConfigSpec

-----------------------------------------------------------------------------
(* Media uploads.                                                          *)

\* The CIDs a file is stored under.
OwnCids(f) == ({f, ThumbnailOf(f)} \ {NoCid}) \cup ChunkCids(f)

\* A job j is sound when media rows D, contested CIDs C, stored CIDs S and
\* pinned CIDs P are there.  What its upload has stored is in the store, its
\* CIDs are pinned or to be tracked, and the policy it read pins the next one:
\* all this up to what other authors have sent and what was read before it was
\* pinned, which is contested.
JobSound(j, D, C, S, P) ==
    /\ j.at \in {"idle", "put", "open", "access", "recompute", "pinmedia", "pinthumbs"} =>
          ~j.upload
    /\ j.at \in {"chunks", "file", "thumbnail", "insert", "fetched", "publish"} => j.upload
    /\ j.upload /\ j.at # "part" =>
          /\ j.file \in File /\ j.thumb \in {ThumbnailOf(j.file), NoCid}
          /\ \A i \in DOMAIN j.chunks : j.chunks[i].cid \in ChunkCids(j.file) \cap (S \cup C)
          /\ j.thumb \in S \cup C \cup {NoCid}
    /\ j.at = "part" => j.chunks = <<>> /\ j.thumb = NoCid /\ j.file \in File \cup {NoCid}
    /\ j.at = "chunks" => Len(j.chunks) * ChunkSize < Len(j.file)
    /\ j.upload /\ j.at \in {"thumbnail", "insert", "fetched", "policy", "track", "publish"} =>
          j.file \in S \cup C
    /\ j.upload /\ j.at \in {"fetched", "policy", "track", "publish"} => j.file \in D
    /\ j.at \in {"put", "open", "access", "policy", "track"} => j.todo # <<>>
    /\ j.at \in {"open", "access"} => \A i \in DOMAIN j.todo : j.todo[i] = Head(j.todo)
    /\ j.upload /\ j.at \in {"policy", "track"} =>
          /\ \A i \in DOMAIN j.todo : j.todo[i] \in CidsOf(j)
          /\ \A c \in CidsOf(j) : c \in C \cup P \/ \E i \in DOMAIN j.todo : j.todo[i] = c
    /\ ~j.upload /\ j.at \in {"put", "policy", "track"} =>
          \A i \in DOMAIN j.todo : j.todo[i] \in C \cup P
    /\ j.at = "track" /\ Head(j.todo) \notin C \cup P => j.pin
    /\ j.at = "publish" => CidsOf(j) \subseteq C \cup P

JobsSound == \A g \in Goroutine : JobSound(job[g], DOMAIN rows, contested, cas, pinned)

\* What another author has a row for is contested.
RowsSound ==
    \A m \in DOMAIN rows :
        rows[m].author = Other =>
            /\ m \in contested /\ OwnCids(m) \subseteq contested
            /\ rows[m].thumb \in contested \cup {NoCid}

\* Only what is contested is tracked without a pin or evicted.
PinsSound ==
    /\ tracked \subseteq pinned \cup contested
    /\ victims \subseteq contested /\ doomed \in contested \cup {NoCid}

UploadsSound == \A m \in uploaded : CidsOf(m) \subseteq (cas \cap pinned) \cup contested

MediaInv == JobsSound /\ RowsSound /\ PinsSound /\ UploadsSound

JobTypes == job \in [Goroutine -> Jobs]

TableTypes ==
    /\ cas \subseteq Cids /\ tracked \subseteq Cids /\ pinned \subseteq Cids
    /\ victims \subseteq Cids /\ doomed \in Cids /\ contested \subseteq Cids
    /\ DOMAIN rows \subseteq File \cup Foreign
    /\ rows \in [DOMAIN rows -> [author : {Own, Other}, thumb : Cids]]
    /\ fetched \subseteq File /\ followed \in BOOLEAN
    /\ uploaded \subseteq [file : File, thumb : Cids, chunks : Chunks]
    /\ uploads \in Nat /\ messages \in Nat /\ changes \in Nat /\ faults \in Nat

MediaKept == JobTypes /\ TableTypes /\ MediaInv

\* The reads of a file that start before its end are its chunks, and none of
\* them is empty.
LEMMA ChunkRead ==
    ASSUME NEW f \in File \cup Foreign, NEW k \in Nat, k * ChunkSize < Len(f)
    PROVE  ReadFull(f, k) \in ChunkCids(f) /\ ReadFull(f, k) # NoCid
<1>0. ChunkSize \in Nat \ {0} /\ f \in Seq(Block) /\ Len(f) \in Nat
  BY MediaAssumption
<1>1. k * ChunkSize \in Nat /\ k * ChunkSize >= k /\ (k + 1) * ChunkSize = k * ChunkSize + ChunkSize
  BY <1>0
<1>2. k \in 0..Len(f)
  BY <1>0, <1>1
<1>3. ReadFull(f, k) \in ChunkCids(f)
  BY <1>2 DEF ChunkCids
<1> DEFINE from == k * ChunkSize + 1
           end == (k + 1) * ChunkSize
           to == IF end > Len(f) THEN Len(f) ELSE end
<1>4. from \in 1..Len(f) /\ to \in from..Len(f)
  BY <1>0, <1>1
<1>5. ReadFull(f, k) = SubSeq(f, from, to)
  BY DEF ReadFull
<1> HIDE DEF from, to, end
<1>6. Len(SubSeq(f, from, to)) = to - from + 1
  BY <1>0, <1>4
<1>7. Len(ReadFull(f, k)) > 0
  BY <1>0, <1>4, <1>5, <1>6
<1> QED BY <1>3, <1>7 DEF NoCid

LEMMA ChunksNotEmpty ==
    ASSUME NEW f \in File \cup Foreign
    PROVE  NoCid \notin ChunkCids(f)
<1> SUFFICES ASSUME NEW k \in {n \in 0..Len(f) : n * ChunkSize < Len(f)}
             PROVE  ReadFull(f, k) # NoCid
  BY DEF ChunkCids
<1> QED BY ChunkRead

LEMMA CidTypes ==
    /\ NoCid \in Cids
    /\ \A f \in File \cup Foreign : f \in Cids /\ ThumbnailOf(f) \in Cids /\ ChunkCids(f) \subseteq Cids
    /\ NoCid \notin File \cup Foreign
BY MediaAssumption DEF Cids, NoCid

\* A job stays sound while rows, sent, stored and pinned CIDs grow, what is
\* sent making up for what is deleted or unpinned.
LEMMA JobGrows ==
    ASSUME NEW j, NEW D, NEW C, NEW S, NEW P, NEW E, NEW B, NEW T, NEW Q,
           JobSound(j, D, C, S, P),
           D \subseteq E, C \subseteq B, S \subseteq T \cup B, P \subseteq Q \cup B
    PROVE  JobSound(j, E, B, T, Q)
BY DEF JobSound

\* What grows in every step.
Grown ==
    /\ DOMAIN rows \subseteq DOMAIN rows' /\ contested \subseteq contested'
    /\ cas \subseteq cas' \cup contested' /\ pinned \subseteq pinned' \cup contested'

LEMMA JobsKept ==
    ASSUME JobsSound, JobTypes, Grown, NEW g \in Goroutine, NEW x \in Jobs,
           job' = [job EXCEPT ![g] = x],
           JobSound(x, DOMAIN rows', contested', cas', pinned')
    PROVE  JobTypes' /\ JobsSound'
<1>1. JobTypes' /\ job'[g] = x /\ \A h \in Goroutine \ {g} : job'[h] = job[h]
  BY DEF JobTypes
<1>2. ASSUME NEW h \in Goroutine
      PROVE  JobSound(job'[h], DOMAIN rows', contested', cas', pinned')
  <2>1. CASE h = g
    BY <1>1, <2>1
  <2>2. CASE h # g
    <3>1. JobSound(job[h], DOMAIN rows, contested, cas, pinned)
      BY DEF JobsSound
    <3>2. JobSound(job[h], DOMAIN rows', contested', cas', pinned')
      BY <3>1, JobGrows DEF Grown
    <3> QED BY <1>1, <2>2, <3>2
  <2> QED BY <2>1, <2>2
<1> QED BY <1>1, <1>2 DEF JobsSound

LEMMA UploadsGrow ==
    ASSUME UploadsSound, Grown, uploaded' = uploaded
    PROVE  UploadsSound'
<1> SUFFICES ASSUME NEW m \in uploaded PROVE CidsOf(m) \subseteq (cas' \cap pinned') \cup contested'
  BY DEF UploadsSound, CidsOf
<1>1. CidsOf(m) \subseteq (cas \cap pinned) \cup contested
  BY DEF UploadsSound
<1> QED BY <1>1 DEF Grown

\* A step of a job that leaves rows, pins, eviction and history alone.
LEMMA JobMoves ==
    ASSUME MediaKept, NEW g \in Goroutine, NEW x \in Jobs,
           job' = [job EXCEPT ![g] = x],
           JobSound(x, DOMAIN rows, contested, cas', pinned),
           cas \subseteq cas', cas' \subseteq Cids,
           UNCHANGED <<rows, access, eviction, uploaded, contested>>,
           fetched' \subseteq File, followed' \in BOOLEAN,
           uploads' \in Nat, messages' \in Nat, changes' \in Nat, faults' \in Nat
    PROVE  MediaKept'
<1>1. UNCHANGED <<rows, tracked, pinned, victims, doomed, uploaded, contested>>
  BY DEF access, eviction
<1>2. Grown
  BY <1>1 DEF Grown
<1>3. JobTypes' /\ JobsSound'
  BY <1>1, <1>2, JobsKept DEF MediaKept, MediaInv
<1>4. TableTypes'
  BY <1>1 DEF MediaKept, TableTypes
<1>5. RowsSound' /\ PinsSound' /\ UploadsSound'
  BY <1>1, <1>2, UploadsGrow DEF MediaKept, MediaInv, RowsSound, PinsSound
<1> QED BY <1>3, <1>4, <1>5 DEF MediaKept, MediaInv

LEMMA IdleJobSound ==
    /\ IdleJob \in Jobs /\ ~IdleJob.upload
    /\ \A D, C, S, P : JobSound(IdleJob, D, C, S, P)
<1>1. <<>> \in Seq(Cids) /\ <<>> \in Chunks /\ NoCid \in Cids
  BY CidTypes DEF Chunks
<1>2. IdleJob \in Jobs
  BY <1>1 DEF IdleJob, Jobs
<1>3. ~IdleJob.upload /\ IdleJob.at = "idle"
  BY DEF IdleJob
<1> QED BY <1>2, <1>3 DEF JobSound

\* A handler returns.
LEMMA JobEnds ==
    ASSUME MediaKept, NEW g \in Goroutine, job' = [job EXCEPT ![g] = IdleJob],
           UNCHANGED <<cas, rows, fetched, access, followed, eviction, uploaded, contested>>,
           uploads' \in Nat, messages' \in Nat, changes' \in Nat, faults' \in Nat
    PROVE  MediaKept'
BY JobMoves, IdleJobSound DEF MediaKept, TableTypes

\* The job of a goroutine.
LEMMA JobIs ==
    ASSUME MediaKept, NEW g \in Goroutine
    PROVE  /\ job[g] \in Jobs
           /\ JobSound(job[g], DOMAIN rows, contested, cas, pinned)
           /\ DOMAIN job = Goroutine
BY DEF MediaKept, JobTypes, MediaInv, JobsSound

\* A request begins.
LEMMA BeginsKept ==
    ASSUME MediaKept, NEW g \in Goroutine
    PROVE  /\ UploadMedia(g) => MediaKept'
           /\ \A add \in BOOLEAN : ChangeFollow(g, add) => MediaKept'
<1>1. ASSUME UploadMedia(g) PROVE MediaKept'
  <2> DEFINE x == [IdleJob EXCEPT !.at = "part"]
  <2>1. job' = [job EXCEPT ![g] = x]
    BY <1>1 DEF UploadMedia, StartJob
  <2>2. x \in Jobs
    BY IdleJobSound DEF Jobs
  <2>3. x.at = "part" /\ ~x.upload /\ x.chunks = <<>> /\ x.thumb = NoCid /\ x.file = NoCid
    BY DEF IdleJob
  <2> HIDE DEF x
  <2>4. JobSound(x, DOMAIN rows, contested, cas, pinned)
    BY <2>3 DEF JobSound
  <2>5. /\ UNCHANGED <<cas, rows, fetched, access, followed, eviction, uploaded, contested>>
        /\ uploads' \in Nat /\ messages' \in Nat /\ changes' \in Nat /\ faults' \in Nat
    BY <1>1 DEF UploadMedia, MediaKept, TableTypes, history
  <2> QED BY <2>1, <2>2, <2>4, <2>5, JobMoves DEF MediaKept, TableTypes
<1>2. ASSUME NEW add \in BOOLEAN, ChangeFollow(g, add) PROVE MediaKept'
  <2> DEFINE x == [IdleJob EXCEPT !.at = "recompute"]
  <2>1. job' = [job EXCEPT ![g] = x]
    BY <1>2 DEF ChangeFollow, StartJob
  <2>2. x \in Jobs
    BY IdleJobSound DEF Jobs
  <2>3. x.at = "recompute" /\ ~x.upload
    BY DEF IdleJob
  <2> HIDE DEF x
  <2>4. JobSound(x, DOMAIN rows, contested, cas, pinned)
    BY <2>3 DEF JobSound
  <2>5. /\ UNCHANGED <<cas, rows, fetched, access, eviction, uploaded, contested>>
        /\ followed' \in BOOLEAN
        /\ uploads' \in Nat /\ messages' \in Nat /\ changes' \in Nat /\ faults' \in Nat
    BY <1>2 DEF ChangeFollow, MediaKept, TableTypes, history
  <2> QED BY <2>1, <2>2, <2>4, <2>5, JobMoves DEF MediaKept, TableTypes
<1> QED BY <1>1, <1>2

\* The body is staged, refused or accepted.
LEMMA StagingKept ==
    ASSUME MediaKept, NEW g \in Goroutine,
           StagePart(g) \/ RefuseBody(g) \/ AcceptFile(g) \/ RefuseFile(g)
    PROVE  MediaKept'
<1> DEFINE j == job[g]
<1>0. j \in Jobs /\ JobSound(j, DOMAIN rows, contested, cas, pinned)
  BY JobIs
<1>1. /\ UNCHANGED <<cas, rows, fetched, access, followed, eviction, uploaded, contested>>
      /\ uploads' \in Nat /\ messages' \in Nat /\ changes' \in Nat /\ faults' \in Nat
      /\ j.at = "part"
  BY DEF StagePart, RefuseBody, AcceptFile, RefuseFile, MediaKept, TableTypes, history, bounds,
         JobAt
<1>2. ASSUME NEW x \in Jobs, job' = [job EXCEPT ![g] = x],
             JobSound(x, DOMAIN rows, contested, cas, pinned)
      PROVE  MediaKept'
  BY <1>1, <1>2, JobMoves DEF MediaKept, TableTypes
<1>3. CASE StagePart(g)
  <2>1. PICK f \in File \cup {NoCid} : job' = [job EXCEPT ![g].upload = TRUE, ![g].file = f]
    BY <1>3 DEF StagePart
  <2> DEFINE x == [j EXCEPT !.upload = TRUE, !.file = f]
  <2>2. job' = [job EXCEPT ![g] = x]
    BY <2>1
  <2>3. x \in Jobs
    BY <1>0, CidTypes DEF Jobs
  <2>4. x.at = "part" /\ x.chunks = j.chunks /\ x.thumb = j.thumb /\ x.file = f
    BY <1>0, <1>1 DEF Jobs
  <2> HIDE DEF x
  <2>5. JobSound(x, DOMAIN rows, contested, cas, pinned)
    BY <1>0, <1>1, <2>4 DEF JobSound
  <2> QED BY <1>2, <2>2, <2>3, <2>5
<1>4. CASE AcceptFile(g)
  <2> DEFINE x == [j EXCEPT !.at = "chunks"]
  <2>2. job' = [job EXCEPT ![g] = x]
    BY <1>4 DEF AcceptFile, JobGoto
  <2>3. x \in Jobs
    BY <1>0 DEF Jobs
  <2>4. /\ x.at = "chunks" /\ x.chunks = <<>> /\ x.thumb = NoCid
        /\ x.upload /\ x.file \in File
    BY <1>0, <1>1, <1>4 DEF AcceptFile, Jobs, JobSound
  <2> HIDE DEF x
  <2>5. Len(x.file) \in Nat /\ Len(x.file) # 0 /\ ChunkSize \in Nat
    BY <2>4, MediaAssumption
  <2>6. Len(x.chunks) * ChunkSize < Len(x.file)
    BY <2>4, <2>5
  <2>7. JobSound(x, DOMAIN rows, contested, cas, pinned)
    BY <2>4, <2>6 DEF JobSound
  <2> QED BY <1>2, <2>2, <2>3, <2>7
<1>5. CASE RefuseBody(g) \/ RefuseFile(g)
  BY <1>2, <1>5, IdleJobSound DEF RefuseBody, RefuseFile, FinishJob
<1> QED BY <1>3, <1>4, <1>5

\* The upload stores a chunk, its file and its thumbnail.
LEMMA StoringKept ==
    ASSUME MediaKept, NEW g \in Goroutine, StoreChunk(g) \/ StoreFile(g) \/ StoreThumbnail(g)
    PROVE  MediaKept'
<1> DEFINE j == job[g]
<1>0. j \in Jobs /\ JobSound(j, DOMAIN rows, contested, cas, pinned)
  BY JobIs
<1>1. /\ UNCHANGED <<rows, fetched, access, followed, eviction, uploaded, contested>>
      /\ uploads' \in Nat /\ messages' \in Nat /\ changes' \in Nat /\ faults' \in Nat
      /\ j.at \in {"chunks", "file", "thumbnail"} /\ cas \subseteq Cids
  BY DEF StoreChunk, StoreFile, StoreThumbnail, MediaKept, TableTypes, history, bounds, JobAt
<1>2. /\ j.upload /\ j.file \in File
      /\ \A i \in DOMAIN j.chunks : j.chunks[i].cid \in ChunkCids(j.file) \cap (cas \cup contested)
      /\ j.thumb \in {ThumbnailOf(j.file), NoCid} /\ j.thumb \in cas \cup contested \cup {NoCid}
  BY <1>0, <1>1 DEF JobSound
<1>3. ASSUME NEW x \in Jobs, job' = [job EXCEPT ![g] = x], NEW c \in Cids,
             cas' = cas \/ cas' = cas \cup {c},
             JobSound(x, DOMAIN rows, contested, cas', pinned)
      PROVE  MediaKept'
  <2>1. cas \subseteq cas' /\ cas' \subseteq Cids
    BY <1>1, <1>3
  <2> QED BY <1>1, <1>3, <2>1, JobMoves DEF MediaKept, TableTypes
<1>4. CASE StoreChunk(g)
  <2> DEFINE k == Len(j.chunks)
             chunk == ReadFull(j.file, k)
             next == IF (k + 1) * ChunkSize >= Len(j.file) THEN "file" ELSE "chunks"
             e == [cid |-> chunk, index |-> k]
             x == [j EXCEPT !.chunks = Append(j.chunks, e), !.at = next]
  <2>1. job' = [job EXCEPT ![g] = x] /\ cas' = cas \cup {chunk} /\ j.at = "chunks"
    BY <1>4 DEF StoreChunk, JobAt
  <2>2. j.chunks \in Chunks /\ k \in Nat
    BY <1>0 DEF Jobs, Chunks
  <2>3. chunk \in ChunkCids(j.file) /\ chunk \in Cids
    BY <1>0, <1>2, <2>1, <2>2, ChunkRead, CidTypes DEF JobSound
  <2>4. next \in {"file", "chunks"} /\ (next = "chunks" => (k + 1) * ChunkSize < Len(j.file))
    BY <1>2, <2>2, MediaAssumption
  <2> HIDE DEF chunk, next
  <2>5. e \in [cid : Cids, index : Nat] /\ e.cid = chunk
    BY <2>2, <2>3
  <2> HIDE DEF e
  <2>6. /\ Append(j.chunks, e) \in Chunks /\ Len(Append(j.chunks, e)) = k + 1
        /\ \A i \in DOMAIN Append(j.chunks, e) :
              \/ i \in DOMAIN j.chunks /\ Append(j.chunks, e)[i] = j.chunks[i]
              \/ Append(j.chunks, e)[i] = e
    BY <2>2, <2>5 DEF Chunks
  <2>7. x \in Jobs
    BY <1>0, <2>4, <2>6 DEF Jobs
  <2>8. /\ x.at = next /\ x.chunks = Append(j.chunks, e) /\ x.file = j.file
        /\ x.thumb = j.thumb /\ x.upload = j.upload
    BY <1>0 DEF Jobs
  <2> HIDE DEF x
  <2>9. \A i \in DOMAIN x.chunks : x.chunks[i].cid \in ChunkCids(x.file) \cap (cas' \cup contested)
    BY <1>2, <2>1, <2>3, <2>5, <2>6, <2>8
  <2>10. x.at = "chunks" => Len(x.chunks) * ChunkSize < Len(x.file)
    BY <2>4, <2>6, <2>8
  <2>11. JobSound(x, DOMAIN rows, contested, cas', pinned)
    BY <1>2, <2>1, <2>4, <2>8, <2>9, <2>10 DEF JobSound
  <2> QED BY <1>3, <2>1, <2>3, <2>7, <2>11
<1>5. CASE StoreFile(g)
  <2> DEFINE x == [j EXCEPT !.at = "thumbnail"]
  <2>1. job' = [job EXCEPT ![g] = x] /\ cas' = cas \cup {j.file}
    BY <1>5 DEF StoreFile, JobGoto
  <2>2. x \in Jobs
    BY <1>0 DEF Jobs
  <2>3. /\ x.at = "thumbnail" /\ x.chunks = j.chunks /\ x.file = j.file
        /\ x.thumb = j.thumb /\ x.upload = j.upload
    BY <1>0 DEF Jobs
  <2> HIDE DEF x
  <2>4. JobSound(x, DOMAIN rows, contested, cas', pinned)
    BY <1>2, <2>1, <2>3 DEF JobSound
  <2> QED BY <1>2, <1>3, <2>1, <2>2, <2>4, CidTypes
<1>6. CASE StoreThumbnail(g)
  <2> DEFINE thumb == ThumbnailOf(j.file)
             x == [j EXCEPT !.thumb = thumb, !.at = "insert"]
             y == [j EXCEPT !.at = "insert"]
  <2>0. j.at = "thumbnail" /\ thumb \in Cids
    BY <1>2, <1>6, CidTypes DEF StoreThumbnail, JobAt
  <2>1. \/ job' = [job EXCEPT ![g] = x] /\ cas' = cas \cup {thumb}
        \/ job' = [job EXCEPT ![g] = y] /\ cas' = cas
    BY <1>6 DEF StoreThumbnail, JobGoto
  <2>2. x \in Jobs /\ y \in Jobs
    BY <1>0, <2>0 DEF Jobs
  <2>3. /\ x.at = "insert" /\ x.chunks = j.chunks /\ x.file = j.file
        /\ x.thumb = thumb /\ x.upload = j.upload
    BY <1>0 DEF Jobs
  <2>4. /\ y.at = "insert" /\ y.chunks = j.chunks /\ y.file = j.file
        /\ y.thumb = j.thumb /\ y.upload = j.upload
    BY <1>0 DEF Jobs
  <2>5. j.file \in cas \cup contested
    BY <1>0, <1>2, <2>0 DEF JobSound
  <2> HIDE DEF x, y
  <2>6. CASE job' = [job EXCEPT ![g] = x] /\ cas' = cas \cup {thumb}
    <3>1. JobSound(x, DOMAIN rows, contested, cas', pinned)
      BY <1>2, <2>3, <2>5, <2>6 DEF JobSound
    <3> QED BY <1>3, <2>0, <2>2, <2>6, <3>1
  <2>7. CASE job' = [job EXCEPT ![g] = y] /\ cas' = cas
    <3>1. JobSound(y, DOMAIN rows, contested, cas', pinned)
      BY <1>2, <2>4, <2>5, <2>7 DEF JobSound
    <3> QED BY <1>3, <2>0, <2>2, <2>7, <3>1
  <2> QED BY <2>1, <2>6, <2>7
<1> QED BY <1>4, <1>5, <1>6

\* The row of the upload.
LEMMA InsertKept ==
    ASSUME MediaKept, NEW g \in Goroutine, InsertOwn(g)
    PROVE  MediaKept'
<1> DEFINE j == job[g]
           x == [j EXCEPT !.at = "fetched"]
<1>0. j \in Jobs /\ JobSound(j, DOMAIN rows, contested, cas, pinned)
  BY JobIs
<1>1. /\ UNCHANGED <<cas, fetched, tracked, pinned, followed, victims, doomed, uploaded, contested,
                     uploads, messages, changes, faults>>
      /\ j.at = "insert" /\ job' = [job EXCEPT ![g] = x]
  BY DEF InsertOwn, JobAt, JobGoto, access, eviction, history, bounds
<1>2. j.upload /\ j.file \in File /\ j.thumb \in Cids
  BY <1>0, <1>1 DEF JobSound, Jobs
<1>3. /\ DOMAIN rows' = DOMAIN rows \cup {j.file}
      /\ rows'[j.file] = [author |-> Own, thumb |-> j.thumb]
      /\ \A m \in DOMAIN rows \ {j.file} : rows'[m] = rows[m]
  BY DEF InsertOwn, Inserted
<1>4. rows' = [m \in DOMAIN rows' |-> rows'[m]]
  BY DEF InsertOwn, Inserted
<1>5. TableTypes'
  <2>1. \A m \in DOMAIN rows' : rows'[m] \in [author : {Own, Other}, thumb : Cids]
    BY <1>2, <1>3 DEF MediaKept, TableTypes
  <2>2. rows' \in [DOMAIN rows' -> [author : {Own, Other}, thumb : Cids]]
    BY <1>4, <2>1
  <2> QED BY <1>1, <1>2, <1>3, <2>2 DEF MediaKept, TableTypes
<1>6. Grown
  BY <1>1, <1>3 DEF Grown
<1>7. x \in Jobs
  BY <1>0 DEF Jobs
<1>8. /\ x.at = "fetched" /\ x.chunks = j.chunks /\ x.file = j.file
      /\ x.thumb = j.thumb /\ x.upload = j.upload
  BY <1>0 DEF Jobs
<1> HIDE DEF x
<1>9. JobSound(x, DOMAIN rows', contested', cas', pinned')
  BY <1>0, <1>1, <1>2, <1>3, <1>8 DEF JobSound
<1>10. JobTypes' /\ JobsSound'
  BY <1>1, <1>6, <1>7, <1>9, JobsKept DEF MediaKept, MediaInv
<1>11. RowsSound'
  <2>1. Own # Other
    BY MediaAssumption
  <2>2. ASSUME NEW m \in DOMAIN rows', rows'[m].author = Other
        PROVE  m \in DOMAIN rows /\ rows'[m] = rows[m]
    BY <1>3, <2>1, <2>2
  <2> QED BY <1>1, <2>2 DEF RowsSound, MediaKept, MediaInv
<1>12. PinsSound' /\ UploadsSound'
  BY <1>1, <1>6, UploadsGrow DEF MediaKept, MediaInv, PinsSound
<1> QED BY <1>5, <1>10, <1>11, <1>12 DEF MediaKept, MediaInv

\* The list of CIDs to track has all of the upload's and no other.
LEMMA TodoIs ==
    ASSUME NEW j \in Jobs, j.file \in File
    PROVE  LET t == IF j.thumb = NoCid THEN <<>> ELSE <<j.thumb>>
               cs == [i \in DOMAIN j.chunks |-> j.chunks[i].cid]
               todo == <<j.file>> \o t \o cs IN
           /\ todo \in Seq(Cids) /\ todo # <<>>
           /\ \A i \in DOMAIN todo : todo[i] \in CidsOf(j)
           /\ \A c \in CidsOf(j) : \E i \in DOMAIN todo : todo[i] = c
<1> DEFINE t == IF j.thumb = NoCid THEN <<>> ELSE <<j.thumb>>
           cs == [i \in DOMAIN j.chunks |-> j.chunks[i].cid]
           ft == <<j.file>> \o t
           todo == ft \o cs
<1>0. j.chunks \in Chunks /\ j.thumb \in Cids /\ j.file \in Cids /\ j.file # NoCid
  BY CidTypes DEF Jobs
<1>1. /\ cs \in Seq(Cids) /\ Len(cs) = Len(j.chunks) /\ DOMAIN cs = DOMAIN j.chunks
      /\ \A i \in DOMAIN j.chunks : cs[i] = j.chunks[i].cid
  <2> DEFINE R == [cid : Cids, index : Nat]
  <2>0. j.chunks \in Seq(R) /\ \A e \in R : e.cid \in Cids
    BY <1>0 DEF Chunks
  <2> HIDE DEF R
  <2>1. DOMAIN j.chunks = 1..Len(j.chunks) /\ Len(j.chunks) \in Nat
    BY <2>0
  <2>2. \A i \in DOMAIN j.chunks : j.chunks[i].cid \in Cids
    BY <2>0
  <2>3. cs \in [1..Len(j.chunks) -> Cids]
    BY <2>1, <2>2
  <2>4. cs \in Seq(Cids) /\ Len(cs) = Len(j.chunks)
    BY <2>1, <2>3
  <2> QED BY <2>1, <2>4
<1> HIDE DEF cs
<1>2. /\ ft \in Seq(Cids) /\ Len(ft) \in 1..2 /\ ft[1] = j.file
      /\ Len(ft) = 2 => ft[2] = j.thumb /\ j.thumb # NoCid
      /\ j.thumb # NoCid => Len(ft) = 2
  <2>1. CASE j.thumb = NoCid
    <3>1. ft = <<j.file>>
      BY <1>0, <2>1
    <3> QED BY <1>0, <2>1, <3>1
  <2>2. CASE j.thumb # NoCid
    <3>1. ft = <<j.file>> \o <<j.thumb>>
      BY <2>2
    <3>2. /\ <<j.file>> \in Seq(Cids) /\ Len(<<j.file>>) = 1 /\ <<j.file>>[1] = j.file
          /\ <<j.thumb>> \in Seq(Cids) /\ Len(<<j.thumb>>) = 1 /\ <<j.thumb>>[1] = j.thumb
      BY <1>0
    <3>3. ft \in Seq(Cids) /\ Len(ft) = 2
      BY <3>1, <3>2
    <3>4. ft[1] = j.file /\ ft[2] = j.thumb
      BY <3>1, <3>2
    <3> QED BY <1>0, <2>2, <3>3, <3>4
  <2> QED BY <2>1, <2>2
<1> HIDE DEF ft
<1>3. /\ todo \in Seq(Cids) /\ Len(todo) = Len(ft) + Len(cs) /\ todo # <<>>
      /\ \A i \in 1..Len(todo) :
            todo[i] = IF i <= Len(ft) THEN ft[i] ELSE cs[i - Len(ft)]
  BY <1>1, <1>2
<1> HIDE DEF todo
<1>6. DOMAIN todo = 1..Len(todo) /\ DOMAIN cs = 1..Len(cs) /\ Len(cs) \in Nat
  BY <1>1, <1>3
<1>4. ASSUME NEW i \in DOMAIN todo PROVE todo[i] \in CidsOf(j)
  <2>1. CASE i <= Len(ft)
    BY <1>0, <1>2, <1>3, <1>6, <2>1 DEF CidsOf
  <2>2. CASE i > Len(ft)
    <3>1. i - Len(ft) \in DOMAIN cs /\ todo[i] = cs[i - Len(ft)]
      BY <1>2, <1>3, <1>6, <2>2
    <3> QED BY <1>1, <3>1 DEF CidsOf
  <2> QED BY <1>2, <1>6, <2>1, <2>2
<1>5. ASSUME NEW c \in CidsOf(j) PROVE \E i \in DOMAIN todo : todo[i] = c
  <2>1. CASE c = j.file
    <3>1. 1 \in DOMAIN todo /\ todo[1] = c
      BY <1>2, <1>3, <1>6, <2>1
    <3> QED BY <3>1
  <2>2. CASE c = j.thumb /\ c # NoCid
    <3>1. 2 \in DOMAIN todo /\ todo[2] = c
      BY <1>2, <1>3, <1>6, <2>2
    <3> QED BY <3>1
  <2>3. ASSUME NEW i \in DOMAIN j.chunks, c = j.chunks[i].cid
        PROVE  \E n \in DOMAIN todo : todo[n] = c
    <3>1. i \in 1..Len(cs) /\ cs[i] = c
      BY <1>1, <1>6, <2>3
    <3>2. i + Len(ft) \in DOMAIN todo /\ todo[i + Len(ft)] = c
      BY <1>2, <1>3, <1>6, <3>1
    <3> QED BY <3>2
  <2> QED BY <1>5, <2>1, <2>2, <2>3 DEF CidsOf
<1> QED BY <1>3, <1>4, <1>5 DEF todo, ft, cs

LEMMA FetchedKept ==
    ASSUME MediaKept, NEW g \in Goroutine, SetMediaFetched(g)
    PROVE  MediaKept'
<1> DEFINE j == job[g]
           todo == <<j.file>> \o (IF j.thumb = NoCid THEN <<>> ELSE <<j.thumb>>)
                   \o [i \in DOMAIN j.chunks |-> j.chunks[i].cid]
           x == [j EXCEPT !.at = "policy", !.todo = todo]
<1>0. j \in Jobs /\ JobSound(j, DOMAIN rows, contested, cas, pinned)
  BY JobIs
<1>1. /\ UNCHANGED <<cas, rows, access, followed, eviction, uploaded, contested>>
      /\ uploads' \in Nat /\ messages' \in Nat /\ changes' \in Nat /\ faults' \in Nat
      /\ j.at = "fetched" /\ job' = [job EXCEPT ![g] = x] /\ fetched' = fetched \cup {j.file}
  BY DEF SetMediaFetched, JobAt, history, bounds, MediaKept, TableTypes
<1>2. j.upload /\ j.file \in File
  BY <1>0, <1>1 DEF JobSound
<1>3. /\ todo \in Seq(Cids) /\ todo # <<>>
      /\ \A i \in DOMAIN todo : todo[i] \in CidsOf(j)
      /\ \A c \in CidsOf(j) : \E i \in DOMAIN todo : todo[i] = c
  BY <1>0, <1>2, TodoIs
<1> HIDE DEF todo
<1>4. x \in Jobs
  BY <1>0, <1>3 DEF Jobs
<1>5. /\ x.at = "policy" /\ x.chunks = j.chunks /\ x.file = j.file
      /\ x.thumb = j.thumb /\ x.upload = j.upload /\ x.todo = todo
  BY <1>0 DEF Jobs
<1> HIDE DEF x
<1>6. CidsOf(x) = CidsOf(j)
  BY <1>5 DEF CidsOf
<1>7. JobSound(x, DOMAIN rows, contested, cas, pinned)
  BY <1>0, <1>1, <1>2, <1>3, <1>5, <1>6 DEF JobSound
<1>8. fetched' \subseteq File /\ cas \subseteq Cids /\ followed' \in BOOLEAN
  BY <1>1, <1>2 DEF MediaKept, TableTypes
<1> QED BY <1>1, <1>4, <1>7, <1>8, JobMoves

\* The author of a CID that no other author sent is the own identity.
LEMMA PolicyPins ==
    ASSUME MediaKept, NEW g \in Goroutine, job[g].upload, job[g].at = "policy",
           NEW c, c = Head(job[g].todo), c \notin contested
    PROVE  lookupMediaAuthor(c, job[g].file) = {Own}
<1> DEFINE j == job[g]
<1>0. j \in Jobs /\ JobSound(j, DOMAIN rows, contested, cas, pinned)
  BY JobIs
<1>1. /\ j.file \in File /\ j.file \in DOMAIN rows /\ j.thumb \in {ThumbnailOf(j.file), NoCid}
      /\ \A i \in DOMAIN j.chunks : j.chunks[i].cid \in ChunkCids(j.file)
      /\ j.todo # <<>> /\ \A i \in DOMAIN j.todo : j.todo[i] \in CidsOf(j)
  BY <1>0 DEF JobSound
<1>2. j.todo \in Seq(Cids)
  BY <1>0 DEF Jobs
<1>3. 1 \in DOMAIN j.todo /\ c = j.todo[1]
  BY <1>1, <1>2
<1>4. c \in CidsOf(j)
  BY <1>1, <1>3
<1>5. c \in OwnCids(j.file) /\ c # NoCid
  BY <1>1, <1>4, ChunksNotEmpty, CidTypes DEF CidsOf, OwnCids
<1>6. ASSUME NEW m \in DOMAIN rows, m = j.file \/ rows[m].thumb = c
      PROVE  rows[m].author = Own
  <2>1. rows[m].author \in {Own, Other}
    BY DEF MediaKept, TableTypes
  <2>2. rows[m].author # Other
    BY <1>5, <1>6 DEF MediaKept, MediaInv, RowsSound
  <2> QED BY <2>1, <2>2
<1> QED BY <1>1, <1>6 DEF lookupMediaAuthor

LEMMA PolicyKept ==
    ASSUME MediaKept, NEW g \in Goroutine, ReadPolicy(g)
    PROVE  MediaKept'
<1> DEFINE j == job[g]
           c == Head(j.todo)
           authors == lookupMediaAuthor(c, j.file)
<1>0. j \in Jobs /\ JobSound(j, DOMAIN rows, contested, cas, pinned)
  BY JobIs
<1>1. /\ UNCHANGED <<cas, rows, fetched, access, followed, eviction, uploaded, contested>>
      /\ uploads' \in Nat /\ messages' \in Nat /\ changes' \in Nat /\ faults' \in Nat
      /\ j.at = "policy"
  BY DEF ReadPolicy, JobAt, history, bounds, MediaKept, TableTypes
<1>2. PICK pin \in BOOLEAN :
        /\ job' = [job EXCEPT ![g].pin = pin, ![g].at = "track"]
        /\ \/ authors = {}
           \/ \E author \in authors : pin = ShouldPinAuthor(author)
  <2>1. \/ authors = {} /\ job' = [job EXCEPT ![g].pin = FALSE, ![g].at = "track"]
        \/ \E author \in authors :
              job' = [job EXCEPT ![g].pin = ShouldPinAuthor(author), ![g].at = "track"]
    BY DEF ReadPolicy
  <2>2. \A a \in authors : ShouldPinAuthor(a) \in BOOLEAN
    BY DEF ShouldPinAuthor, MediaKept, TableTypes
  <2> QED BY <2>1, <2>2, Zenon
<1> DEFINE x == [j EXCEPT !.pin = pin, !.at = "track"]
<1>3. job' = [job EXCEPT ![g] = x]
  BY <1>2
<1>4. x \in Jobs
  BY <1>0 DEF Jobs
<1>5. /\ x.at = "track" /\ x.chunks = j.chunks /\ x.file = j.file
      /\ x.thumb = j.thumb /\ x.upload = j.upload /\ x.todo = j.todo /\ x.pin = pin
  BY <1>0 DEF Jobs
<1> HIDE DEF x
<1>6. c \notin contested \cup pinned => pin
  <2> SUFFICES ASSUME c \notin contested \cup pinned PROVE pin
    OBVIOUS
  <2>1. CASE j.upload
    <3>1. authors = {Own}
      BY <1>1, <2>1, PolicyPins
    <3> QED BY <1>2, <3>1 DEF ShouldPinAuthor
  <2>2. CASE ~j.upload
    <3>1. /\ j.todo \in Seq(Cids) /\ j.todo # <<>>
          /\ \A i \in DOMAIN j.todo : j.todo[i] \in contested \cup pinned
      BY <1>0, <1>1, <2>2 DEF JobSound, Jobs
    <3>2. 1 \in DOMAIN j.todo /\ c = j.todo[1]
      BY <3>1
    <3> QED BY <3>1, <3>2
  <2> QED BY <2>1, <2>2
<1>7. CidsOf(x) = CidsOf(j)
  BY <1>5 DEF CidsOf
<1>8. JobSound(x, DOMAIN rows, contested, cas, pinned)
  BY <1>0, <1>1, <1>5, <1>6, <1>7 DEF JobSound
<1>9. fetched' \subseteq File /\ cas \subseteq Cids /\ followed' \in BOOLEAN
  BY <1>1 DEF MediaKept, TableTypes
<1> QED BY <1>1, <1>3, <1>4, <1>8, <1>9, JobMoves

\* What is left of a list after its first element.
LEMMA TailOf ==
    ASSUME NEW S, NEW s \in Seq(S), s # <<>>
    PROVE  /\ Head(s) \in S /\ Head(s) = s[1] /\ 1 \in DOMAIN s
           /\ Tail(s) \in Seq(S) /\ Len(Tail(s)) = Len(s) - 1 /\ Len(s) \in Nat
           /\ \A i \in 1..Len(Tail(s)) : Tail(s)[i] = s[i + 1] /\ i + 1 \in DOMAIN s
           /\ \A i \in DOMAIN s :
                 i = 1 \/ (i - 1 \in 1..Len(Tail(s)) /\ Tail(s)[i - 1] = s[i])
           /\ DOMAIN Tail(s) = 1..Len(Tail(s))
<1>1. Len(s) \in Nat /\ Len(s) # 0 /\ DOMAIN s = 1..Len(s)
  OBVIOUS
<1>2. Head(s) \in S /\ Head(s) = s[1] /\ 1 \in DOMAIN s
  BY <1>1
<1>3. Tail(s) \in Seq(S) /\ Len(Tail(s)) = Len(s) - 1 /\ DOMAIN Tail(s) = 1..Len(Tail(s))
  BY <1>1
<1>4. \A i \in 1..(Len(s) - 1) : Tail(s)[i] = s[i + 1] /\ i + 1 \in DOMAIN s
  BY <1>1, <1>3
<1>5. \A i \in DOMAIN s : i = 1 \/ (i - 1 \in 1..(Len(s) - 1) /\ Tail(s)[i - 1] = s[i])
  <2> SUFFICES ASSUME NEW i \in DOMAIN s, i # 1
               PROVE  i - 1 \in 1..(Len(s) - 1) /\ Tail(s)[i - 1] = s[i]
    OBVIOUS
  <2>1. i - 1 \in 1..(Len(s) - 1) /\ (i - 1) + 1 = i
    BY <1>1
  <2> QED BY <1>4, <2>1
<1> QED BY <1>1, <1>2, <1>3, <1>4, <1>5

\* TrackContentAccess pins what is not contested.
LEMMA TrackKept ==
    ASSUME MediaKept, NEW g \in Goroutine, Track(g)
    PROVE  MediaKept'
<1> DEFINE j == job[g]
           c == Head(j.todo)
           rest == Tail(j.todo)
           next == IF rest = <<>> THEN "publish" ELSE "policy"
           x == [j EXCEPT !.todo = rest, !.at = next]
<1>0. j \in Jobs /\ JobSound(j, DOMAIN rows, contested, cas, pinned)
  BY JobIs
<1>1. /\ UNCHANGED <<cas, rows, fetched, followed, victims, doomed, uploaded, contested,
                     uploads, messages, changes, faults>>
      /\ j.at = "track"
      /\ tracked' = tracked \cup {c} /\ pinned' = IF j.pin THEN pinned \cup {c} ELSE pinned
  BY DEF Track, JobAt, eviction, history, bounds
<1>2. \/ job' = [job EXCEPT ![g] = IdleJob]
      \/ job' = [job EXCEPT ![g] = x] /\ (j.upload \/ rest # <<>>)
  BY DEF Track, FinishJob
<1>3. j.todo \in Seq(Cids) /\ j.todo # <<>> /\ (c \notin contested \cup pinned => j.pin)
  BY <1>0, <1>1 DEF JobSound, Jobs
<1>4. /\ c \in Cids /\ c = j.todo[1] /\ 1 \in DOMAIN j.todo
      /\ rest \in Seq(Cids) /\ Len(rest) = Len(j.todo) - 1 /\ Len(j.todo) \in Nat
      /\ \A i \in 1..Len(rest) : rest[i] = j.todo[i + 1] /\ i + 1 \in DOMAIN j.todo
      /\ \A i \in DOMAIN j.todo : i = 1 \/ (i - 1 \in 1..Len(rest) /\ rest[i - 1] = j.todo[i])
      /\ DOMAIN rest = 1..Len(rest)
  BY <1>3, TailOf
<1>5. c \in pinned' \cup contested /\ pinned \subseteq pinned' /\ pinned' \subseteq pinned \cup {c}
  BY <1>1, <1>3
<1>6. Grown
  BY <1>1, <1>5 DEF Grown
<1>7. TableTypes'
  BY <1>1, <1>4, <1>5 DEF MediaKept, TableTypes
<1>8. PinsSound' /\ RowsSound' /\ UploadsSound'
  BY <1>1, <1>5, <1>6, UploadsGrow DEF MediaKept, MediaInv, PinsSound, RowsSound
<1>9. CASE job' = [job EXCEPT ![g] = IdleJob]
  <2>1. JobTypes' /\ JobsSound'
    BY <1>6, <1>9, JobsKept, IdleJobSound DEF MediaKept, MediaInv
  <2> QED BY <1>7, <1>8, <2>1 DEF MediaKept, MediaInv
<1>10. CASE job' = [job EXCEPT ![g] = x] /\ (j.upload \/ rest # <<>>)
  <2> HIDE DEF c, rest
  <2>1. x \in Jobs
    BY <1>0, <1>4 DEF Jobs
  <2>2. /\ x.at = next /\ x.chunks = j.chunks /\ x.file = j.file
        /\ x.thumb = j.thumb /\ x.upload = j.upload /\ x.todo = rest
    BY <1>0 DEF Jobs
  <2> HIDE DEF x
  <2>3. CidsOf(x) = CidsOf(j)
    BY <2>2 DEF CidsOf
  <2>4. ASSUME j.upload
        PROVE  /\ \A i \in DOMAIN rest : rest[i] \in CidsOf(j)
               /\ \A d \in CidsOf(j) :
                     d \in contested \cup pinned' \/ \E i \in DOMAIN rest : rest[i] = d
    <3>1. /\ \A i \in DOMAIN j.todo : j.todo[i] \in CidsOf(j)
          /\ \A d \in CidsOf(j) :
                d \in contested \cup pinned \/ \E i \in DOMAIN j.todo : j.todo[i] = d
      BY <1>0, <1>1, <2>4 DEF JobSound
    <3>2. ASSUME NEW d \in CidsOf(j)
          PROVE  d \in contested \cup pinned' \/ \E i \in DOMAIN rest : rest[i] = d
      <4>1. CASE d \in contested \cup pinned
        BY <1>5, <4>1
      <4>2. ASSUME NEW i \in DOMAIN j.todo, j.todo[i] = d
            PROVE  d \in contested \cup pinned' \/ \E n \in DOMAIN rest : rest[n] = d
        BY <1>4, <1>5, <4>2
      <4> QED BY <3>1, <4>1, <4>2
    <3> QED BY <1>4, <3>1, <3>2
  <2>5. ASSUME ~j.upload PROVE \A i \in DOMAIN rest : rest[i] \in contested \cup pinned'
    <3>1. \A i \in DOMAIN j.todo : j.todo[i] \in contested \cup pinned
      BY <1>0, <1>1, <2>5 DEF JobSound
    <3> QED BY <1>4, <1>5, <3>1
  <2>6. /\ j.upload => j.file \in cas \cup contested /\ j.file \in DOMAIN rows
        /\ j.upload => /\ j.file \in File /\ j.thumb \in {ThumbnailOf(j.file), NoCid}
                       /\ \A i \in DOMAIN j.chunks :
                             j.chunks[i].cid \in ChunkCids(j.file) \cap (cas \cup contested)
                       /\ j.thumb \in cas \cup contested \cup {NoCid}
    BY <1>0, <1>1 DEF JobSound
  <2>7. JobSound(x, DOMAIN rows, contested, cas, pinned')
    <3>1. CASE rest = <<>>
      <4>1. j.upload /\ next = "publish" /\ DOMAIN rest = {}
        BY <1>10, <3>1
      <4>2. CidsOf(j) \subseteq contested \cup pinned'
        BY <2>4, <4>1
      <4> QED BY <2>2, <2>3, <2>6, <4>1, <4>2 DEF JobSound
    <3>2. CASE rest # <<>>
      <4>1. next = "policy"
        BY <3>2
      <4> QED BY <2>2, <2>3, <2>4, <2>5, <2>6, <3>2, <4>1 DEF JobSound
    <3> QED BY <3>1, <3>2
  <2>8. JobTypes' /\ JobsSound'
    BY <1>1, <1>6, <1>10, <2>1, <2>7, JobsKept DEF MediaKept, MediaInv
  <2> QED BY <1>7, <1>8, <2>8 DEF MediaKept, MediaInv
<1> QED BY <1>2, <1>9, <1>10

\* A read opens the store or the network and tracks what it opened.
LEMMA StartReadKept ==
    ASSUME MediaKept, NEW g \in Goroutine, NEW c \in Asked, NEW target \in Cids,
           NEW found \in BOOLEAN, StartRead(g, c, target, found)
    PROVE  MediaKept'
<1> DEFINE x == [IdleJob EXCEPT !.at = "open", !.file = c, !.todo = <<target>>, !.row = found]
<1>1. /\ UNCHANGED <<cas, rows, fetched, access, followed, eviction, uploaded, contested>>
      /\ uploads' \in Nat /\ messages' \in Nat /\ changes' \in Nat /\ faults' \in Nat
      /\ job' = [job EXCEPT ![g] = x]
  BY DEF StartRead, StartJob, history, MediaKept, TableTypes
<1>2. /\ <<target>> \in Seq(Cids) /\ <<target>> # <<>> /\ c \in Cids
      /\ \A i \in DOMAIN <<target>> : <<target>>[i] = Head(<<target>>)
  BY ReadAssumption
<1>3. x \in Jobs
  BY <1>2, IdleJobSound DEF Jobs
<1>4. x.at = "open" /\ ~x.upload /\ x.todo = <<target>>
  BY DEF IdleJob
<1> HIDE DEF x
<1>5. JobSound(x, DOMAIN rows, contested, cas, pinned)
  BY <1>2, <1>4 DEF JobSound
<1> QED BY <1>1, <1>3, <1>5, JobMoves DEF MediaKept, TableTypes

LEMMA OpenKept ==
    ASSUME MediaKept, NEW g \in Goroutine, OpenStored(g) \/ OpenFetched(g) \/ OpenFails(g)
    PROVE  MediaKept'
<1> DEFINE j == job[g]
<1>0. j \in Jobs /\ JobSound(j, DOMAIN rows, contested, cas, pinned)
  BY JobIs
<1>1. /\ UNCHANGED <<rows, fetched, access, followed, eviction, uploaded, contested>>
      /\ uploads' \in Nat /\ messages' \in Nat /\ changes' \in Nat /\ faults' \in Nat
      /\ j.at = "open" /\ cas' \in {cas, cas \cup {Head(j.todo)}}
  BY DEF OpenStored, OpenFetched, OpenFails, JobAt, history, bounds, MediaKept, TableTypes
<1>2. /\ j.todo \in Seq(Cids) /\ j.todo # <<>> /\ ~j.upload /\ j.file \in Cids
      /\ \A i \in DOMAIN j.todo : j.todo[i] = Head(j.todo)
  BY <1>0, <1>1 DEF JobSound, Jobs
<1>3. cas \subseteq cas' /\ cas' \subseteq Cids
  BY <1>1, <1>2 DEF MediaKept, TableTypes
<1>4. ASSUME NEW x \in Jobs, job' = [job EXCEPT ![g] = x],
             JobSound(x, DOMAIN rows, contested, cas', pinned)
      PROVE  MediaKept'
  BY <1>1, <1>3, <1>4, JobMoves DEF MediaKept, TableTypes
<1>5. CASE OpenStored(g) \/ OpenFetched(g)
  <2> DEFINE x == [j EXCEPT !.at = "access"]
  <2>1. job' = [job EXCEPT ![g] = x]
    BY <1>5 DEF OpenStored, OpenFetched, JobGoto
  <2>2. x \in Jobs
    BY <1>0 DEF Jobs
  <2>3. x.at = "access" /\ x.upload = j.upload /\ x.todo = j.todo
    BY <1>0 DEF Jobs
  <2> HIDE DEF x
  <2>4. JobSound(x, DOMAIN rows, contested, cas', pinned)
    BY <1>2, <2>3 DEF JobSound
  <2> QED BY <1>4, <2>1, <2>2, <2>4
<1>6. ASSUME OpenFails(g), job' = [job EXCEPT ![g].todo = <<j.file>>, ![g].row = FALSE]
      PROVE  MediaKept'
  <2> DEFINE x == [j EXCEPT !.todo = <<j.file>>, !.row = FALSE]
  <2>1. job' = [job EXCEPT ![g] = x]
    BY <1>6
  <2>2. /\ <<j.file>> \in Seq(Cids) /\ <<j.file>> # <<>>
        /\ \A i \in DOMAIN <<j.file>> : <<j.file>>[i] = Head(<<j.file>>)
    BY <1>2
  <2>3. x \in Jobs
    BY <1>0, <2>2 DEF Jobs
  <2>4. x.at = "open" /\ x.upload = j.upload /\ x.todo = <<j.file>>
    BY <1>0, <1>1 DEF Jobs
  <2> HIDE DEF x
  <2>5. JobSound(x, DOMAIN rows, contested, cas', pinned)
    BY <1>2, <2>2, <2>4 DEF JobSound
  <2> QED BY <1>4, <2>1, <2>3, <2>5
<1>7. ASSUME OpenFails(g), FinishJob(g) PROVE MediaKept'
  BY <1>4, <1>7, IdleJobSound DEF FinishJob
<1> QED BY <1>5, <1>6, <1>7 DEF OpenFails

\* What a read tracks is pinned, or contested from then on.
LEMMA AccessKept ==
    ASSUME MediaKept, NEW g \in Goroutine, TrackAccess(g)
    PROVE  MediaKept'
<1> DEFINE j == job[g]
           c == Head(j.todo)
           x == [j EXCEPT !.at = "policy"]
<1>0. j \in Jobs /\ JobSound(j, DOMAIN rows, contested, cas, pinned)
  BY JobIs
<1>1. /\ UNCHANGED <<cas, rows, fetched, pinned, followed, victims, doomed, uploaded,
                     uploads, messages, changes>>
      /\ j.at = "access" /\ tracked \subseteq tracked' /\ tracked' \subseteq tracked \cup {c}
      /\ contested' = contested \cup ({c} \ pinned) /\ faults' \in Nat
  BY DEF TrackAccess, JobAt, eviction, MediaKept, TableTypes
<1>2. \/ job' = [job EXCEPT ![g] = IdleJob]
      \/ job' = [job EXCEPT ![g] = x]
  BY DEF TrackAccess, FinishJob, JobGoto
<1>3. /\ j.todo \in Seq(Cids) /\ j.todo # <<>> /\ ~j.upload
      /\ \A i \in DOMAIN j.todo : j.todo[i] = c
  BY <1>0, <1>1 DEF JobSound, Jobs
<1>4. Grown
  BY <1>1 DEF Grown
<1>5. c \in Cids
  BY <1>3, TailOf
<1>6. TableTypes'
  BY <1>1, <1>5 DEF MediaKept, TableTypes
<1>7. PinsSound' /\ RowsSound' /\ UploadsSound'
  BY <1>1, <1>4, UploadsGrow DEF MediaKept, MediaInv, PinsSound, RowsSound
<1>8. CASE job' = [job EXCEPT ![g] = IdleJob]
  <2>1. JobTypes' /\ JobsSound'
    BY <1>4, <1>8, JobsKept, IdleJobSound DEF MediaKept, MediaInv
  <2> QED BY <1>6, <1>7, <2>1 DEF MediaKept, MediaInv
<1>9. CASE job' = [job EXCEPT ![g] = x]
  <2> HIDE DEF c
  <2>1. x \in Jobs
    BY <1>0 DEF Jobs
  <2>2. x.at = "policy" /\ x.upload = j.upload /\ x.todo = j.todo
    BY <1>0 DEF Jobs
  <2> HIDE DEF x
  <2>3. \A i \in DOMAIN x.todo : x.todo[i] \in contested' \cup pinned'
    BY <1>1, <1>3, <2>2
  <2>4. JobSound(x, DOMAIN rows', contested', cas', pinned')
    BY <1>3, <2>2, <2>3 DEF JobSound
  <2>5. JobTypes' /\ JobsSound'
    BY <1>4, <1>9, <2>1, <2>4, JobsKept DEF MediaKept, MediaInv
  <2> QED BY <1>6, <1>7, <2>5 DEF MediaKept, MediaInv
<1> QED BY <1>2, <1>8, <1>9

LEMMA ReadKept ==
    ASSUME MediaKept, NEW g \in Goroutine, Read(g)
    PROVE  MediaKept'
<1>1. ASSUME NEW c \in Asked, GetMedia(g, c) \/ GetMediaThumbnail(g, c) PROVE MediaKept'
  <2>1. c \in Cids /\ \A m \in DOMAIN rows : rows[m].thumb \in Cids
    BY ReadAssumption DEF MediaKept, TableTypes
  <2>2. CASE GetMedia(g, c)
    <3>1. (c \in DOMAIN rows) \in BOOLEAN
      OBVIOUS
    <3> QED BY <2>1, <2>2, <3>1, StartReadKept DEF GetMedia
  <2>3. CASE GetMediaThumbnail(g, c)
    <3> DEFINE has == c \in DOMAIN rows /\ rows[c].thumb # NoCid
               target == IF has THEN rows[c].thumb ELSE c
    <3>1. has \in BOOLEAN /\ target \in Cids
      BY <2>1
    <3>2. StartRead(g, c, target, has)
      BY <2>3 DEF GetMediaThumbnail
    <3> HIDE DEF has, target
    <3> QED BY <3>1, <3>2, StartReadKept
  <2> QED BY <1>1, <2>2, <2>3
<1> QED BY <1>1, OpenKept, AccessKept DEF Read

\* The upload is answered.
LEMMA PublishKept ==
    ASSUME MediaKept, NEW g \in Goroutine, Publish(g)
    PROVE  MediaKept'
<1> DEFINE j == job[g]
           m == [file |-> j.file, thumb |-> j.thumb, chunks |-> j.chunks]
<1>0. j \in Jobs /\ JobSound(j, DOMAIN rows, contested, cas, pinned)
  BY JobIs
<1>1. /\ UNCHANGED <<cas, rows, fetched, tracked, pinned, followed, victims, doomed, contested,
                     uploads, messages, changes, faults>>
      /\ j.at = "publish" /\ job' = [job EXCEPT ![g] = IdleJob]
      /\ uploaded' = uploaded \cup {m}
  BY DEF Publish, FinishJob, JobAt, access, eviction, bounds
<1>2. Grown
  BY <1>1 DEF Grown
<1>3. JobTypes' /\ JobsSound'
  BY <1>1, <1>2, JobsKept, IdleJobSound DEF MediaKept, MediaInv
<1>4. /\ j.file \in File /\ j.file \in cas \cup contested
      /\ \A i \in DOMAIN j.chunks : j.chunks[i].cid \in cas \cup contested
      /\ j.thumb \in cas \cup contested \cup {NoCid}
      /\ CidsOf(j) \subseteq contested \cup pinned
  BY <1>0, <1>1 DEF JobSound
<1>5. m \in [file : File, thumb : Cids, chunks : Chunks]
  BY <1>0, <1>4 DEF Jobs
<1>6. CidsOf(m) = CidsOf(j)
  BY DEF CidsOf
<1>7. CidsOf(j) \subseteq (cas \cap pinned) \cup contested
  BY <1>4 DEF CidsOf
<1> HIDE DEF m
<1>8. TableTypes'
  BY <1>1, <1>5 DEF MediaKept, TableTypes
<1>9. UploadsSound'
  <2>1. ASSUME NEW n \in uploaded' PROVE CidsOf(n) \subseteq (cas \cap pinned) \cup contested
    BY <1>1, <1>6, <1>7, <2>1 DEF MediaKept, MediaInv, UploadsSound
  <2> QED BY <1>1, <2>1 DEF UploadsSound
<1>10. PinsSound' /\ RowsSound'
  BY <1>1 DEF MediaKept, MediaInv, PinsSound, RowsSound
<1> QED BY <1>3, <1>8, <1>9, <1>10 DEF MediaKept, MediaInv

\* Another author announces a file or sends a chunk.
LEMMA MessageKept ==
    ASSUME MediaKept, Message
    PROVE  MediaKept'
<1>1. ASSUME NEW f \in Foreign, NEW thumb \in {ThumbnailOf(f), NoCid}, HandleMediaObject(f, thumb)
      PROVE  MediaKept'
  <2>0. f \in Cids /\ thumb \in Cids /\ ThumbnailOf(f) \in Cids /\ ChunkCids(f) \subseteq Cids
        /\ f # NoCid
    BY CidTypes
  <2>1. /\ UNCHANGED <<job, cas, fetched, tracked, pinned, followed, victims, doomed, uploaded,
                       uploads, changes, faults>>
        /\ contested' = contested \cup ({f, thumb, ThumbnailOf(f)} \ {NoCid}) \cup ChunkCids(f)
        /\ messages' \in Nat
    BY <1>1 DEF HandleMediaObject, access, eviction, MediaKept, TableTypes
  <2>2. /\ DOMAIN rows' = DOMAIN rows \cup {f}
        /\ rows'[f] = [author |-> Other, thumb |-> thumb]
        /\ \A m \in DOMAIN rows \ {f} : rows'[m] = rows[m]
    BY <1>1 DEF HandleMediaObject, Inserted
  <2>3. rows' = [m \in DOMAIN rows' |-> rows'[m]]
    BY <1>1 DEF HandleMediaObject, Inserted
  <2>4. Grown
    BY <2>1, <2>2 DEF Grown
  <2>5. TableTypes'
    <3>1. \A m \in DOMAIN rows' : rows'[m] \in [author : {Own, Other}, thumb : Cids]
      BY <2>0, <2>2 DEF MediaKept, TableTypes
    <3>2. rows' \in [DOMAIN rows' -> [author : {Own, Other}, thumb : Cids]]
      BY <2>3, <3>1
    <3> QED BY <2>0, <2>1, <2>2, <3>2 DEF MediaKept, TableTypes
  <2>6. JobTypes' /\ JobsSound'
    <3>1. ASSUME NEW g \in Goroutine
          PROVE  JobSound(job[g], DOMAIN rows', contested', cas', pinned')
      BY <2>4, JobIs, JobGrows DEF Grown
    <3> QED BY <2>1, <3>1 DEF JobsSound, MediaKept, JobTypes
  <2>7. RowsSound'
    <3> SUFFICES ASSUME NEW m \in DOMAIN rows', rows'[m].author = Other
                 PROVE  /\ m \in contested' /\ OwnCids(m) \subseteq contested'
                        /\ rows'[m].thumb \in contested' \cup {NoCid}
      BY DEF RowsSound
    <3>1. CASE m = f
      BY <2>0, <2>1, <2>2, <3>1 DEF OwnCids
    <3>2. CASE m # f
      <4>1. m \in DOMAIN rows /\ rows[m].author = Other /\ rows'[m] = rows[m]
        BY <2>2, <3>2
      <4>2. /\ m \in contested /\ OwnCids(m) \subseteq contested
            /\ rows[m].thumb \in contested \cup {NoCid}
        BY <4>1 DEF MediaKept, MediaInv, RowsSound
      <4>3. contested \subseteq contested'
        BY <2>1
      <4> QED BY <4>1, <4>2, <4>3
    <3> QED BY <3>1, <3>2
  <2>8. PinsSound' /\ UploadsSound'
    BY <2>1, <2>4, UploadsGrow DEF MediaKept, MediaInv, PinsSound
  <2> QED BY <2>5, <2>6, <2>7, <2>8 DEF MediaKept, MediaInv
<1>2. ASSUME NEW g \in Goroutine, NEW c \in Foreign, NEW parent \in File,
             HandleMediaChunk(g, c, parent)
      PROVE  MediaKept'
  <2> DEFINE x == [IdleJob EXCEPT !.at = "put", !.file = parent, !.todo = <<c>>]
  <2>0. c \in Cids
    BY CidTypes
  <2>1. /\ UNCHANGED <<cas, rows, fetched, tracked, pinned, followed, victims, doomed, uploaded,
                       uploads, changes, faults>>
        /\ contested' = contested \cup {c} /\ messages' \in Nat
        /\ job' = [job EXCEPT ![g] = x]
    BY <1>2 DEF HandleMediaChunk, StartJob, access, eviction, MediaKept, TableTypes
  <2>2. Grown
    BY <2>1 DEF Grown
  <2>3. <<c>> \in Seq(Cids) /\ <<c>> # <<>> /\ \A i \in DOMAIN <<c>> : <<c>>[i] = c
    BY <2>0
  <2>4. x \in Jobs
    BY <2>3, IdleJobSound, CidTypes DEF Jobs
  <2>5. x.at = "put" /\ ~x.upload /\ x.todo = <<c>>
    BY DEF IdleJob
  <2> HIDE DEF x
  <2>6. JobSound(x, DOMAIN rows', contested', cas', pinned')
    BY <2>1, <2>3, <2>5 DEF JobSound
  <2>7. JobTypes' /\ JobsSound'
    BY <2>1, <2>2, <2>4, <2>6, JobsKept DEF MediaKept, MediaInv
  <2>8. TableTypes'
    BY <2>0, <2>1 DEF MediaKept, TableTypes
  <2>9. PinsSound' /\ UploadsSound' /\ RowsSound'
    BY <2>1, <2>2, UploadsGrow DEF MediaKept, MediaInv, PinsSound, RowsSound
  <2> QED BY <2>7, <2>8, <2>9 DEF MediaKept, MediaInv
<1>3. ASSUME NEW g \in Goroutine, PutChunk(g) PROVE MediaKept'
  <2> DEFINE j == job[g]
             x == [j EXCEPT !.at = "policy"]
  <2>0. j \in Jobs /\ JobSound(j, DOMAIN rows, contested, cas, pinned)
    BY JobIs
  <2>1. /\ UNCHANGED <<rows, fetched, access, followed, eviction, uploaded, contested>>
        /\ uploads' \in Nat /\ messages' \in Nat /\ changes' \in Nat /\ faults' \in Nat
        /\ j.at = "put" /\ job' = [job EXCEPT ![g] = x] /\ cas' = cas \cup {Head(j.todo)}
    BY <1>3 DEF PutChunk, JobAt, JobGoto, history, bounds, MediaKept, TableTypes
  <2>2. /\ j.todo \in Seq(Cids) /\ j.todo # <<>> /\ ~j.upload
        /\ \A i \in DOMAIN j.todo : j.todo[i] \in contested \cup pinned
    BY <2>0, <2>1 DEF JobSound, Jobs
  <2>3. Head(j.todo) \in Cids
    BY <2>2
  <2>4. x \in Jobs
    BY <2>0 DEF Jobs
  <2>5. x.at = "policy" /\ x.upload = j.upload /\ x.todo = j.todo
    BY <2>0 DEF Jobs
  <2> HIDE DEF x
  <2>6. JobSound(x, DOMAIN rows, contested, cas', pinned)
    BY <2>2, <2>5 DEF JobSound
  <2>7. cas \subseteq cas' /\ cas' \subseteq Cids
    BY <2>1, <2>3 DEF MediaKept, TableTypes
  <2> QED BY <2>1, <2>4, <2>6, <2>7, JobMoves DEF MediaKept, TableTypes
<1> QED BY <1>1, <1>2, <1>3 DEF Message

\* A follow or unfollow pins or unpins only what another author sent.
LEMMA RepinKept ==
    ASSUME MediaKept, NEW g \in Goroutine, NEW x \in Jobs, NEW cids, NEW pin \in BOOLEAN,
           SetPinned(cids, pin), cids \subseteq contested,
           job' = [job EXCEPT ![g] = x], ~x.upload, x.at \in {"idle", "pinthumbs"},
           UNCHANGED <<cas, rows, fetched, followed, eviction, history, bounds>>
    PROVE  MediaKept'
<1>1. /\ UNCHANGED <<cas, rows, fetched, followed, victims, doomed, uploaded, contested,
                     uploads, messages, changes, faults>>
      /\ tracked' = tracked \cup cids
      /\ pinned' = IF pin THEN pinned \cup cids ELSE pinned \ cids
  BY DEF SetPinned, eviction, history, bounds
<1>2. Grown
  BY <1>1 DEF Grown
<1>3. JobSound(x, DOMAIN rows', contested', cas', pinned')
  BY DEF JobSound
<1>4. JobTypes' /\ JobsSound'
  BY <1>2, <1>3, JobsKept DEF MediaKept, MediaInv
<1>5. TableTypes'
  BY <1>1 DEF MediaKept, TableTypes
<1>6. PinsSound' /\ UploadsSound' /\ RowsSound'
  BY <1>1, <1>2, UploadsGrow DEF MediaKept, MediaInv, PinsSound, RowsSound
<1> QED BY <1>4, <1>5, <1>6 DEF MediaKept, MediaInv

LEMMA FollowKept ==
    ASSUME MediaKept, NEW g \in Goroutine, RecomputePin(g) \/ PinMedia(g) \/ PinThumbnails(g)
    PROVE  MediaKept'
<1> DEFINE j == job[g]
<1>0. j \in Jobs /\ JobSound(j, DOMAIN rows, contested, cas, pinned)
  BY JobIs
<1>1. ~j.upload /\ j.pin \in BOOLEAN
  BY <1>0 DEF JobSound, Jobs, RecomputePin, PinMedia, PinThumbnails, JobAt
<1>2. CASE RecomputePin(g)
  <2> DEFINE pin == ShouldPinAuthor(Other)
             x == [j EXCEPT !.pin = pin, !.at = "pinmedia"]
  <2>1. job' = [job EXCEPT ![g] = x]
    BY <1>2 DEF RecomputePin
  <2>2. pin \in BOOLEAN
    BY DEF ShouldPinAuthor, MediaKept, TableTypes
  <2> HIDE DEF pin
  <2>3. x \in Jobs
    BY <1>0, <2>2 DEF Jobs
  <2>4. x.at = "pinmedia" /\ x.upload = j.upload
    BY <1>0 DEF Jobs
  <2> HIDE DEF x
  <2>5. JobSound(x, DOMAIN rows, contested, cas, pinned)
    BY <1>1, <2>4 DEF JobSound
  <2>6. /\ UNCHANGED <<cas, rows, fetched, access, followed, eviction, uploaded, contested>>
        /\ uploads' \in Nat /\ messages' \in Nat /\ changes' \in Nat /\ faults' \in Nat
    BY <1>2 DEF RecomputePin, history, bounds, MediaKept, TableTypes
  <2> QED BY <2>1, <2>3, <2>5, <2>6, JobMoves DEF MediaKept, TableTypes
<1>3. MediaBy(Other) \subseteq contested /\ ThumbnailsBy(Other) \subseteq contested
  BY DEF MediaBy, ThumbnailsBy, MediaKept, MediaInv, RowsSound
<1>4. CASE PinMedia(g)
  <2> DEFINE x == [j EXCEPT !.at = "pinthumbs"]
  <2>1. /\ job' = [job EXCEPT ![g] = x] /\ SetPinned(MediaBy(Other), j.pin)
        /\ UNCHANGED <<cas, rows, fetched, followed, eviction, history, bounds>>
    BY <1>4 DEF PinMedia, JobGoto
  <2>2. x \in Jobs /\ x.at = "pinthumbs" /\ x.upload = j.upload
    BY <1>0 DEF Jobs
  <2> HIDE DEF x
  <2> QED BY <1>1, <1>3, <2>1, <2>2, RepinKept
<1>5. CASE PinThumbnails(g)
  <2>1. /\ job' = [job EXCEPT ![g] = IdleJob] /\ SetPinned(ThumbnailsBy(Other), j.pin)
        /\ UNCHANGED <<cas, rows, fetched, followed, eviction, history, bounds>>
    BY <1>5 DEF PinThumbnails, FinishJob
  <2>2. IdleJob.at = "idle"
    BY DEF IdleJob
  <2> QED BY <1>1, <1>3, <2>1, <2>2, IdleJobSound, RepinKept
<1> QED BY <1>2, <1>4, <1>5

\* Only what is contested is evicted.
LEMMA EvictKept ==
    ASSUME MediaKept, Evict
    PROVE  MediaKept'
<1>1. /\ UNCHANGED <<job, rows, fetched, followed, uploaded, contested,
                     uploads, messages, changes, faults>>
  BY DEF Evict, ReadBatch, DeleteFile, DeleteContentAccess, access, history, bounds
<1>2. /\ cas' \subseteq cas /\ cas \subseteq cas' \cup contested
      /\ pinned' \subseteq pinned /\ pinned \subseteq pinned' \cup contested
      /\ tracked' \subseteq tracked /\ tracked' \subseteq pinned' \cup contested
      /\ victims' \subseteq contested /\ victims' \subseteq Cids
      /\ doomed' \in contested \cup {NoCid} /\ doomed' \in Cids
  <2>0. /\ tracked \subseteq pinned \cup contested /\ victims \subseteq contested
        /\ doomed \in contested \cup {NoCid}
        /\ tracked \subseteq Cids /\ victims \subseteq Cids /\ doomed \in Cids
    BY DEF MediaKept, MediaInv, PinsSound, TableTypes
  <2>1. CASE ReadBatch
    BY <2>0, <2>1 DEF ReadBatch, access
  <2>2. ASSUME NEW c \in victims, DeleteFile(c)
        PROVE  /\ UNCHANGED <<tracked, pinned, victims>> /\ cas' = cas \ {c} /\ doomed' = c
    BY <2>2 DEF DeleteFile, access
  <2>3. CASE \E c \in victims : DeleteFile(c)
    BY <2>0, <2>2, <2>3
  <2>4. CASE DeleteContentAccess
    BY <2>0, <2>4, CidTypes DEF DeleteContentAccess
  <2> QED BY <2>1, <2>3, <2>4 DEF Evict
<1>3. Grown
  BY <1>1, <1>2 DEF Grown
<1>4. JobTypes' /\ JobsSound'
  <2>1. ASSUME NEW g \in Goroutine
        PROVE  JobSound(job[g], DOMAIN rows', contested', cas', pinned')
    BY <1>3, JobIs, JobGrows DEF Grown
  <2> QED BY <1>1, <2>1 DEF JobsSound, MediaKept, JobTypes
<1>5. TableTypes'
  BY <1>1, <1>2 DEF MediaKept, TableTypes
<1>6. PinsSound' /\ UploadsSound' /\ RowsSound'
  BY <1>1, <1>2, <1>3, UploadsGrow DEF MediaKept, MediaInv, PinsSound, RowsSound
<1> QED BY <1>4, <1>5, <1>6 DEF MediaKept, MediaInv

\* A restart pins again and unpins nothing.
LEMMA RestartKept ==
    ASSUME MediaKept, CrashAndRestart
    PROVE  MediaKept'
<1> DEFINE pins == UNION {MediaBy(a) \cup ThumbnailsBy(a) :
                             a \in {b \in {Own, Other} : ShouldPinAuthor(b)}}
<1>1. /\ UNCHANGED <<cas, rows, fetched, followed, uploaded, contested,
                     uploads, messages, changes>>
      /\ job' = [g \in Goroutine |-> IdleJob] /\ victims' = {} /\ doomed' = NoCid
      /\ tracked' = tracked \cup pins /\ pinned' = pinned \cup pins
      /\ faults' \in Nat
  BY DEF CrashAndRestart, SetPinned, MediaKept, TableTypes
<1>2. pins \subseteq Cids
  <2>1. \A m \in DOMAIN rows : m \in Cids /\ rows[m].thumb \in Cids
    BY CidTypes DEF MediaKept, TableTypes
  <2> QED BY <2>1 DEF MediaBy, ThumbnailsBy
<1> HIDE DEF pins
<1>3. Grown
  BY <1>1 DEF Grown
<1>4. JobTypes' /\ JobsSound'
  BY <1>1, IdleJobSound DEF JobTypes, JobsSound
<1>5. TableTypes'
  BY <1>1, <1>2, CidTypes DEF MediaKept, TableTypes
<1>6. PinsSound' /\ UploadsSound' /\ RowsSound'
  BY <1>1, <1>3, UploadsGrow DEF MediaKept, MediaInv, PinsSound, RowsSound
<1> QED BY <1>4, <1>5, <1>6 DEF MediaKept, MediaInv

LEMMA MediaStepKept == MediaKept /\ [MediaNext]_mediaVars => MediaKept'
<1> SUFFICES ASSUME MediaKept, [MediaNext]_mediaVars PROVE MediaKept'
  OBVIOUS
<1>1. ASSUME NEW g \in Goroutine, Upload(g) PROVE MediaKept'
  BY <1>1, BeginsKept, StagingKept, StoringKept, InsertKept, FetchedKept, PolicyKept, TrackKept,
     PublishKept DEF Upload
<1>2. ASSUME NEW g \in Goroutine, Follow(g) PROVE MediaKept'
  BY <1>2, BeginsKept, FollowKept DEF Follow
<1>3. ASSUME NEW g \in Goroutine, Fail(g) PROVE MediaKept'
  <2>1. /\ job' = [job EXCEPT ![g] = IdleJob]
        /\ UNCHANGED <<cas, rows, fetched, access, followed, eviction, uploaded, contested>>
        /\ uploads' \in Nat /\ messages' \in Nat /\ changes' \in Nat /\ faults' \in Nat
    BY <1>3 DEF Fail, FinishJob, history, MediaKept, TableTypes
  <2> QED BY <2>1, JobEnds
<1>4. CASE UNCHANGED mediaVars
  <2>1. UNCHANGED <<job, cas, rows, fetched, tracked, pinned, followed, victims, doomed, uploaded,
                    contested, uploads, messages, changes, faults>>
    BY <1>4 DEF mediaVars, access, eviction, history, bounds
  <2>2. JobTypes' /\ TableTypes'
    BY <2>1 DEF MediaKept, JobTypes, TableTypes
  <2>3. JobsSound' /\ RowsSound' /\ PinsSound' /\ UploadsSound'
    BY <2>1 DEF MediaKept, MediaInv, JobsSound, RowsSound, PinsSound, UploadsSound
  <2> QED BY <2>2, <2>3 DEF MediaKept, MediaInv
<1> QED BY <1>1, <1>2, <1>3, <1>4, ReadKept, MessageKept, EvictKept, RestartKept DEF MediaNext

LEMMA MediaInitKept == MediaInit => MediaKept
<1> SUFFICES ASSUME MediaInit PROVE MediaKept
  OBVIOUS
<1>1. JobTypes /\ JobsSound
  BY IdleJobSound DEF MediaInit, JobTypes, JobsSound
<1>2. DOMAIN rows = {}
  BY DEF MediaInit
<1>3. TableTypes
  <2>1. rows \in [DOMAIN rows -> [author : {Own, Other}, thumb : Cids]]
    BY <1>2 DEF MediaInit
  <2> QED BY <1>2, <2>1, CidTypes DEF MediaInit, TableTypes
<1>4. RowsSound /\ PinsSound /\ UploadsSound
  BY <1>2 DEF MediaInit, RowsSound, PinsSound, UploadsSound
<1> QED BY <1>1, <1>3, <1>4 DEF MediaKept, MediaInv

\* An upload that was answered with 201 stays in the store and pinned unless
\* another author sent one of its CIDs or somebody read one before it was pinned
\* (UploadMedia, TrackContentForMedia, openContent, checkAndEvict): for any
\* contents and chunk size and any number of uploads, reads, messages, follows,
\* failures and restarts.
THEOREM OwnUploadsKeptTheorem == MediaSpec => []OwnUploadsKept
<1>1. MediaKept => OwnUploadsKept
  <2> SUFFICES ASSUME UploadsSound PROVE OwnUploadsKept
    BY DEF MediaKept, MediaInv
  <2> QED BY DEF UploadsSound, OwnUploadsKept
<1> QED BY <1>1, MediaInitKept, MediaStepKept, PTL DEF MediaSpec

-----------------------------------------------------------------------------
(* Staged files.                                                           *)

Uploading == {g \in Goroutine : job[g].upload}

StagedInv == temps \in Nat /\ leftBehind \in Nat /\ StagedFilesOwned

LEMMA UploadingCount ==
    /\ IsFiniteSet(Uploading) /\ Cardinality(Uploading) \in Nat
    /\ \A g \in Uploading : Cardinality(Uploading \ {g}) = Cardinality(Uploading) - 1
    /\ \A g : g \notin Uploading => Cardinality(Uploading \cup {g}) = Cardinality(Uploading) + 1
<1>1. IsFiniteSet(Uploading)
  BY MediaAssumption, FS_Subset DEF Uploading
<1>2. Cardinality(Uploading) \in Nat
  BY <1>1, FS_CardinalityType
<1>3. \A g \in Uploading : Cardinality(Uploading \ {g}) = Cardinality(Uploading) - 1
  BY <1>1, FS_RemoveElement
<1>4. \A g : g \notin Uploading => Cardinality(Uploading \cup {g}) = Cardinality(Uploading) + 1
  BY <1>1, FS_AddElement
<1> QED BY <1>1, <1>2, <1>3, <1>4

\* A job stages a file, or ends and removes it or leaves it behind, or neither.
LEMMA StagedMoves ==
    ASSUME StagedInv, JobTypes, NEW g \in Goroutine, NEW x,
           job' = [job EXCEPT ![g] = x], x.upload \in BOOLEAN,
           \/ x.upload = job[g].upload /\ UNCHANGED <<temps, leftBehind>>
           \/ ~job[g].upload /\ x.upload /\ temps' = temps + 1 /\ UNCHANGED leftBehind
           \/ /\ ~x.upload /\ UNCHANGED leftBehind
              /\ temps' = IF job[g].upload THEN temps - 1 ELSE temps
           \/ /\ ~x.upload /\ UNCHANGED temps
              /\ leftBehind' = leftBehind + (IF job[g].upload THEN 1 ELSE 0)
    PROVE  StagedInv'
<1> DEFINE U == Uploading
           n == Cardinality(U)
<1>0. job[g].upload \in BOOLEAN /\ temps = leftBehind + n /\ temps \in Nat /\ leftBehind \in Nat
      /\ (job[g].upload <=> g \in U)
  BY DEF JobTypes, Jobs, StagedInv, StagedFilesOwned, Uploading
<1>1. \A h \in Goroutine : job'[h] = IF h = g THEN x ELSE job[h]
  BY DEF JobTypes
<1>2. Uploading' = IF x.upload THEN U \cup {g} ELSE U \ {g}
  BY <1>1 DEF Uploading
<1>3. /\ x.upload = job[g].upload => Uploading' = U
      /\ ~job[g].upload => U \ {g} = U
  BY <1>0, <1>2
<1>4. n \in Nat /\ (g \in U => Cardinality(U \ {g}) = n - 1)
      /\ (g \notin U => Cardinality(U \cup {g}) = n + 1)
  BY UploadingCount
<1>8. g \in U => n > 0
  <2>1. Cardinality(U \ {g}) \in Nat
    BY UploadingCount, FS_Subset, FS_CardinalityType
  <2> QED BY <1>4, <2>1
<1> HIDE DEF n, U
<1>5. CASE x.upload = job[g].upload /\ UNCHANGED <<temps, leftBehind>>
  <2>1. temps' \in Nat /\ leftBehind' \in Nat /\ temps' = leftBehind' + Cardinality(Uploading')
    BY <1>0, <1>3, <1>5 DEF n, U
  <2> QED BY <2>1 DEF StagedInv, StagedFilesOwned, Uploading
<1>6. CASE ~job[g].upload /\ x.upload /\ temps' = temps + 1 /\ UNCHANGED leftBehind
  <2>1. Cardinality(Uploading') = n + 1
    BY <1>0, <1>2, <1>4, <1>6
  <2>2. temps' \in Nat /\ leftBehind' \in Nat /\ temps' = leftBehind' + Cardinality(Uploading')
    BY <1>0, <1>4, <1>6, <2>1
  <2> QED BY <2>2 DEF StagedInv, StagedFilesOwned, Uploading
<1>7. CASE /\ ~x.upload
           /\ \/ /\ UNCHANGED leftBehind
                 /\ temps' = IF job[g].upload THEN temps - 1 ELSE temps
              \/ /\ UNCHANGED temps
                 /\ leftBehind' = leftBehind + (IF job[g].upload THEN 1 ELSE 0)
  <2>1. Cardinality(Uploading') = IF job[g].upload THEN n - 1 ELSE n
    BY <1>0, <1>2, <1>3, <1>4, <1>7 DEF n
  <2>2. temps' \in Nat /\ leftBehind' \in Nat /\ temps' = leftBehind' + Cardinality(Uploading')
    <3>1. CASE job[g].upload
      BY <1>0, <1>4, <1>7, <1>8, <2>1, <3>1
    <3>2. CASE ~job[g].upload
      BY <1>0, <1>4, <1>7, <2>1, <3>2
    <3> QED BY <3>1, <3>2
  <2> QED BY <2>2 DEF StagedInv, StagedFilesOwned, Uploading
<1> QED BY <1>5, <1>6, <1>7

LEMMA StagedStep ==
    MediaKept /\ StagedInv /\ [MediaNext]_mediaVars => StagedInv'
<1> SUFFICES ASSUME MediaKept, StagedInv, [MediaNext]_mediaVars PROVE StagedInv'
  OBVIOUS
<1>0. JobTypes /\ ~IdleJob.upload /\ (IdleJob.upload) \in BOOLEAN
  BY IdleJobSound DEF MediaKept, Jobs
<1>1. ASSUME NEW g \in Goroutine, NEW x, job' = [job EXCEPT ![g] = x],
             x.upload = job[g].upload, UNCHANGED <<temps, leftBehind>>
      PROVE  StagedInv'
  <2>1. x.upload \in BOOLEAN
    BY <1>0, <1>1 DEF JobTypes, Jobs
  <2> QED BY <1>0, <1>1, <2>1, StagedMoves
<1>2. ASSUME NEW g \in Goroutine, FinishJob(g), UNCHANGED leftBehind PROVE StagedInv'
  BY <1>0, <1>2, StagedMoves DEF FinishJob
<1>3. ASSUME NEW g \in Goroutine, NEW x, job' = [job EXCEPT ![g] = x], job[g].at = "idle",
             ~x.upload, x.upload \in BOOLEAN, UNCHANGED <<temps, leftBehind>>
      PROVE  StagedInv'
  <2>1. job[g].upload = FALSE
    BY <1>3, JobIs DEF JobSound, Jobs
  <2> QED BY <1>1, <1>3, <2>1
<1>4. ASSUME UNCHANGED <<job, temps, leftBehind>> PROVE StagedInv'
  BY <1>4 DEF StagedInv, StagedFilesOwned
<1>5. ASSUME NEW g \in Goroutine, Upload(g) PROVE StagedInv'
  <2> DEFINE j == job[g]
  <2>0. j \in Jobs
    BY JobIs
  <2>1. CASE UploadMedia(g)
    <3> DEFINE x == [IdleJob EXCEPT !.at = "part"]
    <3>1. j.at = "idle" /\ job' = [job EXCEPT ![g] = x] /\ UNCHANGED <<temps, leftBehind>>
      BY <2>1 DEF UploadMedia, StartJob, JobAt, history
    <3>2. x.upload = FALSE
      BY DEF IdleJob
    <3> HIDE DEF x
    <3> QED BY <1>3, <3>1, <3>2
  <2>2. CASE StagePart(g)
    <3>1. PICK f \in File \cup {NoCid} : job' = [job EXCEPT ![g].upload = TRUE, ![g].file = f]
      BY <2>2 DEF StagePart
    <3> DEFINE x == [j EXCEPT !.upload = TRUE, !.file = f]
    <3>2. job' = [job EXCEPT ![g] = x] /\ x.upload = TRUE
      BY <2>0, <3>1 DEF Jobs
    <3> HIDE DEF x
    <3>3. ~j.upload /\ temps' = temps + 1 /\ UNCHANGED leftBehind
      BY <2>2 DEF StagePart, history
    <3> QED BY <1>0, <3>2, <3>3, StagedMoves
  <2>3. CASE RefuseBody(g)
    BY <1>0, <2>3, StagedMoves DEF RefuseBody
  <2>4. CASE RefuseFile(g)
    BY <1>2, <2>4 DEF RefuseFile, history
  <2>5. CASE Publish(g)
    BY <1>2, <2>5 DEF Publish
  <2>6. ASSUME NEW step, JobGoto(g, step), UNCHANGED <<temps, leftBehind>> PROVE StagedInv'
    <3> DEFINE x == [j EXCEPT !.at = step]
    <3>1. job' = [job EXCEPT ![g] = x] /\ x.upload = j.upload
      BY <2>0, <2>6 DEF JobGoto, Jobs
    <3> HIDE DEF x
    <3> QED BY <1>1, <2>6, <3>1
  <2>7. CASE AcceptFile(g) \/ StoreFile(g) \/ InsertOwn(g)
    BY <2>6, <2>7 DEF AcceptFile, StoreFile, InsertOwn, history
  <2>8. CASE StoreChunk(g)
    <3>0. UNCHANGED <<temps, leftBehind>>
      BY <2>8 DEF StoreChunk, history
    <3>1. PICK cs, step : job' = [job EXCEPT ![g].chunks = cs, ![g].at = step]
      BY <2>8 DEF StoreChunk
    <3> DEFINE x == [j EXCEPT !.chunks = cs, !.at = step]
    <3>2. job' = [job EXCEPT ![g] = x] /\ x.upload = j.upload
      BY <2>0, <3>1 DEF Jobs
    <3> HIDE DEF x
    <3> QED BY <1>1, <3>0, <3>2
  <2>9. CASE StoreThumbnail(g)
    <3>0. UNCHANGED <<temps, leftBehind>>
      BY <2>9 DEF StoreThumbnail, history
    <3>1. CASE JobGoto(g, "insert")
      BY <2>6, <3>0, <3>1
    <3>2. ASSUME NEW t, job' = [job EXCEPT ![g].thumb = t, ![g].at = "insert"] PROVE StagedInv'
      <4> DEFINE x == [j EXCEPT !.thumb = t, !.at = "insert"]
      <4>2. job' = [job EXCEPT ![g] = x] /\ x.upload = j.upload
        BY <2>0, <3>2 DEF Jobs
      <4> HIDE DEF x
      <4> QED BY <1>1, <3>0, <4>2
    <3> QED BY <2>9, <3>1, <3>2 DEF StoreThumbnail
  <2>10. CASE SetMediaFetched(g)
    <3>0. UNCHANGED <<temps, leftBehind>>
      BY <2>10 DEF SetMediaFetched, history
    <3>1. PICK todo : job' = [job EXCEPT ![g].at = "policy", ![g].todo = todo]
      BY <2>10 DEF SetMediaFetched
    <3> DEFINE x == [j EXCEPT !.at = "policy", !.todo = todo]
    <3>2. job' = [job EXCEPT ![g] = x] /\ x.upload = j.upload
      BY <2>0, <3>1 DEF Jobs
    <3> HIDE DEF x
    <3> QED BY <1>1, <3>0, <3>2
  <2>11. CASE ReadPolicy(g)
    <3>0. UNCHANGED <<temps, leftBehind>>
      BY <2>11 DEF ReadPolicy, history
    <3>1. PICK pin : job' = [job EXCEPT ![g].pin = pin, ![g].at = "track"]
      BY <2>11 DEF ReadPolicy
    <3> DEFINE x == [j EXCEPT !.pin = pin, !.at = "track"]
    <3>2. job' = [job EXCEPT ![g] = x] /\ x.upload = j.upload
      BY <2>0, <3>1 DEF Jobs
    <3> HIDE DEF x
    <3> QED BY <1>1, <3>0, <3>2
  <2>12. CASE Track(g)
    <3>0. UNCHANGED leftBehind
      BY <2>12 DEF Track, history
    <3>1. \/ FinishJob(g)
          \/ /\ UNCHANGED temps
             /\ \E rest, step : job' = [job EXCEPT ![g].todo = rest, ![g].at = step]
      BY <2>12 DEF Track
    <3>2. ASSUME NEW rest, NEW step, job' = [job EXCEPT ![g].todo = rest, ![g].at = step],
                 UNCHANGED temps
          PROVE  StagedInv'
      <4> DEFINE x == [j EXCEPT !.todo = rest, !.at = step]
      <4>1. job' = [job EXCEPT ![g] = x] /\ x.upload = j.upload
        BY <2>0, <3>2 DEF Jobs
      <4> HIDE DEF x
      <4> QED BY <1>1, <3>0, <3>2, <4>1
    <3> QED BY <1>2, <3>0, <3>1, <3>2
  <2> QED BY <1>5, <2>1, <2>2, <2>3, <2>4, <2>5, <2>7, <2>8, <2>9, <2>10, <2>11, <2>12 DEF Upload
<1>6. ASSUME NEW g \in Goroutine, Follow(g) PROVE StagedInv'
  <2> DEFINE j == job[g]
  <2>0. j \in Jobs
    BY JobIs
  <2>1. ASSUME NEW add \in BOOLEAN, ChangeFollow(g, add) PROVE StagedInv'
    <3> DEFINE x == [IdleJob EXCEPT !.at = "recompute"]
    <3>1. j.at = "idle" /\ job' = [job EXCEPT ![g] = x] /\ UNCHANGED <<temps, leftBehind>>
      BY <2>1 DEF ChangeFollow, StartJob, JobAt, history
    <3>2. x.upload = FALSE
      BY DEF IdleJob
    <3> HIDE DEF x
    <3> QED BY <1>3, <3>1, <3>2
  <2>2. CASE RecomputePin(g)
    <3> DEFINE x == [j EXCEPT !.pin = ShouldPinAuthor(Other), !.at = "pinmedia"]
    <3>1. job' = [job EXCEPT ![g] = x] /\ x.upload = j.upload
      BY <2>0, <2>2 DEF RecomputePin, Jobs
    <3> HIDE DEF x
    <3> QED BY <1>1, <2>2, <3>1 DEF RecomputePin, history
  <2>3. CASE PinMedia(g)
    <3> DEFINE x == [j EXCEPT !.at = "pinthumbs"]
    <3>1. job' = [job EXCEPT ![g] = x] /\ x.upload = j.upload
      BY <2>0, <2>3 DEF PinMedia, JobGoto, Jobs
    <3> HIDE DEF x
    <3> QED BY <1>1, <2>3, <3>1 DEF PinMedia, history
  <2>4. CASE PinThumbnails(g)
    BY <1>2, <2>4 DEF PinThumbnails, history
  <2> QED BY <1>6, <2>1, <2>2, <2>3, <2>4 DEF Follow
<1>7. ASSUME NEW g \in Goroutine, Fail(g) PROVE StagedInv'
  BY <1>2, <1>7 DEF Fail, history
<1>8. CASE Message
  <2>1. ASSUME NEW f \in Foreign, NEW thumb, HandleMediaObject(f, thumb) PROVE StagedInv'
    BY <1>4, <2>1 DEF HandleMediaObject
  <2>2. ASSUME NEW g \in Goroutine, NEW c \in Foreign, NEW parent \in File,
               HandleMediaChunk(g, c, parent)
        PROVE  StagedInv'
    <3> DEFINE x == [IdleJob EXCEPT !.at = "put", !.file = parent, !.todo = <<c>>]
    <3>1. /\ job[g].at = "idle" /\ job' = [job EXCEPT ![g] = x]
          /\ UNCHANGED <<temps, leftBehind>>
      BY <2>2 DEF HandleMediaChunk, StartJob, JobAt
    <3>2. x.upload = FALSE
      BY DEF IdleJob
    <3> HIDE DEF x
    <3> QED BY <1>3, <3>1, <3>2
  <2>3. ASSUME NEW g \in Goroutine, PutChunk(g) PROVE StagedInv'
    <3> DEFINE x == [job[g] EXCEPT !.at = "policy"]
    <3>1. job' = [job EXCEPT ![g] = x] /\ x.upload = job[g].upload
      BY <2>3, JobIs DEF PutChunk, JobGoto, Jobs
    <3> HIDE DEF x
    <3> QED BY <1>1, <2>3, <3>1 DEF PutChunk, history
  <2> QED BY <1>8, <2>1, <2>2, <2>3 DEF Message
<1>9. CASE Evict
  BY <1>4, <1>9 DEF Evict, ReadBatch, DeleteFile, DeleteContentAccess, history
<1>10. CASE CrashAndRestart
  <2>1. /\ temps' = temps /\ leftBehind' = leftBehind + Cardinality(Uploading)
        /\ job' = [g \in Goroutine |-> IdleJob]
    BY <1>10 DEF CrashAndRestart, Uploading
  <2>2. Uploading' = {} /\ Cardinality({}) = 0
    BY <1>0, <2>1, FS_EmptySet DEF Uploading
  <2>3. leftBehind' \in Nat /\ temps' \in Nat /\ temps' = leftBehind' + Cardinality(Uploading')
    <3>1. temps = leftBehind + Cardinality(Uploading) /\ temps \in Nat /\ leftBehind \in Nat
      BY DEF StagedInv, StagedFilesOwned, Uploading
    <3>2. Cardinality(Uploading) \in Nat
      BY UploadingCount
    <3> QED BY <2>1, <2>2, <3>1, <3>2
  <2> QED BY <2>3 DEF StagedInv, StagedFilesOwned, Uploading
<1>11. CASE UNCHANGED mediaVars
  BY <1>4, <1>11 DEF mediaVars, history
<1>12. ASSUME NEW g \in Goroutine, Read(g) PROVE StagedInv'
  <2> DEFINE j == job[g]
  <2>0. j \in Jobs
    BY JobIs
  <2>1. ASSUME NEW c, NEW target, NEW found, StartRead(g, c, target, found) PROVE StagedInv'
    <3> DEFINE x == [IdleJob EXCEPT !.at = "open", !.file = c, !.todo = <<target>>, !.row = found]
    <3>1. j.at = "idle" /\ job' = [job EXCEPT ![g] = x] /\ UNCHANGED <<temps, leftBehind>>
      BY <2>1 DEF StartRead, StartJob, JobAt, history
    <3>2. x.upload = FALSE
      BY DEF IdleJob
    <3> HIDE DEF x
    <3> QED BY <1>3, <3>1, <3>2
  <2>2. ASSUME NEW step, JobGoto(g, step), UNCHANGED <<temps, leftBehind>> PROVE StagedInv'
    <3> DEFINE x == [j EXCEPT !.at = step]
    <3>1. job' = [job EXCEPT ![g] = x] /\ x.upload = j.upload
      BY <2>0, <2>2 DEF JobGoto, Jobs
    <3> HIDE DEF x
    <3> QED BY <1>1, <2>2, <3>1
  <2>3. CASE OpenStored(g) \/ OpenFetched(g)
    BY <2>2, <2>3 DEF OpenStored, OpenFetched, history
  <2>4. CASE TrackAccess(g)
    BY <1>2, <2>2, <2>4 DEF TrackAccess
  <2>5. CASE OpenFails(g)
    <3>1. CASE FinishJob(g)
      BY <1>2, <2>5, <3>1 DEF OpenFails, history
    <3>2. ASSUME job' = [job EXCEPT ![g].todo = <<j.file>>, ![g].row = FALSE], UNCHANGED temps
          PROVE  StagedInv'
      <4> DEFINE x == [j EXCEPT !.todo = <<j.file>>, !.row = FALSE]
      <4>1. job' = [job EXCEPT ![g] = x] /\ x.upload = j.upload
        BY <2>0, <3>2 DEF Jobs
      <4> HIDE DEF x
      <4>2. UNCHANGED leftBehind
        BY <2>5 DEF OpenFails, history
      <4> QED BY <1>1, <3>2, <4>1, <4>2
    <3> QED BY <2>5, <3>1, <3>2 DEF OpenFails
  <2> QED BY <1>12, <2>1, <2>3, <2>4, <2>5 DEF Read, GetMedia, GetMediaThumbnail
<1> QED BY <1>5, <1>6, <1>7, <1>8, <1>9, <1>10, <1>11, <1>12 DEF MediaNext

LEMMA StagedAlways == MediaSpec => [](MediaKept /\ StagedInv)
<1>1. MediaInit => StagedInv
  <2> SUFFICES ASSUME MediaInit PROVE StagedInv
    OBVIOUS
  <2>1. Uploading = {} /\ Cardinality({}) = 0
    BY IdleJobSound, FS_EmptySet DEF MediaInit, Uploading
  <2>2. temps \in Nat /\ leftBehind \in Nat /\ temps = leftBehind + Cardinality(Uploading)
    BY <2>1 DEF MediaInit
  <2> QED BY <2>2 DEF StagedInv, StagedFilesOwned, Uploading
<1> QED BY <1>1, MediaInitKept, MediaStepKept, StagedStep, PTL DEF MediaSpec

\* Every staged file has an upload that will remove it, but for the ones a
\* crash or a body refused after its file part leaves behind (stageUploadedFile
\* and the deferred os.Remove of UploadMedia), for any number of uploads.
THEOREM StagedFilesOwnedTheorem == MediaSpec => []StagedFilesOwned
<1>1. StagedInv => StagedFilesOwned
  BY DEF StagedInv
<1> QED BY <1>1, StagedAlways, PTL

-----------------------------------------------------------------------------
(* Chunks.                                                                 *)

\* A non-empty set of natural numbers has a least element.
LEMMA LeastNumber ==
    ASSUME NEW T, T \subseteq Nat, T # {}
    PROVE  \E x \in T : \A y \in T : x <= y
<1>1. \E x \in T : \A y \in T : ~ (<<y, x>> \in OpToRel(<, Nat))
  BY NatLessThanWellFounded, WFMin, Zenon
<1>2. \A x, y \in Nat : y < x => <<y, x>> \in OpToRel(<, Nat)
  BY Zenon DEF OpToRel
<1>3. \E x \in T : \A y \in T : ~ (y < x)
  BY <1>1, <1>2, Zenon
<1> QED BY <1>3, SMT

\* The loop of AssembleChunks computes whatever satisfies its recursion.
LEMMA AppendedIs ==
    ASSUME NEW chunks, Len(chunks) \in Nat, NEW G,
           G = [n \in 0..Len(chunks) |->
                   IF n = 0 THEN <<>> ELSE G[n - 1] \o ChunkAt(chunks, n - 1).cid]
    PROVE  Appended(chunks) = G
<1> DEFINE N == Len(chunks)
           A == Appended(chunks)
           X(n) == ChunkAt(chunks, n - 1).cid
<1> HIDE DEF X
<1>1. A = [n \in 0..N |-> IF n = 0 THEN <<>> ELSE A[n - 1] \o X(n)]
  BY Zenon DEF Appended, X
<1>2. G = [n \in 0..N |-> IF n = 0 THEN <<>> ELSE G[n - 1] \o X(n)]
  BY Zenon DEF X
<1> HIDE DEF A
<1>3. \A n \in 0..N : A[n] = G[n]
  <2> DEFINE T == {n \in 0..N : A[n] # G[n]}
  <2>1. SUFFICES ASSUME T # {} PROVE FALSE
    OBVIOUS
  <2>2. T \subseteq Nat
    OBVIOUS
  <2>3. PICK x \in T : \A y \in T : x <= y
    BY <2>1, <2>2, LeastNumber, Zenon
  <2>4. x \in 0..N /\ A[x] # G[x]
    OBVIOUS
  <2>5. CASE x = 0
    <3>1. 0 \in 0..N
      OBVIOUS
    <3>2. A[0] = <<>> /\ G[0] = <<>>
      BY <3>1, <1>1, <1>2, Zenon
    <3> QED BY <3>2, <2>4, <2>5
  <2>6. CASE x # 0
    <3>1. x - 1 \in 0..N /\ ~(x <= x - 1)
      BY <2>4, <2>6
    <3>2. A[x - 1] = G[x - 1]
      BY <3>1, <2>3
    <3>3. A[x] = A[x - 1] \o X(x) /\ G[x] = G[x - 1] \o X(x)
      BY <2>4, <2>6, <1>1, <1>2, Zenon
    <3> QED BY <3>2, <3>3, <2>4, Zenon
  <2> QED BY <2>5, <2>6
<1>4. A = [n \in 0..N |-> A[n]] /\ G = [n \in 0..N |-> G[n]]
  BY <1>1, <1>2, Zenon
<1> QED BY <1>3, <1>4, Zenon DEF A

\* The chunks are the first reads of the file, numbered from 0 ...
Reads(f, chunks) ==
    \A i \in DOMAIN chunks : chunks[i] = [cid |-> ReadFull(f, i - 1), index |-> i - 1]

\* ... each started before the file's end, and the last one has reached it.
ReadsAll(f, chunks) ==
    /\ chunks # <<>>
    /\ (Len(chunks) - 1) * ChunkSize < Len(f) /\ Len(f) <= Len(chunks) * ChunkSize

\* The first n chunks' worth of a file.
Upto(f, n) == SubSeq(f, 1, IF n * ChunkSize > Len(f) THEN Len(f) ELSE n * ChunkSize)

\* One more read extends what was read so far.
LEMMA ReadExtends ==
    ASSUME NEW f \in File, NEW k \in Nat, k * ChunkSize < Len(f)
    PROVE  Upto(f, k + 1) = Upto(f, k) \o ReadFull(f, k)
<1>0. ChunkSize \in Nat \ {0} /\ f \in Seq(Block) /\ Len(f) \in Nat
  BY MediaAssumption
<1>1. k * ChunkSize \in Nat /\ (k + 1) * ChunkSize = k * ChunkSize + ChunkSize
  BY <1>0
<1> DEFINE from == k * ChunkSize
           end == (k + 1) * ChunkSize
           to == IF end > Len(f) THEN Len(f) ELSE end
<1>2. from \in Nat /\ to \in Nat /\ from < to /\ to <= Len(f)
  BY <1>0, <1>1
<1>3. Upto(f, k) = SubSeq(f, 1, from)
  BY <1>0, <1>1, <1>2 DEF Upto
<1>4. Upto(f, k + 1) = SubSeq(f, 1, to)
  BY DEF Upto
<1>5. ReadFull(f, k) = SubSeq(f, from + 1, to)
  BY DEF ReadFull
<1> HIDE DEF from, end, to
<1>6. SubSeq(f, 1, to) = SubSeq(f, 1, from) \o SubSeq(f, from + 1, to)
  BY <1>0, <1>2
<1> QED BY <1>3, <1>4, <1>5, <1>6

\* A file's chunks in any order are the file again.
LEMMA ChunksAssemble ==
    ASSUME NEW f \in File, NEW chunks \in Chunks, Reads(f, chunks), ReadsAll(f, chunks),
           NEW order \in Bijection(DOMAIN chunks, DOMAIN chunks)
    PROVE  AssembleChunks([i \in DOMAIN chunks |-> chunks[order[i]]]) = f
<1> DEFINE N == Len(chunks)
           s == [i \in DOMAIN chunks |-> chunks[order[i]]]
<1>0. ChunkSize \in Nat \ {0} /\ f \in Seq(Block) /\ Len(f) \in Nat \ {0}
  BY MediaAssumption
<1>1. N \in Nat \ {0} /\ DOMAIN chunks = 1..N
  BY DEF Chunks, ReadsAll
<1>2. /\ \A i \in 1..N : order[i] \in 1..N
      /\ \A t \in 1..N : \E i \in 1..N : order[i] = t
  BY <1>1 DEF Bijection, Surjection, Injection
<1>3. Len(s) = N /\ DOMAIN s = 1..N /\ s # <<>>
  BY <1>1
<1>4. \A i \in 0..N - 1 : chunks[i + 1] \in Range(s) /\ chunks[i + 1].index = i
  <2> SUFFICES ASSUME NEW i \in 0..N - 1
               PROVE  chunks[i + 1] \in Range(s) /\ chunks[i + 1].index = i
    OBVIOUS
  <2>1. i + 1 \in 1..N
    BY <1>1
  <2>2. PICK j \in 1..N : order[j] = i + 1
    BY <2>1, <1>2
  <2>3. s[j] = chunks[i + 1]
    BY <2>2, <1>1
  <2>4. chunks[i + 1].index = i
    BY <2>1, <1>1 DEF Reads
  <2> QED BY <2>3, <2>4, <1>3 DEF Range
<1>5. \A i \in 0..N - 1 : \A c \in Range(s) : c.index = i => c = chunks[i + 1]
  <2> SUFFICES ASSUME NEW i \in 0..N - 1, NEW c \in Range(s), c.index = i
               PROVE  c = chunks[i + 1]
    OBVIOUS
  <2>1. PICK j \in 1..N : c = s[j]
    BY <1>3 DEF Range
  <2>2. c = chunks[order[j]] /\ order[j] \in 1..N
    BY <2>1, <1>1, <1>2
  <2>3. c.index = order[j] - 1
    BY <2>2, <1>1 DEF Reads
  <2> QED BY <2>2, <2>3
<1>6. \A i \in 0..N - 1 : ChunkAt(s, i) = chunks[i + 1]
  <2> SUFFICES ASSUME NEW i \in 0..N - 1 PROVE ChunkAt(s, i) = chunks[i + 1]
    OBVIOUS
  <2> HIDE DEF s
  <2> QED BY <1>4, <1>5, Zenon DEF ChunkAt
<1> DEFINE G == [n \in 0..N |-> Upto(f, n)]
<1>7. \A n \in 1..N : Upto(f, n) = Upto(f, n - 1) \o ChunkAt(s, n - 1).cid
  <2> SUFFICES ASSUME NEW n \in 1..N
               PROVE  Upto(f, n) = Upto(f, n - 1) \o ChunkAt(s, n - 1).cid
    OBVIOUS
  <2>1. n - 1 \in 0..N - 1 /\ n - 1 \in Nat /\ (n - 1) + 1 = n
    BY <1>1
  <2>2. (n - 1) * ChunkSize <= (N - 1) * ChunkSize
    BY <2>1, <1>0, <1>1
  <2>3. (n - 1) * ChunkSize < Len(f)
    BY <2>1, <2>2, <1>0, <1>1 DEF ReadsAll
  <2>4. ChunkAt(s, n - 1).cid = ReadFull(f, n - 1)
    BY <2>1, <1>1, <1>6 DEF Reads
  <2> QED BY <2>1, <2>3, <2>4, ReadExtends
<1>8. Upto(f, 0) = <<>>
  BY <1>0 DEF Upto
<1>9. G = [n \in 0..Len(s) |-> IF n = 0 THEN <<>> ELSE G[n - 1] \o ChunkAt(s, n - 1).cid]
  <2> SUFFICES ASSUME NEW n \in 0..N
               PROVE  Upto(f, n) = IF n = 0 THEN <<>> ELSE G[n - 1] \o ChunkAt(s, n - 1).cid
    BY <1>3, Zenon
  <2>1. CASE n = 0
    BY <2>1, <1>8
  <2>2. CASE n # 0
    <3>1. n \in 1..N /\ n - 1 \in 0..N
      BY <2>2, <1>1
    <3>2. G[n - 1] = Upto(f, n - 1)
      BY <3>1
    <3> QED BY <3>1, <3>2, <2>2, <1>7
  <2> QED BY <2>1, <2>2
<1>10. Appended(s) = G
  <2> HIDE DEF s, G
  <2> QED BY <1>1, <1>3, <1>9, AppendedIs
<1>11. Upto(f, N) = f
  <2>1. N * ChunkSize \in Nat /\ Len(f) <= N * ChunkSize
    BY <1>0, <1>1 DEF ReadsAll
  <2>2. Upto(f, N) = SubSeq(f, 1, Len(f))
    BY <2>1, <1>0 DEF Upto
  <2> QED BY <2>2, <1>0
<1>12. AssembleChunks(s) = Appended(s)[N]
  <2>1. \A i \in 0..N - 1 : \E c \in Range(s) : c.index = i
    BY <1>4
  <2> HIDE DEF s
  <2> QED BY <2>1, <1>3 DEF AssembleChunks
<1> QED BY <1>1, <1>10, <1>11, <1>12

\* What a job has cut off its file, and whether it is done.
CutJob(j) ==
    j.upload => /\ Reads(j.file, j.chunks)
                /\ j.at \in {"part", "chunks"} \/ ReadsAll(j.file, j.chunks)

CutInv ==
    /\ \A g \in Goroutine : CutJob(job[g])
    /\ \A m \in uploaded : Reads(m.file, m.chunks) /\ ReadsAll(m.file, m.chunks)

\* storeMediaChunksFromFile cuts the next chunk off.
LEMMA ChunkCut ==
    ASSUME MediaKept, CutInv, NEW g \in Goroutine, StoreChunk(g)
    PROVE  CutInv'
<1> DEFINE j == job[g]
           k == Len(j.chunks)
           c == [cid |-> ReadFull(j.file, k), index |-> k]
           at == IF (k + 1) * ChunkSize >= Len(j.file) THEN "file" ELSE "chunks"
           x == [j EXCEPT !.chunks = Append(j.chunks, c), !.at = at]
<1>0. /\ j \in Jobs /\ DOMAIN job = Goroutine /\ j.at = "chunks"
      /\ JobSound(j, DOMAIN rows, contested, cas, pinned) /\ CutJob(j)
  BY JobIs DEF StoreChunk, JobAt, CutInv
<1>1. /\ j.upload /\ j.file \in File /\ k * ChunkSize < Len(j.file) /\ Reads(j.file, j.chunks)
  BY <1>0 DEF JobSound, CutJob
<1>2. j.chunks \in Seq([cid : Cids, index : Nat]) /\ k \in Nat /\ DOMAIN j.chunks = 1..k
  BY <1>0 DEF Jobs, Chunks
<1>3. job' = [job EXCEPT ![g] = x] /\ UNCHANGED uploaded
  BY <1>0 DEF StoreChunk, history, Jobs
<1>4. /\ x.upload = j.upload /\ x.file = j.file /\ x.at = at
      /\ x.chunks = Append(j.chunks, c)
  BY <1>0 DEF Jobs
<1>5. /\ Len(x.chunks) = k + 1 /\ DOMAIN x.chunks = 1..k + 1
      /\ \A i \in 1..k : x.chunks[i] = j.chunks[i]
      /\ x.chunks[k + 1] = c
  BY <1>2, <1>4
<1>6. Reads(x.file, x.chunks)
  <2> SUFFICES ASSUME NEW i \in 1..k + 1
               PROVE  x.chunks[i] = [cid |-> ReadFull(j.file, i - 1), index |-> i - 1]
    BY <1>4, <1>5 DEF Reads
  <2>1. CASE i = k + 1
    <3>1. i - 1 = k
      BY <1>2, <2>1
    <3> QED BY <2>1, <3>1, <1>5
  <2>2. CASE i # k + 1
    <3>1. i \in 1..k
      BY <1>2, <2>2
    <3>2. j.chunks[i] = [cid |-> ReadFull(j.file, i - 1), index |-> i - 1]
      BY <3>1, <1>1, <1>2 DEF Reads
    <3> QED BY <3>1, <3>2, <1>5
  <2> QED BY <2>1, <2>2
<1>7. at = "chunks" \/ ReadsAll(x.file, x.chunks)
  <2>0. ChunkSize \in Nat \ {0} /\ Len(j.file) \in Nat
    BY <1>1, MediaAssumption
  <2>1. (k + 1) * ChunkSize \in Nat /\ (k + 1) - 1 = k
    BY <2>0, <1>2
  <2>2. x.chunks # <<>>
    BY <1>2, <1>4
  <2> SUFFICES ASSUME (k + 1) * ChunkSize >= Len(j.file) PROVE ReadsAll(x.file, x.chunks)
    OBVIOUS
  <2>3. (Len(x.chunks) - 1) * ChunkSize < Len(x.file)
    BY <2>1, <1>1, <1>4, <1>5
  <2>4. Len(x.file) <= Len(x.chunks) * ChunkSize
    BY <2>0, <2>1, <1>4, <1>5
  <2> QED BY <2>2, <2>3, <2>4 DEF ReadsAll
<1>8. CutJob(x)
  BY <1>4, <1>6, <1>7 DEF CutJob
<1> HIDE DEF x
<1>9. \A h \in Goroutine : job'[h] = IF h = g THEN x ELSE job[h]
  BY <1>0, <1>3
<1> QED BY <1>3, <1>8, <1>9 DEF CutInv

LEMMA CutStep == MediaKept /\ CutInv /\ [MediaNext]_mediaVars => CutInv'
<1> SUFFICES ASSUME MediaKept, CutInv, [MediaNext]_mediaVars PROVE CutInv'
  OBVIOUS
<1>0. DOMAIN job = Goroutine /\ \A g \in Goroutine : job[g] \in Jobs /\ CutJob(job[g])
  BY DEF MediaKept, JobTypes, CutInv
<1>1. ASSUME NEW g \in Goroutine, NEW x, job' = [job EXCEPT ![g] = x], CutJob(x),
             UNCHANGED uploaded
      PROVE  CutInv'
  <2>1. \A h \in Goroutine : job'[h] = IF h = g THEN x ELSE job[h]
    BY <1>0, <1>1
  <2> QED BY <1>1, <2>1 DEF CutInv
<1>2. ASSUME NEW g \in Goroutine, NEW x, job' = [job EXCEPT ![g] = x], ~x.upload,
             UNCHANGED uploaded
      PROVE  CutInv'
  BY <1>1, <1>2 DEF CutJob
<1>3. ASSUME NEW g \in Goroutine, job' = [job EXCEPT ![g] = IdleJob], UNCHANGED uploaded
      PROVE  CutInv'
  BY <1>2, <1>3, IdleJobSound
<1>4. ASSUME UNCHANGED <<job, uploaded>> PROVE CutInv'
  BY <1>4 DEF CutInv
<1>5. ASSUME NEW g \in Goroutine, NEW x, job' = [job EXCEPT ![g] = x],
             x.upload = job[g].upload, x.file = job[g].file, x.chunks = job[g].chunks,
             x.at = "chunks" \/ job[g].at \notin {"part", "chunks"}, UNCHANGED uploaded
      PROVE  CutInv'
  <2>1. CutJob(x)
    BY <1>0, <1>5 DEF CutJob
  <2> QED BY <1>1, <1>5, <2>1
<1>6. ASSUME NEW g \in Goroutine, NEW step, JobGoto(g, step),
             step = "chunks" \/ job[g].at \notin {"part", "chunks"}, UNCHANGED uploaded
      PROVE  CutInv'
  <2> DEFINE x == [job[g] EXCEPT !.at = step]
  <2>1. /\ job' = [job EXCEPT ![g] = x] /\ x.upload = job[g].upload /\ x.at = step
        /\ x.file = job[g].file /\ x.chunks = job[g].chunks
    BY <1>0, <1>6 DEF JobGoto, Jobs
  <2> HIDE DEF x
  <2> QED BY <1>5, <1>6, <2>1
<1>7. ASSUME NEW g \in Goroutine, Upload(g) PROVE CutInv'
  <2> DEFINE j == job[g]
  <2>0. j \in Jobs /\ JobSound(j, DOMAIN rows, contested, cas, pinned)
    BY JobIs
  <2>1. CASE UploadMedia(g)
    <3> DEFINE x == [IdleJob EXCEPT !.at = "part"]
    <3>1. job' = [job EXCEPT ![g] = x] /\ UNCHANGED uploaded /\ ~x.upload
      BY <2>1 DEF UploadMedia, StartJob, history, IdleJob
    <3> HIDE DEF x
    <3> QED BY <1>2, <3>1
  <2>2. CASE StagePart(g)
    <3>1. PICK f \in File \cup {NoCid} : job' = [job EXCEPT ![g].upload = TRUE, ![g].file = f]
      BY <2>2 DEF StagePart
    <3> DEFINE x == [j EXCEPT !.upload = TRUE, !.file = f]
    <3>2. job' = [job EXCEPT ![g] = x] /\ x.at = "part" /\ x.chunks = <<>> /\ UNCHANGED uploaded
      BY <2>0, <2>2, <3>1 DEF Jobs, StagePart, JobAt, JobSound, history
    <3> HIDE DEF x
    <3>3. CutJob(x)
      BY <3>2 DEF CutJob, Reads
    <3> QED BY <1>1, <3>2, <3>3
  <2>3. CASE RefuseBody(g) \/ RefuseFile(g)
    BY <1>3, <2>3 DEF RefuseBody, RefuseFile, FinishJob, history
  <2>4. CASE AcceptFile(g)
    BY <1>6, <2>4 DEF AcceptFile, history
  <2>5. CASE StoreChunk(g)
    BY <2>5, ChunkCut
  <2>6. CASE StoreFile(g) \/ InsertOwn(g)
    BY <1>6, <2>6 DEF StoreFile, InsertOwn, JobAt, history
  <2>7. CASE StoreThumbnail(g)
    <3>1. j.at = "thumbnail" /\ UNCHANGED uploaded
      BY <2>7 DEF StoreThumbnail, JobAt, history
    <3>2. CASE JobGoto(g, "insert")
      BY <1>6, <3>1, <3>2
    <3>3. CASE job' = [job EXCEPT ![g].thumb = ThumbnailOf(j.file), ![g].at = "insert"]
      <4> DEFINE x == [j EXCEPT !.thumb = ThumbnailOf(j.file), !.at = "insert"]
      <4>1. /\ job' = [job EXCEPT ![g] = x] /\ x.upload = j.upload
            /\ x.file = j.file /\ x.chunks = j.chunks
        BY <1>0, <2>0, <3>3 DEF Jobs
      <4> HIDE DEF x
      <4> QED BY <1>5, <3>1, <4>1
    <3> QED BY <2>7, <3>2, <3>3 DEF StoreThumbnail
  <2>8. CASE SetMediaFetched(g)
    <3>1. PICK t : job' = [job EXCEPT ![g].at = "policy", ![g].todo = t]
      BY <2>8 DEF SetMediaFetched
    <3> DEFINE x == [j EXCEPT !.at = "policy", !.todo = t]
    <3>2. /\ job' = [job EXCEPT ![g] = x] /\ x.upload = j.upload
          /\ x.file = j.file /\ x.chunks = j.chunks
      BY <1>0, <2>0, <3>1 DEF Jobs
    <3> HIDE DEF x
    <3>3. j.at = "fetched" /\ UNCHANGED uploaded
      BY <2>8 DEF SetMediaFetched, JobAt, history
    <3> QED BY <1>5, <3>2, <3>3
  <2>9. CASE ReadPolicy(g)
    <3>1. PICK p : job' = [job EXCEPT ![g].pin = p, ![g].at = "track"]
      BY <2>9 DEF ReadPolicy
    <3> DEFINE x == [j EXCEPT !.pin = p, !.at = "track"]
    <3>2. /\ job' = [job EXCEPT ![g] = x] /\ x.upload = j.upload
          /\ x.file = j.file /\ x.chunks = j.chunks
      BY <1>0, <2>0, <3>1 DEF Jobs
    <3> HIDE DEF x
    <3>3. j.at = "policy" /\ UNCHANGED uploaded
      BY <2>9 DEF ReadPolicy, JobAt, history
    <3> QED BY <1>5, <3>2, <3>3
  <2>10. CASE Track(g)
    <3>1. j.at = "track" /\ UNCHANGED uploaded
      BY <2>10 DEF Track, JobAt, history
    <3>2. CASE FinishJob(g)
      BY <1>3, <3>1, <3>2 DEF FinishJob
    <3>3. ASSUME NEW t, NEW step, job' = [job EXCEPT ![g].todo = t, ![g].at = step]
          PROVE  CutInv'
      <4> DEFINE x == [j EXCEPT !.todo = t, !.at = step]
      <4>1. /\ job' = [job EXCEPT ![g] = x] /\ x.upload = j.upload
            /\ x.file = j.file /\ x.chunks = j.chunks
        BY <1>0, <2>0, <3>3 DEF Jobs
      <4> HIDE DEF x
      <4> QED BY <1>5, <3>1, <4>1
    <3> QED BY <2>10, <3>2, <3>3 DEF Track
  <2>11. CASE Publish(g)
    <3>1. /\ j.at = "publish" /\ job' = [job EXCEPT ![g] = IdleJob]
          /\ uploaded' = uploaded \cup {[file |-> j.file, thumb |-> j.thumb, chunks |-> j.chunks]}
      BY <2>11 DEF Publish, JobAt, FinishJob
    <3>2. Reads(j.file, j.chunks) /\ ReadsAll(j.file, j.chunks)
      BY <3>1, <1>0, <2>0 DEF CutJob, JobSound
    <3>3. \A h \in Goroutine : CutJob(job'[h])
      BY <1>0, <3>1, IdleJobSound DEF CutJob
    <3> QED BY <3>1, <3>2, <3>3 DEF CutInv
  <2> QED BY <1>7, <2>1, <2>2, <2>3, <2>4, <2>5, <2>6, <2>7, <2>8, <2>9, <2>10, <2>11 DEF Upload
<1>8. ASSUME NEW g \in Goroutine, Follow(g) PROVE CutInv'
  <2> DEFINE j == job[g]
  <2>0. j \in Jobs /\ JobSound(j, DOMAIN rows, contested, cas, pinned)
    BY JobIs
  <2>1. ASSUME NEW add \in BOOLEAN, ChangeFollow(g, add) PROVE CutInv'
    <3> DEFINE x == [IdleJob EXCEPT !.at = "recompute"]
    <3>1. job' = [job EXCEPT ![g] = x] /\ UNCHANGED uploaded /\ ~x.upload
      BY <2>1 DEF ChangeFollow, StartJob, history, IdleJob
    <3> HIDE DEF x
    <3> QED BY <1>2, <3>1
  <2>2. CASE RecomputePin(g)
    <3> DEFINE x == [j EXCEPT !.pin = ShouldPinAuthor(Other), !.at = "pinmedia"]
    <3>1. job' = [job EXCEPT ![g] = x] /\ UNCHANGED uploaded /\ ~x.upload
      BY <1>0, <2>0, <2>2 DEF RecomputePin, JobAt, JobSound, Jobs, history
    <3> HIDE DEF x
    <3> QED BY <1>2, <3>1
  <2>3. CASE PinMedia(g)
    BY <1>6, <2>3 DEF PinMedia, JobAt, history
  <2>4. CASE PinThumbnails(g)
    BY <1>3, <2>4 DEF PinThumbnails, FinishJob, history
  <2> QED BY <1>8, <2>1, <2>2, <2>3, <2>4 DEF Follow
<1>9. ASSUME NEW g \in Goroutine, Fail(g) PROVE CutInv'
  BY <1>3, <1>9 DEF Fail, FinishJob, history
<1>10. CASE Message
  <2>1. ASSUME NEW f, NEW thumb, HandleMediaObject(f, thumb) PROVE CutInv'
    BY <1>4, <2>1 DEF HandleMediaObject
  <2>2. ASSUME NEW g \in Goroutine, NEW c, NEW parent, HandleMediaChunk(g, c, parent)
        PROVE  CutInv'
    <3> DEFINE x == [IdleJob EXCEPT !.at = "put", !.file = parent, !.todo = <<c>>]
    <3>1. job' = [job EXCEPT ![g] = x] /\ UNCHANGED uploaded /\ ~x.upload
      BY <2>2 DEF HandleMediaChunk, StartJob, IdleJob
    <3> HIDE DEF x
    <3> QED BY <1>2, <3>1
  <2>3. ASSUME NEW g \in Goroutine, PutChunk(g) PROVE CutInv'
    BY <1>6, <2>3 DEF PutChunk, JobAt, history
  <2> QED BY <1>10, <2>1, <2>2, <2>3 DEF Message
<1>11. CASE Evict
  BY <1>4, <1>11 DEF Evict, ReadBatch, DeleteFile, DeleteContentAccess, history
<1>12. CASE CrashAndRestart
  <2>1. job' = [g \in Goroutine |-> IdleJob] /\ UNCHANGED uploaded
    BY <1>12 DEF CrashAndRestart
  <2> QED BY <2>1, IdleJobSound DEF CutInv, CutJob
<1>13. CASE UNCHANGED mediaVars
  BY <1>4, <1>13 DEF mediaVars, history
<1>14. ASSUME NEW g \in Goroutine, Read(g) PROVE CutInv'
  <2> DEFINE j == job[g]
  <2>0. j \in Jobs /\ JobSound(j, DOMAIN rows, contested, cas, pinned)
    BY JobIs
  <2>1. ASSUME NEW c, NEW target, NEW found, StartRead(g, c, target, found) PROVE CutInv'
    <3> DEFINE x == [IdleJob EXCEPT !.at = "open", !.file = c, !.todo = <<target>>, !.row = found]
    <3>1. job' = [job EXCEPT ![g] = x] /\ UNCHANGED uploaded /\ ~x.upload
      BY <2>1 DEF StartRead, StartJob, history, IdleJob
    <3> HIDE DEF x
    <3> QED BY <1>2, <3>1
  <2>2. CASE OpenStored(g) \/ OpenFetched(g)
    BY <1>6, <2>2 DEF OpenStored, OpenFetched, JobAt, history
  <2>3. CASE TrackAccess(g)
    BY <1>3, <1>6, <2>3 DEF TrackAccess, FinishJob, JobAt
  <2>4. CASE OpenFails(g)
    <3>1. j.at = "open" /\ UNCHANGED uploaded /\ ~j.upload
      BY <2>0, <2>4 DEF OpenFails, JobAt, history, JobSound
    <3>2. CASE FinishJob(g)
      BY <1>3, <3>1, <3>2 DEF FinishJob
    <3>3. ASSUME job' = [job EXCEPT ![g].todo = <<j.file>>, ![g].row = FALSE] PROVE CutInv'
      <4> DEFINE x == [j EXCEPT !.todo = <<j.file>>, !.row = FALSE]
      <4>1. job' = [job EXCEPT ![g] = x] /\ ~x.upload
        BY <2>0, <3>1, <3>3 DEF Jobs
      <4> HIDE DEF x
      <4> QED BY <1>2, <3>1, <4>1
    <3> QED BY <2>4, <3>2, <3>3 DEF OpenFails
  <2> QED BY <1>14, <2>1, <2>2, <2>3, <2>4 DEF Read, GetMedia, GetMediaThumbnail
<1> QED BY <1>7, <1>8, <1>9, <1>10, <1>11, <1>12, <1>13, <1>14 DEF MediaNext

\* The chunks that an upload stored and published are, in any order, its file
\* (storeMediaChunksFromFile, AssembleChunks): for any contents and chunk size,
\* whatever other uploads, failures and restarts interleave with its reads.
THEOREM PublishedChunksAssembleTheorem == MediaSpec => []PublishedChunksAssemble
<1>1. MediaInit => CutInv
  BY IdleJobSound DEF MediaInit, CutInv, CutJob
<1>2. MediaKept /\ CutInv => PublishedChunksAssemble
  <2> SUFFICES ASSUME MediaKept, CutInv, NEW m \in uploaded,
                      NEW order \in Bijection(DOMAIN m.chunks, DOMAIN m.chunks)
               PROVE  AssembleChunks([i \in DOMAIN m.chunks |-> m.chunks[order[i]]]) = m.file
    BY DEF PublishedChunksAssemble
  <2>1. m.file \in File /\ m.chunks \in Chunks
    BY DEF MediaKept, TableTypes
  <2>2. Reads(m.file, m.chunks) /\ ReadsAll(m.file, m.chunks)
    BY DEF CutInv
  <2> QED BY <2>1, <2>2, ChunksAssemble
<1> QED BY <1>1, <1>2, MediaInitKept, MediaStepKept, CutStep, PTL DEF MediaSpec

-----------------------------------------------------------------------------

\* Jobs, store, tables and history keep their types, for any contents.
THEOREM MediaTypes == MediaSpec => []MediaTypeOK
<1>1. MediaKept /\ StagedInv => MediaTypeOK
  BY DEF MediaKept, StagedInv, JobTypes, TableTypes, MediaTypeOK
<1> QED BY <1>1, StagedAlways, PTL
=============================================================================
