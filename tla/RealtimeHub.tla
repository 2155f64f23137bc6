---------------------------- MODULE RealtimeHub -----------------------------
(***************************************************************************)
(* The WebSocket hub (pkg/api/ws.go): handshakes that reserve a slot and   *)
(* register, broadcasts that read the client table under the read lock and *)
(* drop slow clients under the write lock, the two pumps of every client,  *)
(* and the shutdown.  hub.mu is held for reading by the broadcasts that    *)
(* are in their loop; every other critical section is one step.            *)
(***************************************************************************)
EXTENDS Integers, FiniteSets

CONSTANTS
    Client,         \* accepted handshakes, each a connection of its own
    Caster,         \* goroutines that broadcast
    MaxClients,     \* wsMaxClients
    SendBuffer,     \* capacity of a client's send channel
    MaxEvents       \* bound: broadcasts

ASSUME HubAssumption ==
    /\ IsFiniteSet(Client)
    /\ MaxClients \in Nat \ {0} /\ SendBuffer \in Nat \ {0} /\ MaxEvents \in Nat

VARIABLES
    clients,    \* WSHub.clients
    pending,    \* WSHub.pending
    stage,      \* of each handshake: "new", "reserved", "registered", "served", "refused"
    conn,       \* the connection: "up" or "down"
    send,       \* the send channel: messages in it, and whether it is closed
    writer,     \* the clients whose writePump runs
    reader,     \* the clients whose readPump runs
    gauge,      \* metrics: open WebSocket connections
    cast,       \* the broadcast of each caster
    missed,     \* history: clients that a broadcast skipped
    shut,       \* Close was called
    panicked,   \* history: a send on or a close of a closed channel
    events

hubVars == <<clients, pending, stage, conn, send, writer, reader, gauge, cast,
             missed, shut, panicked, events>>

NoCast == [at |-> "idle", todo |-> {}, stale |-> {}]
EmptyChan == [n |-> 0, closed |-> FALSE]

\* hub.mu.Lock() can be taken.
Unread == \A s \in Caster : cast[s].at # "send"

-----------------------------------------------------------------------------
\* HandleWebSocket.

\* Mutant of HasRoom: handshakes in progress are not counted.
HasRoomRegistered == Cardinality(clients) < MaxClients

HasRoom == Cardinality(clients) + pending < MaxClients

reserveSlot(c) ==
    /\ stage[c] = "new" /\ ~shut /\ Unread
    /\ IF HasRoom THEN pending' = pending + 1 /\ stage' = [stage EXCEPT ![c] = "reserved"]
       ELSE stage' = [stage EXCEPT ![c] = "refused"] /\ UNCHANGED pending
    /\ UNCHANGED <<clients, conn, send, writer, reader, gauge, cast, missed, shut, panicked, events>>

\* The upgrade or the first read deadline fails.
releasePendingSlot(c) ==
    /\ stage[c] = "reserved" /\ Unread
    /\ pending' = IF pending > 0 THEN pending - 1 ELSE 0
    /\ stage' = [stage EXCEPT ![c] = "refused"]
    /\ UNCHANGED <<clients, conn, send, writer, reader, gauge, cast, missed, shut, panicked, events>>

Register(c) ==
    /\ stage[c] = "reserved" /\ Unread
    /\ pending' = pending - 1
    /\ clients' = clients \cup {c}
    /\ stage' = [stage EXCEPT ![c] = "registered"]
    /\ UNCHANGED <<conn, send, writer, reader, gauge, cast, missed, shut, panicked, events>>

StartPumps(c) ==
    /\ stage[c] = "registered"
    /\ stage' = [stage EXCEPT ![c] = "served"]
    /\ gauge' = gauge + 1
    /\ writer' = writer \cup {c} /\ reader' = reader \cup {c}
    /\ UNCHANGED <<clients, pending, conn, send, cast, missed, shut, panicked, events>>

-----------------------------------------------------------------------------
\* Broadcast.

Broadcast(s) ==
    /\ cast[s].at = "idle" /\ events < MaxEvents
    /\ events' = events + 1
    /\ cast' = [cast EXCEPT ![s] = [at |-> "send", todo |-> clients, stale |-> {}]]
    /\ UNCHANGED <<clients, pending, stage, conn, send, writer, reader, gauge, missed, shut, panicked>>

\* Mutant of Offer: a client without room is skipped and forgotten.
OfferOrSkip(s, c) ==
    /\ cast[s].at = "send" /\ c \in cast[s].todo
    /\ cast' = [cast EXCEPT ![s].todo = @ \ {c}]
    /\ send' = IF send[c].n < SendBuffer THEN [send EXCEPT ![c].n = @ + 1] ELSE send
    /\ missed' = IF send[c].n < SendBuffer THEN missed ELSE missed \cup {c}
    /\ UNCHANGED <<clients, pending, stage, conn, writer, reader, gauge, shut, panicked, events>>

\* A send that does not block; a client without room is stale.
Offer(s, c) ==
    /\ cast[s].at = "send" /\ c \in cast[s].todo
    /\ LET full == send[c].n = SendBuffer IN
       /\ cast' = [cast EXCEPT ![s].todo = @ \ {c},
                               ![s].stale = IF full /\ ~send[c].closed THEN @ \cup {c} ELSE @]
       /\ send' = IF full \/ send[c].closed THEN send ELSE [send EXCEPT ![c].n = @ + 1]
       /\ missed' = IF full THEN missed \cup {c} ELSE missed
       /\ panicked' = (panicked \/ send[c].closed)
    /\ UNCHANGED <<clients, pending, stage, conn, writer, reader, gauge, shut, events>>

\* RUnlock, and on to the clients to drop if there are any.
EndLoop(s) ==
    /\ cast[s].at = "send" /\ cast[s].todo = {}
    /\ cast' = [cast EXCEPT ![s].at = IF cast[s].stale # {} THEN "drop" ELSE "idle"]
    /\ UNCHANGED <<clients, pending, stage, conn, send, writer, reader, gauge, missed, shut, panicked, events>>

Close(S) == [c \in Client |-> IF c \in S THEN [send[c] EXCEPT !.closed = TRUE] ELSE send[c]]

\* Mutant of ToDrop: no look at whether the client is still registered.
ToDropUnchecked(s) == cast[s].stale

\* Clients that are still registered.
ToDrop(s) == cast[s].stale \cap clients

DropStale(s) ==
    /\ cast[s].at = "drop" /\ Unread
    /\ panicked' = (panicked \/ \E c \in ToDrop(s) : send[c].closed)
    /\ send' = Close(ToDrop(s))
    /\ clients' = clients \ ToDrop(s)
    /\ cast' = [cast EXCEPT ![s] = NoCast]
    /\ UNCHANGED <<pending, stage, conn, writer, reader, gauge, missed, shut, events>>

-----------------------------------------------------------------------------
\* The pumps.

\* writePump returns and closes the connection.
StopWriter(c) == writer' = writer \ {c} /\ conn' = [conn EXCEPT ![c] = "down"]

WriteMessage(c) ==
    /\ c \in writer /\ send[c].n > 0
    /\ send' = [send EXCEPT ![c].n = @ - 1]
    /\ \/ conn[c] = "up" /\ UNCHANGED <<writer, conn>>
       \/ StopWriter(c)
    /\ UNCHANGED <<clients, pending, stage, reader, gauge, cast, missed, shut, panicked, events>>

WriteClose(c) ==
    /\ c \in writer /\ send[c].n = 0 /\ send[c].closed
    /\ StopWriter(c)
    /\ UNCHANGED <<clients, pending, stage, send, reader, gauge, cast, missed, shut, panicked, events>>

\* Mutant of Ping: the result of the write is ignored.
PingIgnored(c) == FALSE /\ UNCHANGED hubVars

\* The ticker fires and the ping cannot be written; one that can changes
\* nothing.
Ping(c) ==
    /\ c \in writer /\ conn[c] = "down"
    /\ StopWriter(c)
    /\ UNCHANGED <<clients, pending, stage, send, reader, gauge, cast, missed, shut, panicked, events>>

\* The peer closes, the network fails, or no pong comes in time.
ConnectionLost(c) ==
    /\ stage[c] \in {"registered", "served"} /\ conn[c] = "up"
    /\ conn' = [conn EXCEPT ![c] = "down"]
    /\ UNCHANGED <<clients, pending, stage, send, writer, reader, gauge, cast, missed, shut, panicked, events>>

\* readPump returns: the client leaves the hub, its channel stays open.
StopReader(c) ==
    /\ c \in reader /\ conn[c] = "down" /\ Unread
    /\ clients' = clients \ {c}
    /\ reader' = reader \ {c}
    /\ gauge' = gauge - 1
    /\ UNCHANGED <<pending, stage, conn, send, writer, cast, missed, shut, panicked, events>>

\* WSHub.Close, when the server shuts down.
CloseHub ==
    /\ ~shut /\ Unread
    /\ shut' = TRUE
    /\ panicked' = (panicked \/ \E c \in clients : send[c].closed)
    /\ conn' = [c \in Client |-> IF c \in clients THEN "down" ELSE conn[c]]
    /\ send' = Close(clients)
    /\ clients' = {}
    /\ UNCHANGED <<pending, stage, writer, reader, gauge, cast, missed, events>>

HubInit ==
    /\ clients = {} /\ pending = 0
    /\ stage = [c \in Client |-> "new"]
    /\ conn = [c \in Client |-> "up"]
    /\ send = [c \in Client |-> EmptyChan]
    /\ writer = {} /\ reader = {} /\ gauge = 0
    /\ cast = [s \in Caster |-> NoCast]
    /\ missed = {} /\ shut = FALSE /\ panicked = FALSE /\ events = 0

Handshake(c) == reserveSlot(c) \/ releasePendingSlot(c) \/ Register(c) \/ StartPumps(c)

Casting(s) == Broadcast(s) \/ (\E c \in Client : Offer(s, c)) \/ EndLoop(s) \/ DropStale(s)

Pumping(c) == WriteMessage(c) \/ WriteClose(c) \/ Ping(c) \/ StopReader(c)

HubNext ==
    \/ \E c \in Client : Handshake(c) \/ Pumping(c) \/ ConnectionLost(c)
    \/ \E s \in Caster : Casting(s)
    \/ CloseHub

\* Goroutines that can run do, and hub.mu is granted to a waiting writer: a
\* pending Lock keeps new readers out of a sync.RWMutex.
Fairness ==
    /\ \A c \in Client : /\ WF_hubVars(WriteMessage(c)) /\ WF_hubVars(WriteClose(c))
                         /\ WF_hubVars(Ping(c)) /\ SF_hubVars(StopReader(c))
                         /\ WF_hubVars(StartPumps(c))
    /\ \A s \in Caster : WF_hubVars((\E c \in Client : Offer(s, c)) \/ EndLoop(s) \/ DropStale(s))

HubSpec == HubInit /\ [][HubNext]_hubVars

FairSpec == HubSpec /\ Fairness

-----------------------------------------------------------------------------

\* The hub and the goroutines keep their types: a channel never holds more than
\* its capacity.
HubTypeOK ==
    /\ clients \subseteq Client
    /\ pending \in Nat
    /\ stage \in [Client -> {"new", "reserved", "registered", "served", "refused"}]
    /\ conn \in [Client -> {"up", "down"}]
    /\ send \in [Client -> [n : 0..SendBuffer, closed : BOOLEAN]]
    /\ writer \subseteq Client /\ reader \subseteq Client
    /\ gauge \in Int
    /\ cast \in [Caster -> [at : {"idle", "send", "drop"},
                            todo : SUBSET Client, stale : SUBSET Client]]
    /\ missed \subseteq Client
    /\ shut \in BOOLEAN /\ panicked \in BOOLEAN
    /\ events \in 0..MaxEvents

Upgrading == {c \in Client : stage[c] = "reserved"}

\* A slot is reserved for every handshake that is being upgraded and for no
\* other, so that pending slots are neither leaked by a failed upgrade nor
\* given twice, and the limit holds for connections that finish their upgrade
\* at the same time; the gauge counts the connections whose pumps run.
SlotsAccounted ==
    /\ pending = Cardinality(Upgrading)
    /\ Cardinality(clients) + pending <= MaxClients
    /\ gauge = Cardinality(reader)

\* No goroutine panics: a channel is closed by the broadcast that finds its
\* client still registered, by the shutdown, or by nobody, and a broadcast
\* that read the table before sends to none that is closed.
NoPanic == ~panicked

\* A client that missed an event because its buffer was full does not stay in
\* the hub: a broadcast that will drop it holds it until then, however far the
\* client caught up in the meantime.
MissedAreDropped ==
    \A c \in missed \cap clients : \E s \in Caster : c \in cast[s].stale

\* When a connection is lost, or its channel is closed, both its pumps end
\* and it leaves the hub, the client that the read loop removed without
\* closing its channel included.
PumpsEnd ==
    \A c \in Client :
        (stage[c] = "served" /\ (conn[c] = "down" \/ send[c].closed))
            ~> (c \notin writer \cup reader \cup clients)
=============================================================================
