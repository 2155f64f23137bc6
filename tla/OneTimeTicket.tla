--------------------------- MODULE OneTimeTicket ----------------------------
(***************************************************************************)
(* What WSTicketManager promises (pkg/api/ws_ticket.go, "short-lived,      *)
(* one-time tickets"): a ticket admits once and only before its deadline,  *)
(* at most Limit tickets are outstanding, and one that has time left is    *)
(* withdrawn for a new ticket only, the one nearest its deadline first.    *)
(***************************************************************************)
EXTENDS Naturals, FiniteSets

CONSTANTS Ticket, Limit, TTL

VARIABLES now, status, deadline

vars == <<now, status, deadline>>

Live == {t \in Ticket : status[t] = "live"}
Expired == {t \in Live : deadline[t] <= now}

\* The tickets that making room for one more may withdraw.
Room(S) ==
    IF Cardinality(Live \ Expired) < Limit THEN S \subseteq Expired
    ELSE \E e \in Live \ Expired :
            /\ \A t \in Live \ Expired : deadline[e] <= deadline[t]
            /\ S \subseteq Expired \cup {e}

Void(S) == [t \in Ticket |-> IF t \in S THEN "void" ELSE status[t]]
Clear(S) == [t \in Ticket |-> IF t \in S THEN 0 ELSE deadline[t]]

Grant(t) ==
    /\ status[t] = "new"
    /\ \E S \in SUBSET Live :
          /\ Room(S)
          /\ Cardinality(Live \ S) < Limit
          /\ status' = [Void(S) EXCEPT ![t] = "live"]
          /\ deadline' = [Clear(S) EXCEPT ![t] = now + TTL]
    /\ UNCHANGED now

Redeem(t) ==
    /\ t \in Live \ Expired
    /\ \E S \in SUBSET Expired :
          /\ status' = [Void(S) EXCEPT ![t] = "spent"]
          /\ deadline' = [Clear(S) EXCEPT ![t] = 0]
    /\ UNCHANGED now

Lapse ==
    /\ \E S \in SUBSET Expired : status' = Void(S) /\ deadline' = Clear(S)
    /\ UNCHANGED now

Tick == now' = now + 1 /\ UNCHANGED <<status, deadline>>

Init ==
    /\ now = 0
    /\ status = [t \in Ticket |-> "new"]
    /\ deadline = [t \in Ticket |-> 0]

Next == Tick \/ Lapse \/ \E t \in Ticket : Grant(t) \/ Redeem(t)

Spec == Init /\ [][Next]_vars
=============================================================================
