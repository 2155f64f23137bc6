--------------------------- MODULE MCProfileStore ---------------------------
(* One author, on node n1, and a node n2 that hears of the profile.  w1 and *)
(* w2 run at the author's node, w3 is the other node's read loop of the     *)
(* profiles topic.                                                          *)
EXTENDS ProfileStore

CONSTANTS n1, n2, w1, w2, w3

HomeNode == [a \in Author |-> n1]
Placed == [w \in Worker |-> IF w \in {w1, w2} THEN n1 ELSE n2]
=============================================================================
