---------------------------- MODULE MCWebAccess -----------------------------
(* Session tokens and tickets are interchangeable, and so are requests.    *)
EXTENDS WebAccess, TLC

Symmetry == Permutations(Token) \cup Permutations(Ticket) \cup Permutations(Request)
=============================================================================
