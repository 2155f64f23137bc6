---------------------------- MODULE MCNodeConfig ----------------------------
(* A file with an indexer, without a web UI; and one that a user wrote,    *)
(* with a web UI on all interfaces and too little storage.  The requests   *)
(* are interchangeable.                                                    *)
EXTENDS NodeConfig, TLC

MCInitial ==
    {[storage |-> 1, web |-> [ui |-> FALSE, remote |-> FALSE], indexers |-> Indexer],
     [storage |-> 0, web |-> [ui |-> TRUE, remote |-> TRUE], indexers |-> {}]}

Symmetry == Permutations(Editor)
=============================================================================
