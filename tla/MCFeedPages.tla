---------------------------- MODULE MCFeedPages ----------------------------
EXTENDS FeedPages

\* Three posts, two of them of one time; two messages from one identity of the
\* node to the other, so that a page of them may be marked in part; one
\* notification.
MCBy == [i \in {"p1", "p2", "p3", "m1", "m2", "n1"} |->
            IF i \in {"p1", "p2"} THEN "zoe" ELSE "ann"]

MCTo == [i \in {"m1", "m2", "n1"} |-> "bob"]

MCTimeOf == [i \in {"p1", "p2", "p3", "m1", "m2", "n1"} |->
                CASE i \in {"p1", "m1", "n1"} -> 1 [] OTHER -> 2]
=============================================================================
