--------------------------- MODULE MCFeedRuntime ---------------------------
(* People of a run, two of whom can be identities of the node.  A topic is *)
(* a pair of a kind and a person.                                          *)
EXTENDS FeedRuntime

Topics == {"posts", "dm"} \X Person
PostsTopic == [p \in Person |-> <<"posts", p>>]
DMTopic == [p \in Person |-> <<"dm", p>>]
=============================================================================
