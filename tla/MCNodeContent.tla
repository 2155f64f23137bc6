--------------------------- MODULE MCNodeContent ---------------------------
(* Small worlds for NodeContent.  me is the local identity, ann and bob are *)
(* remote authors.                                                          *)
EXTENDS NodeContent, TLC

CONSTANTS me, ann, bob, ownPost, annPost, bobReply, bobLike, ownLike, ownDM

All == {me, ann, bob}
Mine == {me}

\* What each item is.
Kinded ==
    [i \in Item |-> CASE i \in {ownPost, annPost} -> "post"
                      [] i = bobReply -> "reply"
                      [] i \in {bobLike, ownLike} -> "like"
                      [] OTHER -> "dm"]
Authored ==
    [i \in Item |-> CASE i \in {ownPost, ownLike, ownDM} -> me
                      [] i = annPost -> ann
                      [] OTHER -> bob]
\* The own like is about Ann's post, the rest about the own one.
Targeted == [i \in Item |-> IF i \in {annPost, ownLike} THEN annPost ELSE ownPost]
Addressed == [i \in Item |-> IF i = ownDM THEN bob ELSE me]

Touched == {i \in Item : delivered[i] > 0 \/ i \in created}

\* Bound: an own post with the answers to it, in two workers at a time.
Answers ==
    /\ Touched \subseteq {ownPost, bobReply, bobLike}
    /\ delivered[ownPost] <= 1 /\ changes = 0 /\ crashes = 0

\* Bound: a followed author's post and own messages, in one worker at a time,
\* while the follow of that author changes and the node crashes; a failure may
\* come last.
Follows ==
    /\ Touched \subseteq {annPost, ownLike, ownDM}
    /\ faults = 0 /\ \A i \in Item : delivered[i] <= 1
    /\ \A f \in FollowThread : follow[f].who \in {ann, NoItem}
    /\ \A v, w \in Worker : ~At(v, "idle") /\ ~At(w, "idle") => v = w

\* One of the two worlds.
OneWorld == Answers \/ Follows

\* Workers are interchangeable goroutines.
WorkerSymmetry == Permutations(Worker)
=============================================================================
