---------------------------- MODULE MCFollowGraph ----------------------------
EXTENDS FollowGraph, TLC

CONSTANTS me, ann, bob, h1, h2

MCUser == {me, ann, bob}
MCLocal == {me, ann, bob}
MCHandler == {h1, h2}
MCForeign == {{ann, bob}}
MCSymmetry == Permutations({ann, bob}) \cup Permutations(MCHandler)
=============================================================================
