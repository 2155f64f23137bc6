-------------------------- MODULE MCContentExchange --------------------------
(* A video, announced with and without a thumbnail, and that thumbnail,      *)
(* which somebody has posted as a picture too.                               *)
EXTENDS ContentExchange

CONSTANTS video, picture

Announcements == {<<video, picture>>, <<video, NoCid>>, <<picture, NoCid>>}
=============================================================================
