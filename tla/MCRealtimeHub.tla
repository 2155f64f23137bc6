--------------------------- MODULE MCRealtimeHub ----------------------------
(* Two handshakes for one slot, and broadcasts that overflow its buffer.   *)
EXTENDS RealtimeHub
=============================================================================
