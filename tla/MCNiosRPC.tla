----------------------------- MODULE MCNiosRPC -----------------------------
(* Three calls: one that times out, one that meets its end, one after it.  *)
EXTENDS NiosRPC
=============================================================================
