----------------------------- MODULE MCSSHTunnel -----------------------------
(* The small instance of SSHTunnel: two dialers share the tunnel, one more  *)
(* connection than they can refer to at once.                               *)
EXTENDS SSHTunnel, TLC
=============================================================================
