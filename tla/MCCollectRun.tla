----------------------------- MODULE MCCollectRun -----------------------------
(* The small instance of CollectRun: two gauges and one counter, of which   *)
(* one gauge belongs to the schema profile, two in flight at a time.        *)
EXTENDS CollectRun, TLC
=============================================================================
