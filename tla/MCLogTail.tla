------------------------------ MODULE MCLogTail ------------------------------
(* The small instance of LogTail: two file names, reads of two pieces.      *)
EXTENDS LogTail, TLC
=============================================================================
