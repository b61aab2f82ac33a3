------------------------------ MODULE MCFindings ------------------------------
(* Findings for TLC; the values are those of Findings.Observed.             *)
EXTENDS Findings
=============================================================================
