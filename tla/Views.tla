--------------------------------- MODULE Views ---------------------------------
(***************************************************************************)
(* What the exit code and each output format make of the findings: the      *)
(* contract of --fail-on, JUnit, SARIF, Prometheus and the two terminal     *)
(* views.                                                                   *)
(***************************************************************************)
EXTENDS Integers, FiniteSets

SeverityRank(sev) ==
    CASE sev = "critical" -> 3 [] sev = "warn" -> 2 [] sev = "info" -> 1 [] OTHER -> 0

Live(f) == ~f.suppressed /\ ~f.preexisting
Counted(fs, failOn) ==
    IF failOn = "none" THEN {}
    ELSE {f \in fs : Live(f) /\ SeverityRank(f.severity) >= SeverityRank(failOn)}
ExitCode(fs, failOn) ==
    IF \E f \in Counted(fs, failOn) : f.severity = "critical" THEN "critical"
    ELSE IF Counted(fs, failOn) # {} THEN "warn" ELSE "clean"
-----------------------------------------------------------------------------
JUnitSkipped(fs) == {f \in fs : f.suppressed}
(* A slip of JUnitFailures: it forgets what the base already had.           *)
JUnitFailuresOfAll(fs, failOn) ==
    {f \in fs : /\ ~f.suppressed
                /\ failOn # "none" /\ SeverityRank(f.severity) >= SeverityRank(failOn)}

JUnitFailures(fs, failOn) ==
    {f \in fs : /\ ~f.suppressed /\ ~f.preexisting
                /\ failOn # "none" /\ SeverityRank(f.severity) >= SeverityRank(failOn)}

SARIFResults(fs) == {f \in fs : ~f.preexisting}
PrometheusTotal(fs, sev) == Cardinality({f \in fs : ~f.suppressed /\ ~f.preexisting /\ f.severity = sev})

(* inspect: what is listed by title; the rest is counted in the footer.     *)
DashboardListed(fs) == {f \in fs : ~f.preexisting /\ (f.suppressed => f.severity = "critical")}
(* inspect --full: the main list, and the findings its headline counts.     *)
TerminalVisible(fs) == {f \in fs : f.suppressed => f.severity = "critical"}
TerminalHeadline(fs) == {f \in TerminalVisible(fs) : ~f.preexisting}
=============================================================================
