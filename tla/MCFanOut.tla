------------------------------- MODULE MCFanOut -------------------------------
(* The small instance of FanOut: a writer and a reader, two databases, one  *)
(* cluster-wide finding that comes once per replication slot and one        *)
(* per-database finding.                                                    *)
EXTENDS FanOut, TLC

CONSTANTS writer, reader, app, billing

MCMembers == <<writer, reader>>
MCDatabases == <<app, billing>>

Slot(object, sev) == [id |-> "slot", object |-> object, sev |-> sev, muted |-> FALSE, scoped |-> FALSE]
Bloat(muted) == [id |-> "bloat", object |-> "t", sev |-> "warn", muted |-> muted, scoped |-> FALSE]

MCReports ==
    {<<>>, <<Bloat(FALSE)>>, <<Slot("s1", "warn"), Bloat(TRUE)>>,
     <<Slot("s2", "critical"), Slot("s1", "warn")>>}
=============================================================================
