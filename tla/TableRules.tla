------------------------------ MODULE TableRules ------------------------------
(***************************************************************************)
(* The rules of internal/findings about tables, indexes and sequences.      *)
(* Each returns the set of findings it adds to the report c; tun holds the  *)
(* thresholds a configuration may override.                                 *)
(***************************************************************************)
EXTENDS Report

DefaultTunables == [unusedIndexMin |-> 1, deadRatio |-> 20, replicaLag |-> 60]
MinRows == 10000
SeqScanMinRows == 50000

Some(f, objs) == When(objs # {}, f)
Top(c) == UNION {s.top : s \in c.tables}
Names(rows) == {r.name : r \in rows}
Override(opt, default) == IF opt = {} THEN default ELSE The(opt)
-----------------------------------------------------------------------------
CreateIndexInProgress(c) == \E ops \in c.progress : "create_index" \in ops

(* The worst class of invalid index decides, unless a build is running.     *)
InvalidIndexes(c) ==
    LET found == {o \in UNION c.schema : o.invalid}
        maintained == {o \in found : o.live /\ o.ready}
        severity == IF maintained # {} /\ ~CreateIndexInProgress(c) THEN "critical" ELSE "warn"
        f == Advises(Over(Finding("index_invalid", severity, "risk"), Names(found)), "DROP INDEX")
    IN  Some(IF CreateIndexInProgress(c) THEN Prohibition(Confident(f, 50), "DROP INDEX")
                                         ELSE Precondition(f, "DROP INDEX"), found)

ShortStatsWindow == 7 * 24 * 3600
UnusedIndexes(c, tun) ==
    LET found == {i \in UNION {s.unused : s \in c.indexes} : i.mib >= tun.unusedIndexMin}
        young == \E age \in c.window.age : age > 0 /\ age < ShortStatsWindow
        f == Over(Confident(Finding("unused_indexes", "warn", "storage"),
                            IF young THEN 40 ELSE 80), Names(found))
    IN  When(~ColdWindow(c) /\ found # {},
             Precondition(Caveat(Advises(f, "DROP INDEX"), "per_node", ReplicationInUse(c)),
                          "DROP INDEX"))

RedundantIndexes(c) ==
    LET found == UNION {s.redundant : s \in c.indexes}
        f == Advises(Over(Confident(Finding("redundant_indexes", "info", "storage"), 75), found),
                     "DROP INDEX")
    IN  Some(Precondition(Caveat(f, "per_node", ReplicationInUse(c)), "DROP INDEX"), found)

UnindexedForeignKeys(c) ==
    LET found == UNION {s.unindexedFKs : s \in c.indexes}
    IN  Some(Over(Finding("fk_unindexed", "warn", "latency"), found), found)
-----------------------------------------------------------------------------
HorizonBlocked(c) == \E h \in c.horizon : h # <<>> /\ h[1].xminAge >= 1000000

(* The dead ratio is dead / (live + dead), as the collector computes it.    *)
BloatedTables(c, tun) ==
    LET found == {t \in Top(c) : /\ t.live + t.dead >= MinRows
                                 /\ 100 * t.dead >= tun.deadRatio * (t.live + t.dead)}
        f == Over(Finding("table_bloat", "warn", "storage"), Names(found))
    IN  Some(Citing(Confident(f, 70), "vacuum_horizon_blocked", HorizonBlocked(c)), found)

PartitionSeqScanHeavy(c) ==
    LET found == {p \in UNION {s.partitioned : s \in c.tables} :
                    /\ p.live >= SeqScanMinRows /\ p.seqScans >= 1000
                    /\ ~(p.indexScans > 0 /\ p.seqScans < p.indexScans)}
    IN  When(~ColdWindow(c) /\ found # {},
             Over(Finding("partition_seq_scan_heavy", "warn", "latency"), Names(found)))

SeqScanHeavy(c) ==
    LET found == {t \in Top(c) : /\ t.live >= SeqScanMinRows
                                 /\ t.seqScans + t.indexScans >= 100
                                 /\ t.seqScans > 2 * t.indexScans}
        f == Over(Finding("seq_scan_heavy", "warn", "throughput"), Names(found))
    IN  When(~ColdWindow(c) /\ found # {}, Confident(f, 60))

LowHotUpdateRatio(c) ==
    LET found == {t \in Top(c) : t.updates >= 10000 /\ 2 * t.hot < t.updates}
    IN  Some(Over(Finding("low_hot_update_ratio", "warn", "throughput"), Names(found)), found)
-----------------------------------------------------------------------------
(* The autovacuum and autoanalyze triggers, in hundredths of a row; `scale` *)
(* is in percent.                                                           *)
Trigger(live, threshold, scale) == 100 * threshold + scale * live
VacuumTrigger(c, t) ==
    Trigger(t.live, Override(t.vacuumThreshold, SettingFloat(c, "vacuumThreshold", 50)),
                    Override(t.vacuumScale, SettingFloat(c, "vacuumScale", 20)))
AnalyzeTrigger(c, t) ==
    Trigger(t.live, Override(t.analyzeThreshold, SettingFloat(c, "analyzeThreshold", 50)),
                    Override(t.analyzeScale, SettingFloat(c, "analyzeScale", 10)))

(* Per table of autovacuumHealth: a table that was never vacuumed is not    *)
(* also starved.                                                            *)
Disabled(c) == {t \in Top(c) : t.disabled}
NeverVacuumed(c) == {t \in Top(c) : t.live >= MinRows /\ ~t.vacuumed /\ ~t.autovacuumed}
Starved(c) ==
    {t \in Top(c) : /\ t.live >= MinRows /\ t \notin NeverVacuumed(c)
                    /\ VacuumTrigger(c, t) > 0
                    /\ 200 * t.dead >= 3 * VacuumTrigger(c, t) /\ ~t.autovacuumed}
WorkersSaturated(c) ==
    \E a \in c.activity : \E n \in Numeric(c, "autovacuumWorkers") :
        a.workers > 0 /\ n > 0 /\ a.workers >= n
LongWorker(c) == \E a \in c.activity : a.workers > 0 /\ a.workerAge >= 3600
AutovacuumHealth(c) ==
    LET f(id, sev, dim, found) == Some(Over(Finding(id, sev, dim), Names(found)), found)
    IN  f("autovacuum_disabled_on_table", "critical", "risk", Disabled(c))
        \union f("table_never_vacuumed", "warn", "risk", NeverVacuumed(c))
        \union f("autovacuum_starved", "warn", "storage", Starved(c))
        \union When(WorkersSaturated(c), Finding("autovacuum_saturated", "warn", "throughput"))
        \union When(LongWorker(c), Finding("autovacuum_long_running", "info", "throughput"))

(* A table that was never analyzed is not also stale.                       *)
NeverAnalyzed(c) == {t \in Top(c) : t.live >= MinRows /\ ~t.analyzed}
Stale(c) ==
    {t \in Top(c) : /\ t.live >= MinRows /\ t \notin NeverAnalyzed(c)
                    /\ AnalyzeTrigger(c, t) > 0 /\ 100 * t.mods >= 2 * AnalyzeTrigger(c, t)}
StaleStatistics(c) ==
    LET stale == Over(Finding("stale_statistics", "warn", "latency"), Names(Stale(c)))
    IN  Some([stale EXCEPT !.related = When(Slowdowns(c) # {}, "query_slowdown")], Stale(c))
        \union Some(Over(Finding("never_analyzed", "warn", "latency"), Names(NeverAnalyzed(c))),
                    NeverAnalyzed(c))
-----------------------------------------------------------------------------
Widening(f) == Precondition(Advises(f, "ALTER TABLE ... TYPE"), "ALTER TABLE ... TYPE")
SequenceExhaustion(c) ==
    LET pct == UNION {{<<q, s.pct[q]>> : q \in DOMAIN s.pct} : s \in c.sequences}
        found == {q \in pct : q[2] >= 80}
        severity == IF \E q \in found : q[2] >= 90 THEN "critical" ELSE "warn"
    IN  Some(Widening(Over(Finding("sequence_exhaustion", severity, "risk"), {q[1] : q \in found})),
             found)

Int4IdentityColumn(c) ==
    LET found == UNION {s.narrow : s \in c.sequences}
        severity == IF \E n \in found : n.type = "int2" THEN "critical" ELSE "warn"
    IN  Some(Widening(Over(Finding("int4_identity_column", severity, "risk"), Names(found))), found)
=============================================================================
