------------------------------- MODULE Findings -------------------------------
(***************************************************************************)
(* findings.ComputeWithTunables over the reports of successive runs.  Every *)
(* step is a run that finds one section of the report changed: the values   *)
(* in Observed stand on either side of each threshold a rule compares with. *)
(***************************************************************************)
EXTENDS TableRules, ServerRules, ReplicationRules

CONSTANT MaxUnusual   \* the number of sections that may differ from Healthy

ASSUME FindingsAssumption == MaxUnusual \in Nat

VARIABLES report, tunables, findings
findingsVars == <<report, tunables, findings>>
-----------------------------------------------------------------------------
(* ComputeWithTunables, without the order of the result.                    *)
ComputeWithTunables(c, tun) ==
    UNION {
        BlockingChains(c), InvalidIndexes(c), UnusedIndexes(c, tun), RedundantIndexes(c),
        UnindexedForeignKeys(c), SeqScanHeavy(c), PartitionSeqScanHeavy(c), BloatedTables(c, tun),
        StaleStatistics(c), AutovacuumHealth(c), LowHotUpdateRatio(c), LowCacheHit(c),
        IdleInTransaction(c), LongRunningXact(c), ConnectionSaturation(c), TxidWraparound(c),
        MxidWraparound(c), SequenceExhaustion(c), Int4IdentityColumn(c), WalArchiving(c),
        ChecksumFindings(c), CollationVersionMismatch(c), ReplicaIdentityMissing(c),
        FailoverReadiness(c, tun), ReplicationSlotRisk(c), SubscriptionDown(c),
        VacuumHorizonBlocked(c), PreparedXactAbandoned(c), QuerySlowdown(c), WorkMemLow(c),
        CheckpointsForced(c), ConnectionsOverprovisioned(c), IOTimingOff(c), ConfigSanity(c),
        AuditPosture(c), WaitFindings(c), HighRollbacks(c), MissingPgss(c), PgssEntriesEvicted(c),
        StaleStatsWindow(c)}

ObjectClass(f) == IF f.objects # {} THEN (CHOOSE o \in f.objects : TRUE)[1] ELSE f.object[1]
Ids(fs) == {f.id : f \in fs}
-----------------------------------------------------------------------------
(* The catalogue (catalog.go): the severity a finding has without           *)
(* escalation, the findings whose entry tells when the severity changes, its *)
(* dimension, and the class of object it is suppressed by.                  *)
CatalogCritical ==
    {"blocking_chains", "index_invalid", "autovacuum_disabled_on_table", "sync_rep_degraded",
     "checksum_failures", "ignore_checksum_failure_on", "replica_identity_missing",
     "archiving_failing", "archiving_stalled", "fsync_off", "full_page_writes_off", "autovacuum_off"}
CatalogInfo ==
    {"redundant_indexes", "autovacuum_long_running", "checksums_disabled", "pgaudit_double_logging",
     "connections_overprovisioned", "statement_timeout_unset", "io_timing_off",
     "pg_stat_statements_missing", "stale_stats_window"}
CatalogChanging ==
    {"index_invalid", "autovacuum_saturated", "idle_in_transaction", "connection_saturation",
     "txid_wraparound", "sequence_exhaustion", "int4_identity_column", "mxid_wraparound",
     "vacuum_horizon_blocked", "prepared_xact_abandoned", "replica_lag_time",
     "collation_version_mismatch", "archiving_failing", "archiving_stalled", "archiving_disabled",
     "replication_slot_inactive"}
CatalogStorage ==
    {"unused_indexes", "table_bloat", "redundant_indexes", "autovacuum_starved", "vacuum_horizon_blocked"}
CatalogLatency ==
    {"fk_unindexed", "partition_seq_scan_heavy", "stale_statistics", "never_analyzed",
     "wait_lock_contention", "query_slowdown", "random_page_cost_high"}
CatalogThroughput ==
    {"seq_scan_heavy", "autovacuum_saturated", "autovacuum_long_running", "low_hot_update_ratio",
     "low_cache_hit", "wait_io_bound", "wait_lwlock_pressure", "pgaudit_double_logging",
     "pgss_entries_evicted", "work_mem_low", "checkpoints_forced", "io_timing_off",
     "high_rollback_ratio"}
CatalogCost == {"connections_overprovisioned", "pg_stat_statements_missing", "stale_stats_window"}
CatalogRelation ==
    {"index_invalid", "unused_indexes", "table_bloat", "redundant_indexes", "fk_unindexed",
     "partition_seq_scan_heavy", "seq_scan_heavy", "autovacuum_disabled_on_table",
     "table_never_vacuumed", "autovacuum_starved", "stale_statistics", "never_analyzed",
     "low_hot_update_ratio", "sequence_exhaustion", "int4_identity_column", "replica_identity_missing"}
CatalogSetting ==
    {"ignore_checksum_failure_on", "checksums_disabled", "pgaudit_silent", "pgaudit_logs_parameters",
     "pgaudit_double_logging", "work_mem_low", "checkpoints_forced", "fsync_off",
     "full_page_writes_off", "autovacuum_off", "random_page_cost_high", "work_mem_overcommit",
     "statement_timeout_unset", "io_timing_off"}
CatalogDatabase == {"checksum_failures", "collation_version_mismatch"}

MetaSeverity(id) ==
    IF id \in CatalogCritical THEN "critical" ELSE IF id \in CatalogInfo THEN "info" ELSE "warn"
MetaDimension(id) ==
    CASE id \in CatalogStorage -> "storage"       [] id \in CatalogLatency -> "latency"
      [] id \in CatalogThroughput -> "throughput" [] id \in CatalogCost -> "cost"
      [] OTHER -> "risk"
MetaObjectClass(id) ==
    CASE id \in CatalogRelation -> "relation"          [] id \in CatalogSetting -> "setting"
      [] id \in CatalogDatabase -> "db"                [] id = "replication_slot_inactive" -> "slot"
      [] id = "subscription_worker_down" -> "sub"      [] OTHER -> "cluster"
-----------------------------------------------------------------------------
(* What a run may find of a section: Absent, or its healthy value with some *)
(* of its members at a value next to a threshold.                           *)
Amended(row, change) == [k \in DOMAIN row |-> IF k \in DOMAIN change THEN change[k] ELSE row[k]]
With(section, changes) == {Given(Amended(The(Healthy[section]), ch)) : ch \in changes}
Tables == {[Table("t1") EXCEPT !.live = n, !.dead = d] : n \in {9999, 10000, 100000}, d \in {2500, 30000, 40000}}
          \union {[t EXCEPT !.autovacuumed = FALSE, !.vacuumed = v] :
                    t \in {[Table("t1") EXCEPT !.dead = d, !.vacuumScale = s] :
                             d \in {0, 30000, 30075}, s \in {Absent, Given(0)}}, v \in BOOLEAN}
          \union {[Table("t1") EXCEPT !.mods = m, !.analyzed = a] : m \in {15000, 20100}, a \in BOOLEAN}
          \union {[Table("t1") EXCEPT !.seqScans = s, !.indexScans = 100] : s \in {200, 201}}
          \union {[Table("t1") EXCEPT !.updates = 10000, !.hot = h] : h \in {4999, 5000}}
          \union {[Table("t1") EXCEPT !.disabled = TRUE]}
Observed(section) ==
    CASE section = "server" -> {[Healthy.server EXCEPT !.provider = "rds"],
                                [Healthy.server EXCEPT !.extensions = {"pgaudit"}]}
      [] section = "window" -> {[Healthy.window EXCEPT !.age = a] :
                                  a \in {Absent, Given(899), Given(900), Given(604799)}}
                               \union {[Healthy.window EXCEPT !.days = Given(30)]}
      [] section = "health" -> With(section, {[tps |-> t] : t \in {Absent, Given(1)}}
                                 \union {[rollback |-> Given(10), tps |-> Given(t)] : t \in {1, 2}}
                                 \union {[cacheHit |-> Given(89), cacheBlocks |-> b] :
                                           b \in {Absent, Given(9999), Given(10000)}}
                                 \union {[tempRate |-> Given(1024)]})
      [] section = "activity" -> With(section, {[idleInTx |-> 1, longestXact |-> x] : x \in {59, 60, 300}}
                                 \union {[longestXact |-> 300]}
                                 \union {[workers |-> w, workerAge |-> 3600] : w \in {0, 2, 3}})
      [] section = "locks" -> With(section, {[blocked |-> 1]})
      [] section = "queries" -> With(section, {[enabled |-> FALSE, count |-> 0, max |-> 0],
                                               [dealloc |-> 1], [count |-> 5000]})
      [] section = "tables" -> With(section, {[top |-> {t, Table("t2")}] : t \in Tables}
                                 \union {[partitioned |-> {[Partitioned("p") EXCEPT !.seqScans = 1000,
                                                            !.indexScans = i]}] : i \in {0, 1000, 1001}})
      [] section = "indexes" -> With(section, {[unused |-> {UnusedIndex("i", m)}] : m \in {0, 1, 10}}
                                 \union {[redundant |-> {"r"}], [unindexedFKs |-> {"t1"}]})
      [] section = "wal" -> With(section, {[rate |-> r] : r \in {Absent, Given(0)}})
      [] section = "io" -> With(section, {[timed |-> 7, requested |-> 3], [timed |-> 6, requested |-> 3]})
      [] section = "replication" ->
            With(section, {[replicas |-> {[Replica("r1") EXCEPT !.lag = l, !.sync = s]}] :
                             l \in {Absent, Given(59), Given(60), Given(299), Given(300)},
                             s \in {"async", "quorum"}}
                          \union {[slots |-> {[name |-> "s", active |-> a, mib |-> m, lost |-> l]}] :
                                    a \in BOOLEAN, m \in {511, 512, 8192}, l \in BOOLEAN}
                          \union {[isReplica |-> TRUE],
                                  [subs |-> {[name |-> "s", running |-> FALSE]}]})
      [] section = "settings" -> With(section,
            {[fsync |-> "off"], [fullPageWrites |-> "off"], [autovacuum |-> "off"],
             [ignoreChecksumFailure |-> "on"], [dataChecksums |-> "off"], [trackIOTiming |-> "off"],
             [archiveMode |-> "off"], [archiveMode |-> "off", walLevel |-> "minimal"],
             [archiveTimeout |-> <<<<1, "h">>>>], [archiveTimeout |-> <<<<1, "week">>>>],
             [syncNames |-> <<<<"", 0>>>>], [syncNames |-> <<<<"FIRST", 0>>, <<"", 2>>>>],
             [syncNames |-> <<<<"ANY", 0>>>>],
             [syncNames |-> <<<<"", 0>>>>, synchronousCommit |-> "local"],
             [auditLog |-> "none"], [auditParameter |-> "on"], [logStatement |-> "all"],
             [statementTimeout |-> "0"], [workMem |-> <<64, "MB">>], [workMem |-> <<4, "">>],
             [randomPageCost |-> Given(4)], [maxConnections |-> Given(1025)],
             [analyzeScale |-> Given(5)], [analyzeScale |-> Given(20)], [vacuumScale |-> Given(40)]})
      [] section = "limits" -> With(section, {[used |-> u] : u \in {84, 85, 95}}
                                 \union {[max |-> 0], [max |-> 1000]}
                                 \union {[xidAge |-> x] : x \in {XidWarn - 1, XidWarn, XidCrit}}
                                 \union {[mxidAge |-> x] : x \in {XidWarn - 1, XidWarn, XidCrit}})
      [] section = "horizon" ->
            {Given(<<Holder(s, x)>>) : s \in {"backend", "replication_slot"},
                                       x \in {999999, 1000000, XidWarn}}
            \union {Given(<<Holder("backend", 1000000),
                            [Holder("prepared_xact", 10) EXCEPT !.openFor = n]>>) : n \in {299, 300, 3600}}
      [] section = "sequences" -> With(section, {[pct |-> [s \in {"s1", "s2"} |-> IF s = "s1" THEN p ELSE 80]] :
                                                   p \in {79, 80, 90}}
                                 \union {[narrow |-> {[name |-> "t1", type |-> ty]}] : ty \in {"int2", "int4"}})
      [] section = "progress" -> {Given({"create_index"}), Given({"vacuum"})}
      [] section = "archiver" -> With(section, {[archivedAge |-> a, failedAge |-> f] :
                                                  a \in {Absent, Given(3600), Given(3601), Given(10801)},
                                                  f \in {Absent, Given(3600)}})
      [] section = "checksums" -> {Given({"app"})}
      [] section = "standby" -> {Given([conflicts |-> n]) : n \in {0, 1}}
      [] section = "collation" -> {Given({"collation"}), Given({"database", "collation"})}
      [] section = "identity" -> {Given({"t1"})}
      [] section = "deltas" -> {Given({Change(d[1], d[2], d[3])}) :
                                  d \in {<<"query.mean_ms", 5, 10>>, <<"query.mean_ms", 5, 9>>,
                                         <<"query.mean_ms", 0, 10>>,
                                         <<"replication.standby_gone", 1, 0>>,
                                         <<"archiver.failed_count", 1, 2>>}}
      [] section = "waits" -> With(section, {[samples |-> n, io |-> 51] : n \in {19, 20, 400}}
                                 \union {[lwlock |-> 31], [available |-> FALSE, lwlock |-> 31]}
                                 \union {[byQuery |-> {[QueryWaits("q1") EXCEPT !.lockShare = 31,
                                                        !.count = n]}] : n \in {4, 5}})
      [] section = "schema" -> {Given({[SchemaIndex("i") EXCEPT !.live = l, !.ready = r]}) :
                                  l \in BOOLEAN, r \in BOOLEAN}

Mandatory == {"server", "window"}
Values(section) ==
    {Healthy[section]} \union Observed(section)
    \union (IF section \in Mandatory THEN {} ELSE {Absent})
Unusual(c) == {s \in Sections : c[s] # Healthy[s]}
-----------------------------------------------------------------------------
FindingsInit ==
    /\ report = Healthy
    /\ tunables \in {DefaultTunables, [unusedIndexMin |-> 5, deadRatio |-> 30, replicaLag |-> 1000]}
    /\ findings = ComputeWithTunables(Healthy, tunables)

(* A run whose collectors return another value of one section: of the       *)
(* sections with a graded measure any, of the others what is worth a look,  *)
(* a healthy one that changed, or one that recovered or was not collected.  *)
Graded == {"limits", "horizon", "replication", "activity", "sequences"}
RunFinds(section) ==
    \E v \in Values(section) :
        /\ v # report[section]
        /\ \/ section \in Graded \/ Healthy[section] \in {v, report[section]}
           \/ section \notin Mandatory /\ v = Absent
        /\ report' = [report EXCEPT ![section] = v]
        /\ Cardinality(Unusual(report')) <= MaxUnusual
        /\ findings' = ComputeWithTunables(report', tunables)
        /\ UNCHANGED tunables

FindingsNext == \E section \in Sections : RunFinds(section)

FindingsSpec == FindingsInit /\ [][FindingsNext]_findingsVars
-----------------------------------------------------------------------------
Criticals(fs) == {<<f.id, f.object>> : f \in {g \in fs : g.severity = "critical"}}
Level(fs, id) == Max({0} \union {Rank(f.severity) : f \in {g \in fs : g.id = id}})
Objects(fs, id) == UNION {f.objects : f \in {g \in fs : g.id = id}}

(* A threshold raised in .pgbot.toml hides warnings and never a critical    *)
(* finding: a replica five minutes behind is critical whatever the          *)
(* configured warning (Tunables, failoverReadiness).                        *)
CriticalSurvivesTuning ==
    tunables # DefaultTunables =>
        Criticals(findings) = Criticals(ComputeWithTunables(report, DefaultTunables))

(* What the rules emit is what the catalogue (and with it explain-finding,  *)
(* the pages and the suppression by object) says of it: the dimension, save *)
(* for the horizon that threatens wraparound, the class of object, and the  *)
(* severity wherever no escalation is declared.                             *)
CatalogAgrees ==
    \A f \in findings :
        /\ f.dim = MetaDimension(f.id) \/ (f.id = "vacuum_horizon_blocked" /\ f.severity = "critical")
        /\ ObjectClass(f) = MetaObjectClass(f.id)
        /\ f.id \notin CatalogChanging => f.severity = MetaSeverity(f.id)

(* A finding that sends the reader to another one is in a report that has   *)
(* it, though the two rules decide apart: stale statistics that travel with *)
(* a slow query, bloat to be fixed after the horizon, a slowdown in doubt   *)
(* because of evictions.                                                    *)
ReferencesResolve == \A f \in findings : f.related \union f.cites \subseteq Ids(findings)

(* No two findings contradict each other: no table was both never vacuumed  *)
(* and left behind by autovacuum, never analyzed and analyzed too long ago; *)
(* connections are not both short and in excess, archiving not both off and *)
(* stalled, the audit log not both empty and doubled.                       *)
NoContradiction ==
    /\ Objects(findings, "table_never_vacuumed") \cap Objects(findings, "autovacuum_starved") = {}
    /\ Objects(findings, "never_analyzed") \cap Objects(findings, "stale_statistics") = {}
    /\ \A pair \in {{"connection_saturation", "connections_overprovisioned"},
                     {"archiving_disabled", "archiving_stalled"},
                     {"pgaudit_silent", "pgaudit_double_logging"}} : ~(pair \subseteq Ids(findings))

(* A finding that advises a destructive action carries a machine-readable   *)
(* guard for it, as CHANGELOG.md:549 promises of every one; dropping a slot *)
(* that holds the horizon back and rebuilding after a change of collation   *)
(* are advised without.                                                     *)
Unguarded == {"vacuum_horizon_blocked", "collation_version_mismatch"}
DestructiveIsGuarded ==
    \A f \in findings : f.id \notin Unguarded =>
        \A action \in f.advises : \E g \in f.guards : g[2] = action

(* The findings of one report agree with the catalogue and with each other, *)
(* and none sends the reader to a destructive command unguarded.            *)
ReportIsConsistent ==
    CatalogAgrees /\ ReferencesResolve /\ NoContradiction /\ DestructiveIsGuarded

(* A section that could not be collected raises nothing, except the rules   *)
(* that read absence itself (no pg_stat_statements, no standby connected,   *)
(* no audit class) and those that fall back on a default trigger.           *)
ReadAbsence == {"pg_stat_statements_missing", "sync_rep_degraded", "archiving_disabled",
                "pgaudit_silent", "stale_statistics", "autovacuum_starved"}
AbsenceIsQuiet ==
    [][(\E s \in Sections \ Mandatory : report[s] # Absent /\ report'[s] = Absent)
        => Ids(findings') \subseteq Ids(findings) \union ReadAbsence]_findingsVars

(* A measure that got worse from one run to the next, everything else as it *)
(* was, and the finding that grades it.                                     *)
Both(s, P(_, _)) ==
    /\ report[s] # report'[s] /\ \E x \in report[s], y \in report'[s] : P(x, y)
    /\ \A t \in Sections \ {s} : report'[t] = report[t]
Worse ==
    {id \in {"txid_wraparound"} : Both("limits", LAMBDA x, y : x.xidAge <= y.xidAge)}
    \union {id \in {"mxid_wraparound"} : Both("limits", LAMBDA x, y : x.mxidAge <= y.mxidAge)}
    \union {id \in {"connection_saturation"} :
                Both("limits", LAMBDA x, y : x.max = y.max /\ x.used <= y.used)}
    \union {id \in {"vacuum_horizon_blocked"} :
                Both("horizon", LAMBDA x, y : y # <<>> /\ (x # <<>> => x[1].xminAge <= y[1].xminAge))}
    \union {id \in {"replication_slot_inactive"} :
                Both("replication", LAMBDA x, y : \A a \in x.slots : \E b \in y.slots :
                        (b.active => a.active) /\ (a.lost => b.lost) /\ a.mib <= b.mib)}
    \union {id \in {"replica_lag_time"} :
                Both("replication", LAMBDA x, y : \A a \in x.replicas : \E b \in y.replicas :
                        \A l \in a.lag : AtLeast(b.lag, l))}
    \union {id \in {"idle_in_transaction", "long_running_transaction"} :
                Both("activity", LAMBDA x, y : x.longestXact <= y.longestXact /\ x.idleInTx <= y.idleInTx)}
    \union {id \in {"sequence_exhaustion"} :
                Both("sequences", LAMBDA x, y : \A q \in DOMAIN x.pct :
                        q \in DOMAIN y.pct /\ x.pct[q] <= y.pct[q])}

(* The severity of a graded finding never falls while its measure rises.    *)
WorseIsNeverQuieter == [][\A id \in Worse : Level(findings, id) <= Level(findings', id)]_findingsVars

=============================================================================
