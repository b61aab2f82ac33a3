----------------------------- MODULE ServerRules -----------------------------
(***************************************************************************)
(* The rules of internal/findings about the server as a whole: sessions,    *)
(* waits, limits, the vacuum horizon, settings and integrity.               *)
(***************************************************************************)
EXTENDS Report

XidWarn == 1000000000
XidCrit == 1800000000

BlockingChains(c) ==
    When(\E l \in c.locks : l.blocked > 0, Finding("blocking_chains", "critical", "risk"))

IdleInTransaction(c) ==
    UNION {When(a.idleInTx > 0,
                Finding("idle_in_transaction", IF a.longestXact >= 60 THEN "warn" ELSE "info", "risk"))
           : a \in c.activity}

LongRunningXact(c) ==
    When(\E a \in c.activity : a.longestXact >= 300,
         Finding("long_running_transaction", "warn", "risk"))

LowCacheHit(c) ==
    When(\E h \in c.health : /\ h.cacheHit # {} /\ ~ColdWindow(c) /\ CacheHitUsable(h)
                             /\ The(h.cacheHit) < 90,
         Confident(Finding("low_cache_hit", "warn", "throughput"), 60))

HighRollbacks(c) ==
    When(\E h \in c.health : /\ AtLeast(h.rollback, 10)
                             /\ \E tps \in h.tps : tps * c.window.seconds >= 20,
         Confident(Finding("high_rollback_ratio", "warn", "throughput"), 50))

WorkMemLow(c) ==
    When(\E h \in c.health : AtLeast(h.tempRate, 1024),
         About(Finding("work_mem_low", "warn", "throughput"), "setting", "work_mem"))

CheckpointsForced(c) ==
    When(\E i \in c.io : LET total == i.requested + i.timed
                         IN  total >= 10 /\ 100 * i.requested >= 30 * total,
         About(Finding("checkpoints_forced", "warn", "throughput"), "setting", "max_wal_size"))

(* One finding per query that waits on locks, and two for the window.       *)
WaitFindings(c) ==
    UNION {LET confidence == IF 40 + w.samples \div 4 < 90 THEN 40 + w.samples \div 4 ELSE 90
               f(id, dim) == Confident(Finding(id, "warn", dim), confidence)
           IN  {[f("wait_lock_contention", "latency") EXCEPT !.evidence = {q.query}] :
                   q \in {q \in w.byQuery : q.count >= 5 /\ q.lockShare > 30}}
               \union When(w.io > 50, f("wait_io_bound", "throughput"))
               \union When(w.lwlock > 30, f("wait_lwlock_pressure", "throughput"))
           : w \in {w \in c.waits : w.available /\ ~Thin(w)}}
-----------------------------------------------------------------------------
ConnectionSaturation(c) ==
    UNION {When(100 * l.used >= 85 * l.max,
                Finding("connection_saturation",
                        IF 100 * l.used >= 95 * l.max THEN "critical" ELSE "warn", "risk"))
           : l \in {l \in c.limits : l.max > 0}}

ConnectionsOverprovisioned(c) ==
    When(\E l \in c.limits : l.max >= 200 /\ 100 * l.used < 15 * l.max,
         Confident(Finding("connections_overprovisioned", "info", "cost"), 60))

Wraparound(id, age) ==
    When(age >= XidWarn,
         Prohibition(Finding(id, IF age >= XidCrit THEN "critical" ELSE "warn", "risk"), "VACUUM FULL"))
TxidWraparound(c) == UNION {Wraparound("txid_wraparound", l.xidAge) : l \in c.limits}
MxidWraparound(c) == UNION {Wraparound("mxid_wraparound", l.mxidAge) : l \in c.limits}

(* The holders are ordered oldest first; only the first decides.            *)
HorizonRemediation(f, source) ==
    IF source = "replication_slot" THEN Advises(f, "DROP REPLICATION SLOT") ELSE f
(* A slip of VacuumHorizonBlocked: the oldest horizons are left to          *)
(* txid_wraparound.                                                         *)
VacuumHorizonBelowWall(c) ==
    UNION {When(h[1].xminAge >= 1000000 /\ h[1].xminAge < XidWarn,
                Confident(Finding("vacuum_horizon_blocked", "warn", "storage"), 90))
           : h \in c.horizon \ {<<>>}}

VacuumHorizonBlocked(c) ==
    UNION {LET top == h[1]
               threat == top.xminAge >= XidWarn
           IN  When(top.xminAge >= 1000000,
                    HorizonRemediation(Confident(Finding("vacuum_horizon_blocked",
                        IF threat THEN "critical" ELSE "warn", IF threat THEN "risk" ELSE "storage"),
                        90), top.source))
           : h \in c.horizon \ {<<>>}}

PreparedXactAbandoned(c) ==
    UNION {{[Confident(Finding("prepared_xact_abandoned",
                IF h[i].openFor >= 3600 THEN "critical" ELSE "warn", "risk"), 90)
                EXCEPT !.evidence = {i}]
            : i \in {i \in DOMAIN h : h[i].source = "prepared_xact" /\ h[i].openFor >= 300}}
           : h \in c.horizon}
-----------------------------------------------------------------------------
(* parseMemBytes, in kB.                                                    *)
Kilobytes == [kB |-> 1, MB |-> 1024, GB |-> 1024 * 1024]
ParseMemBytes(tokens) ==
    IF Len(tokens) = 2 /\ tokens[2] \in DOMAIN Kilobytes
      THEN Given(tokens[1] * Kilobytes[tokens[2]]) ELSE Absent

SettingFinding(id, severity, dim, setting) == About(Finding(id, severity, dim), "setting", setting)
WorkMemOvercommit(c) ==
    \E wm \in ParseMemBytes(The(c.settings).workMem) :
        \E ecs \in ParseMemBytes(The(c.settings).effectiveCacheSize) :
            \E n \in The(c.settings).maxConnections : ecs > 0 /\ n > 0 /\ wm * n > ecs
ConfigSanity(c) ==
    IF c.settings = {} THEN {} ELSE
    When(Setting(c, "fsync") = "off", SettingFinding("fsync_off", "critical", "risk", "fsync"))
    \union When(Setting(c, "fullPageWrites") = "off",
                SettingFinding("full_page_writes_off", "critical", "risk", "full_page_writes"))
    \union When(Setting(c, "autovacuum") = "off",
                SettingFinding("autovacuum_off", "critical", "risk", "autovacuum"))
    \union When(AtLeast(Numeric(c, "randomPageCost"), 4) /\ CloudProvider(c),
                SettingFinding("random_page_cost_high", "warn", "latency", "random_page_cost"))
    \union When(WorkMemOvercommit(c), SettingFinding("work_mem_overcommit", "warn", "risk", "work_mem"))
    \union When(Setting(c, "statementTimeout") = "0",
                SettingFinding("statement_timeout_unset", "info", "risk", "statement_timeout"))

(* A slip of IOTimingOff: an unknown setting counts as off.                 *)
IOTimingUnknown(c) ==
    When(Setting(c, "trackIOTiming") # "on",
         SettingFinding("io_timing_off", "info", "throughput", "track_io_timing"))

IOTimingOff(c) ==
    When(Setting(c, "trackIOTiming") = "off",
         SettingFinding("io_timing_off", "info", "throughput", "track_io_timing"))

AuditPosture(c) ==
    LET silent == Setting(c, "auditLog") \in {"", "none"}
    IN  IF ~HasExtension(c, "pgaudit") THEN {} ELSE
        When(silent, SettingFinding("pgaudit_silent", "warn", "risk", "pgaudit.log"))
        \union When(Setting(c, "auditParameter") = "on",
                    SettingFinding("pgaudit_logs_parameters", "warn", "risk", "pgaudit.log_parameter"))
        \union When(~silent /\ Setting(c, "logStatement") = "all",
                    SettingFinding("pgaudit_double_logging", "info", "throughput", "log_statement"))
-----------------------------------------------------------------------------
ChecksumFindings(c) ==
    LET failures == UNION c.checksums
        corrupt == [Finding("checksum_failures", "critical", "risk")
                      EXCEPT !.objects = {<<"db", d>> : d \in failures}]
    IN  When(failures # {}, Prohibition(Prohibition(corrupt, "VACUUM FULL"), "REINDEX"))
        \union When(Setting(c, "ignoreChecksumFailure") = "on",
                    SettingFinding("ignore_checksum_failure_on", "critical", "risk",
                                   "ignore_checksum_failure"))
        \union When(Setting(c, "dataChecksums") = "off",
                    SettingFinding("checksums_disabled", "info", "risk", "data_checksums"))

CollationVersionMismatch(c) ==
    LET kinds == UNION c.collation
    IN  When(kinds # {}, Advises(About(Finding("collation_version_mismatch",
                IF "database" \in kinds THEN "critical" ELSE "warn", "risk"), "db", "app"), "REINDEX"))

ReplicaIdentityMissing(c) ==
    When(UNION c.identity # {},
         Over(Finding("replica_identity_missing", "critical", "risk"), UNION c.identity))
-----------------------------------------------------------------------------
QuerySlowdown(c) ==
    When(Slowdowns(c) # {},
         Citing(Confident(Finding("query_slowdown", "warn", "latency"),
                          IF PgssEvicting(c) THEN 40 ELSE 80),
                "pgss_entries_evicted", PgssEvicting(c)))

PgssEntriesEvicted(c) ==
    When(PgssEvicting(c) /\ \E q \in c.queries : q.enabled,
         Confident(Finding("pgss_entries_evicted", "warn", "throughput"), 85))

MissingPgss(c) ==
    When(~\E q \in c.queries : q.enabled, Finding("pg_stat_statements_missing", "info", "cost"))

StaleStatsWindow(c) ==
    When(AtLeast(c.window.days, 30), Finding("stale_stats_window", "info", "cost"))
=============================================================================
