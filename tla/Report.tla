-------------------------------- MODULE Report --------------------------------
(***************************************************************************)
(* The report of a run (internal/model/context.go): what the collectors     *)
(* fill in and the rules of internal/findings read.  A section the run did  *)
(* not collect, and an absent pointer, is the empty set; a collected one is *)
(* a singleton.  Of a section only what a rule reads is kept.               *)
(*                                                                          *)
(* Units: ratios in percent, memory in kB, volumes in MiB, ages in seconds. *)
(***************************************************************************)
EXTENDS Integers, FiniteSets, Sequences

Absent == {}
Given(x) == {x}
The(s) == CHOOSE x \in s : TRUE
AtLeast(s, n) == \E x \in s : x >= n
-----------------------------------------------------------------------------
(* The members of the sections, each as a quiet database shows it.          *)
Table(n) ==
    [name |-> n, live |-> 100000, dead |-> 0, seqScans |-> 0, indexScans |-> 5000,
     mods |-> 0, updates |-> 0, hot |-> 0, analyzed |-> TRUE, vacuumed |-> FALSE,
     autovacuumed |-> TRUE, disabled |-> FALSE, analyzeThreshold |-> Absent,
     analyzeScale |-> Absent, vacuumThreshold |-> Absent, vacuumScale |-> Absent]
Partitioned(n) == [name |-> n, live |-> 100000, seqScans |-> 0, indexScans |-> 5000]
UnusedIndex(n, mib) == [name |-> n, mib |-> mib]
SchemaIndex(n) == [name |-> n, invalid |-> TRUE, ready |-> TRUE, live |-> TRUE]
Replica(n) == [name |-> n, sync |-> "async", lag |-> Absent]
Slot(n) == [name |-> n, active |-> TRUE, mib |-> 0, lost |-> FALSE]
Subscription(n) == [name |-> n, running |-> TRUE]
Holder(source, age) == [source |-> source, xminAge |-> age, openFor |-> 0]
Change(id, before, after) == [id |-> id, before |-> before, after |-> after]
QueryWaits(n) == [query |-> n, count |-> 10, lockShare |-> 0]
Settings ==
    [fsync |-> "on", fullPageWrites |-> "on", autovacuum |-> "on",
     ignoreChecksumFailure |-> "off", dataChecksums |-> "on", trackIOTiming |-> "on",
     archiveMode |-> "on", walLevel |-> "replica", synchronousCommit |-> "on",
     auditLog |-> "write", auditParameter |-> "off", logStatement |-> "none",
     statementTimeout |-> "60s",
     syncNames |-> <<>>,                  \* synchronous_standby_names, by fields
     archiveTimeout |-> <<>>,             \* its number and unit tokens
     workMem |-> <<4, "MB">>, effectiveCacheSize |-> <<4, "GB">>,
     maxConnections |-> Given(100), randomPageCost |-> Given(1),
     autovacuumWorkers |-> Given(3),
     analyzeThreshold |-> Absent, analyzeScale |-> Absent,
     vacuumThreshold |-> Absent, vacuumScale |-> Absent]

(* A report of a primary with nothing to say about it.                      *)
Healthy ==
    [server      |-> [provider |-> "unknown", extensions |-> {"pg_stat_statements"}],
     window      |-> [age |-> Given(864000), seconds |-> 10, days |-> Given(10)],
     health      |-> Given([tps |-> Given(100), rollback |-> Given(0), cacheHit |-> Given(99),
                            cacheBlocks |-> Given(100000), tempRate |-> Given(0)]),
     activity    |-> Given([idleInTx |-> 0, longestXact |-> 0, workers |-> 0, workerAge |-> 0]),
     locks       |-> Given([blocked |-> 0]),
     queries     |-> Given([enabled |-> TRUE, dealloc |-> 0, count |-> 100, max |-> 5000]),
     tables      |-> Given([top |-> {Table("t1"), Table("t2")}, partitioned |-> {Partitioned("p")}]),
     indexes     |-> Given([unused |-> {}, redundant |-> {}, unindexedFKs |-> {}]),
     wal         |-> Given([rate |-> Given(1000), dir |-> Given(1024)]),
     io          |-> Given([timed |-> 100, requested |-> 0]),
     replication |-> Given([isReplica |-> FALSE, replicas |-> {}, slots |-> {}, subs |-> {}]),
     settings    |-> Given(Settings),
     limits      |-> Given([used |-> 50, max |-> 100, xidAge |-> 1000000, mxidAge |-> 1000000]),
     horizon     |-> Given(<<>>),         \* the holders, oldest xmin first
     sequences   |-> Given([pct |-> [s \in {"s1"} |-> 10], narrow |-> {}]),
     progress    |-> Given({}),           \* the operations in flight
     archiver    |-> Given([archivedAge |-> Given(60), failedAge |-> Absent]),
     checksums   |-> Given({}),           \* databases with failures
     standby     |-> Absent,
     collation   |-> Given({}),           \* kinds of what changed version
     identity    |-> Given({}),           \* published tables without identity
     deltas      |-> Given({}),
     waits       |-> Given([available |-> TRUE, samples |-> 100, io |-> 10, lwlock |-> 0,
                            byQuery |-> {QueryWaits("q1")}]),
     schema      |-> Given({})]           \* the indexes of the fingerprint
Sections == DOMAIN Healthy
-----------------------------------------------------------------------------
(* WaitProfile.Thin, Window.ColdWindow, Health.CacheHitUsable.              *)
WaitMinSamples == 20
Thin(w) == w.samples < WaitMinSamples
ColdWindow(c) == \E age \in c.window.age : age < 900
CacheHitMinBlocks == 10000
CacheHitUsable(h) == h.cacheHit # {} /\ AtLeast(h.cacheBlocks, CacheHitMinBlocks)

(* A finding: what the decisions downstream of the rules read of it.        *)
Cluster == <<"cluster", "">>
Relations(names) == {<<"relation", n>> : n \in names}
Finding(id, severity, dim) ==
    [id |-> id, severity |-> severity, dim |-> dim, object |-> Cluster, objects |-> {},
     confidence |-> 100, caveats |-> {}, related |-> {}, cites |-> {}, guards |-> {},
     advises |-> {}, evidence |-> {}]
When(condition, f) == {g \in {f} : condition}
Citing(f, id, condition) == [f EXCEPT !.cites = @ \union When(condition, id)]
Caveat(f, text, condition) == [f EXCEPT !.caveats = @ \union When(condition, text)]
Confident(f, pct) == [f EXCEPT !.confidence = pct]
About(f, class, name) == [f EXCEPT !.object = <<class, name>>]
Over(f, names) == [f EXCEPT !.objects = Relations(names)]
Rank(severity) == CASE severity = "critical" -> 3 [] severity = "warn" -> 2 [] OTHER -> 1

(* prohibition and precondition: what a guard says of a destructive action. *)
(* Advises is the Remediation text that tells to take that action.          *)
Prohibition(f, action) == [f EXCEPT !.guards = @ \union {<<"prohibition", action>>}]
Precondition(f, action) == [f EXCEPT !.guards = @ \union {<<"precondition", action>>}]
Advises(f, action) == [f EXCEPT !.advises = @ \union {action}]

(* settingParam and settingFloat.                                           *)
Setting(c, name) == IF c.settings = {} THEN "" ELSE The(c.settings)[name]
Numeric(c, name) == IF c.settings = {} THEN {} ELSE The(c.settings)[name]
SettingFloat(c, name, default) ==
    IF Numeric(c, name) = {} THEN default ELSE The(Numeric(c, name))

(* hasExtension, replicationInUse, querySlowdownPresent, pgssEvicting.      *)
HasExtension(c, name) == name \in c.server.extensions
ReplicationInUse(c) == \E r \in c.replication : r.replicas # {} \/ r.isReplica
Slowdowns(c) ==
    {d \in UNION c.deltas : d.id = "query.mean_ms" /\ d.before > 0
                             /\ d.after >= 10 /\ d.after >= 2 * d.before}
PgssEvicting(c) == \E q \in c.queries : q.dealloc > 0 \/ (q.max > 0 /\ q.count >= q.max)
CloudProvider(c) ==
    c.server.provider \in {"rds", "aurora", "cloudsql", "azure", "supabase", "neon"}
=============================================================================
