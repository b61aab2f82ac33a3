--------------------------- MODULE ReplicationRules ---------------------------
(***************************************************************************)
(* The rules of internal/findings about failover, WAL archiving, slots and  *)
(* subscriptions.                                                           *)
(***************************************************************************)
EXTENDS Report, FiniteSetsExt, Functions, TLC

(* synchronous_standby_names as its fields: a keyword, if there is one, and *)
(* the number a field starts with (0 when it does not).                     *)
Keyword(f) == f[1]
LeadingInt(f) == f[2]
OrOne(n) == IF n > 0 THEN n ELSE 1
RequiredSyncStandbys(fields) ==
    IF fields = <<>> THEN 0
    ELSE IF Keyword(fields[1]) \in {"ANY", "FIRST"}
      THEN IF Len(fields) >= 2 THEN OrOne(LeadingInt(fields[2])) ELSE 1
      ELSE OrOne(LeadingInt(fields[1]))

Replicas(c) == UNION {r.replicas : r \in c.replication}
WalFlowing(c) == \E w \in c.wal : AtLeast(w.rate, 1)
ReplicaLagCrit == 300

SyncRepDegraded(c) ==
    LET required == IF c.settings = {} THEN 0 ELSE RequiredSyncStandbys(Setting(c, "syncNames"))
        present == {r \in Replicas(c) : r.sync \in {"sync", "quorum"}}
    IN  When(/\ required > 0 /\ Cardinality(present) < required
             /\ Setting(c, "synchronousCommit") \in {"on", "remote_write", "remote_apply"},
             Confident(Finding("sync_rep_degraded", "critical", "risk"), 90))

(* A slip of Lagging: the configured threshold gates the critical one.      *)
LaggingPastWarn(c, tun) == {r \in Replicas(c) : AtLeast(r.lag, tun.replicaLag)}

(* A configured threshold above the critical one does not hide what is past *)
(* the critical one.                                                        *)
Lagging(c, tun) ==
    {r \in Replicas(c) : \E lag \in r.lag : lag >= tun.replicaLag \/ lag >= ReplicaLagCrit}
ReplicaLagTime(c, tun) ==
    LET severity == IF \E r \in Lagging(c, tun) : AtLeast(r.lag, ReplicaLagCrit)
                      THEN "critical" ELSE "warn"
    IN  When(WalFlowing(c) /\ Lagging(c, tun) # {},
             Confident(Finding("replica_lag_time", severity, "risk"), 85))

Gone(c) == \E d \in UNION c.deltas : d.id = "replication.standby_gone"
FailoverReadiness(c, tun) ==
    SyncRepDegraded(c) \union ReplicaLagTime(c, tun)
    \union When(\E s \in c.standby : s.conflicts > 0, Finding("recovery_conflicts", "warn", "risk"))
    \union When(Gone(c), Confident(Finding("replica_disconnected", "warn", "risk"), 80))
-----------------------------------------------------------------------------
(* parsePGDuration: a sum of <<number, unit>> tokens; a number without unit *)
(* counts in the unit of its setting (seconds), an unknown unit fails.      *)
Units == ("" :> 1) @@ [s |-> 1, min |-> 60, h |-> 3600, d |-> 86400]
ParsePGDuration(tokens) ==
    IF tokens = <<>> \/ \E i \in DOMAIN tokens : tokens[i][2] \notin DOMAIN Units THEN Absent
    ELSE Given(FoldFunction(+, 0, [i \in DOMAIN tokens |-> tokens[i][1] * Units[tokens[i][2]]]))

ArchiveStallThreshold(c) ==
    LET timeouts == IF c.settings = {} THEN {} ELSE ParsePGDuration(Setting(c, "archiveTimeout"))
    IN  Max({3600} \union {3 * t : t \in timeouts})

(* The last failure is newer than the last success; a failure counter that  *)
(* rose since the baseline.                                                 *)
Failing(a) == \E f \in a.failedAge : \A s \in a.archivedAge : f < s
ArchiverFailedDelta(c) == \E d \in UNION c.deltas : d.id = "archiver.failed_count" /\ d.after > d.before
ArchivingOn(c) == Setting(c, "archiveMode") \in {"on", "always"}
Stalled(c, a) ==
    /\ ArchivingOn(c) /\ ~Failing(a) /\ WalFlowing(c)
    /\ \E age \in a.archivedAge : age > ArchiveStallThreshold(c)
WalArchiving(c) ==
    LET f(id, base, conf) ==
            LET managed == CloudProvider(c)
            IN  Caveat(Confident(Finding(id, IF managed THEN "info" ELSE base, "risk"), conf),
                       "managed", managed)
    IN  IF c.archiver = {} THEN {} ELSE
        When(Failing(The(c.archiver)) \/ ArchiverFailedDelta(c), f("archiving_failing", "critical", 95))
        \union When(Stalled(c, The(c.archiver)), f("archiving_stalled", "critical", 85))
        \union When(/\ Setting(c, "archiveMode") = "off" /\ Setting(c, "walLevel") # "minimal"
                    /\ ~ReplicationInUse(c), f("archiving_disabled", "warn", 80))
-----------------------------------------------------------------------------
ReplicationSlotRisk(c) ==
    LET slots == UNION {r.slots : r \in c.replication}
        risky == {s \in slots : s.lost \/ (~s.active /\ s.mib >= 512)}
        f(s) == About(Finding("replication_slot_inactive",
                              IF s.lost \/ s.mib >= 8192 THEN "critical" ELSE "warn", "risk"),
                      "slot", s.name)
    IN  {Prohibition(Advises(Confident(f(s), 90), "DROP REPLICATION SLOT"), "DROP REPLICATION SLOT")
           : s \in risky}

(* A slip of SubscriptionDown: the object is not a typed identifier.        *)
SubscriptionDownUntyped(c) ==
    {Confident(Finding("subscription_worker_down", "warn", "risk"), 75)
       : s \in {s \in UNION {r.subs : r \in c.replication} : ~s.running}}

SubscriptionDown(c) ==
    {About(Confident(Finding("subscription_worker_down", "warn", "risk"), 75), "sub", s.name)
       : s \in {s \in UNION {r.subs : r \in c.replication} : ~s.running}}
=============================================================================
