---------------------------- MODULE Decisions_proofs ----------------------------
(***************************************************************************)
(* From a report to what is decided on it.                                  *)
(*                                                                          *)
(* The rules: for every report a run may find, the findings agree with the  *)
(* catalogue and with each other, no configuration hides a critical one, a  *)
(* section that is missing raises nothing, and a measure that rises never   *)
(* lowers its finding.  Each rule is described once, by what it emits; the  *)
(* theorems follow from these descriptions.                                 *)
(*                                                                          *)
(* The decisions: they follow from the rows a run found, for every          *)
(* database, file, calendar and sequence of runs: muting, the exit code,    *)
(* the agreement of the views, and the count of the unused rules.           *)
(***************************************************************************)
EXTENDS Decisions, Findings, FiniteSetTheorems, SequenceTheorems, TLAPS

-----------------------------------------------------------------------------
(* The rules.                                                               *)

(* The fields of a finding, and a finding changed in some of them only.    *)
FieldNames == {"id", "severity", "dim", "object", "objects", "confidence", "caveats", "related",
               "cites", "guards", "advises", "evidence"}
Keeps(g, f, changed) ==
    DOMAIN g = FieldNames /\ \A k \in FieldNames \ changed : g[k] = f[k]

(* What a rule makes: the identity of a finding, the class of its object,   *)
(* and what it owes the reader: the guards it still lacks, the findings it  *)
(* sends to.                                                                *)
HasClass(f, class) ==
    IF f.objects = {} THEN f.object[1] = class ELSE \A o \in f.objects : o[1] = class
Made(f, id, severity, dim, class) ==
    /\ DOMAIN f = FieldNames
    /\ f.id = id /\ f.severity = severity /\ f.dim = dim /\ HasClass(f, class)
Unmet(f) == {action \in f.advises : \A g \in f.guards : g[2] # action}
Owes(f, actions, others) == Unmet(f) \subseteq actions /\ f.related \union f.cites \subseteq others

(* The constructors, field by field: each changes one field.               *)
LEMMA ConfidentKeeps ==
  ASSUME NEW f, DOMAIN f = FieldNames, NEW pct
  PROVE  Keeps(Confident(f, pct), f, {"confidence"})
  BY DEF Confident, Keeps, FieldNames

LEMMA CitingKeeps ==
  ASSUME NEW f, DOMAIN f = FieldNames, NEW id, NEW condition
  PROVE  /\ Keeps(Citing(f, id, condition), f, {"cites"})
         /\ Citing(f, id, condition).cites = f.cites \union When(condition, id)
  BY DEF Citing, Keeps, FieldNames

LEMMA CaveatKeeps ==
  ASSUME NEW f, DOMAIN f = FieldNames, NEW text, NEW condition
  PROVE  Keeps(Caveat(f, text, condition), f, {"caveats"})
  BY DEF Caveat, Keeps, FieldNames

LEMMA AboutKeeps ==
  ASSUME NEW f, DOMAIN f = FieldNames, NEW class, NEW name
  PROVE  /\ Keeps(About(f, class, name), f, {"object"})
         /\ About(f, class, name).object = <<class, name>>
  BY DEF About, Keeps, FieldNames

LEMMA OverKeeps ==
  ASSUME NEW f, DOMAIN f = FieldNames, NEW names
  PROVE  /\ Keeps(Over(f, names), f, {"objects"})
         /\ Over(f, names).objects = Relations(names)
  BY DEF Over, Keeps, FieldNames

LEMMA ProhibitionKeeps ==
  ASSUME NEW f, DOMAIN f = FieldNames, NEW action
  PROVE  /\ Keeps(Prohibition(f, action), f, {"guards"})
         /\ Prohibition(f, action).guards = f.guards \union {<<"prohibition", action>>}
  BY DEF Prohibition, Keeps, FieldNames

LEMMA PreconditionKeeps ==
  ASSUME NEW f, DOMAIN f = FieldNames, NEW action
  PROVE  /\ Keeps(Precondition(f, action), f, {"guards"})
         /\ Precondition(f, action).guards = f.guards \union {<<"precondition", action>>}
  BY DEF Precondition, Keeps, FieldNames

LEMMA AdvisesKeeps ==
  ASSUME NEW f, DOMAIN f = FieldNames, NEW action
  PROVE  /\ Keeps(Advises(f, action), f, {"advises"})
         /\ Advises(f, action).advises = f.advises \union {action}
  BY DEF Advises, Keeps, FieldNames

(* What each constructor makes of a finding: its identity stays, a guard   *)
(* settles what it advises, advice and references are owed.                *)
LEMMA FindingMade ==
  ASSUME NEW id, NEW severity, NEW dim
  PROVE  /\ Made(Finding(id, severity, dim), id, severity, dim, "cluster")
         /\ Owes(Finding(id, severity, dim), {}, {}) /\ Finding(id, severity, dim).objects = {}
<1> DEFINE f == Finding(id, severity, dim)
<1>1. /\ DOMAIN f = FieldNames /\ f.id = id /\ f.severity = severity /\ f.dim = dim
      /\ f.object = Cluster /\ f.objects = {} /\ f.related = {} /\ f.cites = {}
      /\ f.guards = {} /\ f.advises = {}
  BY DEF Finding, FieldNames
<1>2. Cluster[1] = "cluster"
  BY DEF Cluster
<1> HIDE DEF f
<1>3. Made(f, id, severity, dim, "cluster")
  BY <1>1, <1>2, Zenon DEF Made, HasClass
<1>4. Owes(f, {}, {})
  BY <1>1 DEF Owes, Unmet
<1> QED
  BY <1>1, <1>3, <1>4 DEF f

LEMMA Unchanged ==
  ASSUME NEW f, NEW g, NEW id, NEW severity, NEW dim, NEW class, NEW actions, NEW others,
         Made(f, id, severity, dim, class), Owes(f, actions, others),
         NEW field \in {"confidence", "caveats", "evidence"}, Keeps(g, f, {field})
  PROVE  /\ Made(g, id, severity, dim, class) /\ Owes(g, actions, others) /\ g.objects = f.objects
<1>1. /\ DOMAIN g = FieldNames /\ g.id = f.id /\ g.severity = f.severity /\ g.dim = f.dim
      /\ g.object = f.object /\ g.objects = f.objects /\ g.related = f.related /\ g.cites = f.cites
      /\ g.guards = f.guards /\ g.advises = f.advises
  BY DEF Keeps, FieldNames
<1> QED
  BY <1>1, Zenon DEF Made, HasClass, Owes, Unmet

LEMMA ConfidentMade ==
  ASSUME NEW f, NEW id, NEW severity, NEW dim, NEW class, NEW actions, NEW others,
         Made(f, id, severity, dim, class), Owes(f, actions, others), NEW pct
  PROVE  /\ Made(Confident(f, pct), id, severity, dim, class)
         /\ Owes(Confident(f, pct), actions, others) /\ Confident(f, pct).objects = f.objects
  BY Unchanged, ConfidentKeeps, Zenon DEF Made

LEMMA CaveatMade ==
  ASSUME NEW f, NEW id, NEW severity, NEW dim, NEW class, NEW actions, NEW others,
         Made(f, id, severity, dim, class), Owes(f, actions, others), NEW text, NEW condition
  PROVE  /\ Made(Caveat(f, text, condition), id, severity, dim, class)
         /\ Owes(Caveat(f, text, condition), actions, others)
  BY Unchanged, CaveatKeeps, Zenon DEF Made

LEMMA CitingMade ==
  ASSUME NEW f, NEW id, NEW severity, NEW dim, NEW class, NEW actions, NEW others,
         Made(f, id, severity, dim, class), Owes(f, actions, others), NEW other, NEW condition
  PROVE  /\ Made(Citing(f, other, condition), id, severity, dim, class)
         /\ Owes(Citing(f, other, condition), actions, others \union When(condition, other))
<1> DEFINE g == Citing(f, other, condition)
<1>1. Keeps(g, f, {"cites"}) /\ g.cites = f.cites \union When(condition, other)
  BY CitingKeeps DEF Made
<1> HIDE DEF g
<1>2. /\ DOMAIN g = FieldNames /\ g.id = f.id /\ g.severity = f.severity /\ g.dim = f.dim
      /\ g.object = f.object /\ g.objects = f.objects /\ g.related = f.related
      /\ g.guards = f.guards /\ g.advises = f.advises
  BY <1>1 DEF Keeps, FieldNames
<1>3. Unmet(g) = Unmet(f)
  BY <1>2, Zenon DEF Unmet
<1> QED
  BY <1>1, <1>2, <1>3 DEF Made, HasClass, Owes, g

LEMMA AboutMade ==
  ASSUME NEW f, NEW id, NEW severity, NEW dim, NEW class, NEW actions, NEW others,
         Made(f, id, severity, dim, class), Owes(f, actions, others), f.objects = {},
         NEW other, NEW name
  PROVE  /\ Made(About(f, other, name), id, severity, dim, other)
         /\ Owes(About(f, other, name), actions, others)
<1> DEFINE g == About(f, other, name)
<1>1. Keeps(g, f, {"object"}) /\ g.object = <<other, name>>
  BY AboutKeeps DEF Made
<1> HIDE DEF g
<1>2. /\ DOMAIN g = FieldNames /\ g.id = f.id /\ g.severity = f.severity /\ g.dim = f.dim
      /\ g.objects = f.objects /\ g.related = f.related /\ g.cites = f.cites
      /\ g.guards = f.guards /\ g.advises = f.advises
  BY <1>1 DEF Keeps, FieldNames
<1>3. g.object[1] = other
  BY <1>1
<1>4. Made(g, id, severity, dim, other)
  BY <1>2, <1>3 DEF Made, HasClass
<1>5. Owes(g, actions, others)
  BY <1>2, Zenon DEF Owes, Unmet
<1> QED
  BY <1>4, <1>5 DEF g

LEMMA OverMade ==
  ASSUME NEW f, NEW id, NEW severity, NEW dim, NEW class, NEW actions, NEW others,
         Made(f, id, severity, dim, class), Owes(f, actions, others), NEW names, names # {}
  PROVE  /\ Made(Over(f, names), id, severity, dim, "relation") /\ Owes(Over(f, names), actions, others)
         /\ Over(f, names).objects = Relations(names)
<1> DEFINE g == Over(f, names)
<1>1. Keeps(g, f, {"objects"}) /\ g.objects = Relations(names)
  BY OverKeeps DEF Made
<1> HIDE DEF g
<1>2. /\ DOMAIN g = FieldNames /\ g.id = f.id /\ g.severity = f.severity /\ g.dim = f.dim
      /\ g.related = f.related /\ g.cites = f.cites /\ g.guards = f.guards /\ g.advises = f.advises
  BY <1>1 DEF Keeps, FieldNames
<1>3. g.objects # {} /\ \A o \in g.objects : o[1] = "relation"
  <2>1. PICK n \in names : TRUE
    OBVIOUS
  <2>2. <<"relation", n>> \in g.objects
    BY <1>1, Zenon DEF Relations
  <2>3. \A o \in g.objects : \E m : o = <<"relation", m>>
    BY <1>1, Zenon DEF Relations
  <2> QED
    BY <2>2, <2>3
<1>4. Made(g, id, severity, dim, "relation")
  BY <1>2, <1>3 DEF Made, HasClass
<1>5. Owes(g, actions, others)
  BY <1>2, Zenon DEF Owes, Unmet
<1> QED
  BY <1>1, <1>4, <1>5 DEF g

LEMMA GuardMade ==
  ASSUME NEW f, NEW id, NEW severity, NEW dim, NEW class, NEW actions, NEW others,
         Made(f, id, severity, dim, class), Owes(f, actions, others), NEW action
  PROVE  /\ Made(Prohibition(f, action), id, severity, dim, class)
         /\ Owes(Prohibition(f, action), actions \ {action}, others)
         /\ Made(Precondition(f, action), id, severity, dim, class)
         /\ Owes(Precondition(f, action), actions \ {action}, others)
<1>1. ASSUME NEW g, NEW kind, Keeps(g, f, {"guards"}), g.guards = f.guards \union {<<kind, action>>}
      PROVE  Made(g, id, severity, dim, class) /\ Owes(g, actions \ {action}, others)
  <2>1. /\ DOMAIN g = FieldNames /\ g.id = f.id /\ g.severity = f.severity /\ g.dim = f.dim
        /\ g.object = f.object /\ g.objects = f.objects
        /\ g.related = f.related /\ g.cites = f.cites /\ g.advises = f.advises
    BY <1>1 DEF Keeps, FieldNames
  <2>2. \A a \in Unmet(g) : a \in Unmet(f) /\ a # action
    <3>1. <<kind, action>> \in g.guards /\ <<kind, action>>[2] = action
      BY <1>1
    <3>2. \A h \in f.guards : h \in g.guards
      BY <1>1
    <3> QED
      BY <2>1, <3>1, <3>2, Zenon DEF Unmet
  <2>3. Made(g, id, severity, dim, class)
    BY <2>1, Zenon DEF Made, HasClass
  <2> QED
    BY <2>1, <2>2, <2>3 DEF Owes
<1> QED
  BY <1>1, ProhibitionKeeps, PreconditionKeeps DEF Made

LEMMA AdvisesMade ==
  ASSUME NEW f, NEW id, NEW severity, NEW dim, NEW class, NEW actions, NEW others,
         Made(f, id, severity, dim, class), Owes(f, actions, others), NEW action
  PROVE  /\ Made(Advises(f, action), id, severity, dim, class)
         /\ Owes(Advises(f, action), actions \union {action}, others)
<1> DEFINE g == Advises(f, action)
<1>1. Keeps(g, f, {"advises"}) /\ g.advises = f.advises \union {action}
  BY AdvisesKeeps DEF Made
<1> HIDE DEF g
<1>2. /\ DOMAIN g = FieldNames /\ g.id = f.id /\ g.severity = f.severity /\ g.dim = f.dim
      /\ g.object = f.object /\ g.objects = f.objects
      /\ g.related = f.related /\ g.cites = f.cites /\ g.guards = f.guards
  BY <1>1 DEF Keeps, FieldNames
<1>3. Unmet(g) \subseteq Unmet(f) \union {action}
  BY <1>1, <1>2 DEF Unmet
<1>4. Made(g, id, severity, dim, class)
  BY <1>2, Zenon DEF Made, HasClass
<1> QED
  BY <1>2, <1>3, <1>4 DEF Owes, g
-----------------------------------------------------------------------------
(* A finding a rule emits: every destructive action it advises is guarded. *)
Emitted(f, id, severity, dim, class, others) ==
    Made(f, id, severity, dim, class) /\ Owes(f, {}, others)

LEMMA SettingFindingEmits ==
  ASSUME NEW id, NEW severity, NEW dim, NEW setting
  PROVE  Emitted(SettingFinding(id, severity, dim, setting), id, severity, dim, "setting", {})
  BY FindingMade, AboutMade, Zenon DEF SettingFinding, Emitted

LEMMA ConfidentEmits ==
  ASSUME NEW id, NEW severity, NEW dim, NEW pct
  PROVE  /\ Emitted(Finding(id, severity, dim), id, severity, dim, "cluster", {})
         /\ Emitted(Confident(Finding(id, severity, dim), pct), id, severity, dim, "cluster", {})
  BY FindingMade, ConfidentMade, Zenon DEF Emitted

(* More may always be owed.                                                *)
LEMMA OwesLess ==
  ASSUME NEW f, NEW actions, NEW others, Owes(f, actions, others), NEW more, actions \subseteq more
  PROVE  Owes(f, more, others)
  BY DEF Owes

(* Evidence, and the objects of a finding, change nothing of that.         *)
LEMMA EvidenceEmits ==
  ASSUME NEW f, NEW id, NEW severity, NEW dim, NEW class, NEW others,
         Emitted(f, id, severity, dim, class, others),
         NEW what, NEW g, g = [f EXCEPT !.evidence = what]
  PROVE  Emitted(g, id, severity, dim, class, others)
<1>1. Keeps(g, f, {"evidence"})
  BY DEF Emitted, Made, Keeps, FieldNames
<1> QED
  BY <1>1, Unchanged DEF Emitted

LEMMA OverEmits ==
  ASSUME NEW id, NEW severity, NEW dim, NEW pct, NEW names, names # {}
  PROVE  /\ Emitted(Over(Finding(id, severity, dim), names), id, severity, dim, "relation", {})
         /\ Emitted(Over(Confident(Finding(id, severity, dim), pct), names), id, severity, dim, "relation", {})
         /\ Emitted(Confident(Over(Finding(id, severity, dim), names), pct), id, severity, dim, "relation", {})
<1>1. ASSUME NEW f, Emitted(f, id, severity, dim, "cluster", {})
      PROVE  Emitted(Over(f, names), id, severity, dim, "relation", {})
  BY <1>1, OverMade, Zenon DEF Emitted
<1>2. ASSUME NEW f, Emitted(f, id, severity, dim, "relation", {})
      PROVE  Emitted(Confident(f, pct), id, severity, dim, "relation", {})
  BY <1>2, ConfidentMade, Zenon DEF Emitted
<1> QED
  BY <1>1, <1>2, ConfidentEmits, Zenon

(* What each rule of the server emits.                                     *)
LEMMA BlockingChainsEmits ==
  ASSUME NEW c, NEW f \in BlockingChains(c)
  PROVE  Emitted(f, "blocking_chains", "critical", "risk", "cluster", {})
  BY ConfidentEmits, Zenon DEF BlockingChains, When

LEMMA IdleInTransactionEmits ==
  ASSUME NEW c, NEW f \in IdleInTransaction(c)
  PROVE  \E severity \in {"warn", "info"} : Emitted(f, "idle_in_transaction", severity, "risk", "cluster", {})
  BY ConfidentEmits DEF IdleInTransaction, When

LEMMA LongRunningXactEmits ==
  ASSUME NEW c, NEW f \in LongRunningXact(c)
  PROVE  Emitted(f, "long_running_transaction", "warn", "risk", "cluster", {})
  BY ConfidentEmits, Zenon DEF LongRunningXact, When

LEMMA LowCacheHitEmits ==
  ASSUME NEW c, NEW f \in LowCacheHit(c)
  PROVE  Emitted(f, "low_cache_hit", "warn", "throughput", "cluster", {})
  BY ConfidentEmits, Zenon DEF LowCacheHit, When

LEMMA HighRollbacksEmits ==
  ASSUME NEW c, NEW f \in HighRollbacks(c)
  PROVE  Emitted(f, "high_rollback_ratio", "warn", "throughput", "cluster", {})
  BY ConfidentEmits, Zenon DEF HighRollbacks, When

LEMMA WorkMemLowEmits ==
  ASSUME NEW c, NEW f \in WorkMemLow(c)
  PROVE  Emitted(f, "work_mem_low", "warn", "throughput", "setting", {})
  BY SettingFindingEmits, Zenon DEF WorkMemLow, SettingFinding, When

LEMMA CheckpointsForcedEmits ==
  ASSUME NEW c, NEW f \in CheckpointsForced(c)
  PROVE  Emitted(f, "checkpoints_forced", "warn", "throughput", "setting", {})
  BY SettingFindingEmits, Zenon DEF CheckpointsForced, SettingFinding, When

LEMMA WaitFindingsEmits ==
  ASSUME NEW c, NEW f \in WaitFindings(c)
  PROVE  \/ Emitted(f, "wait_lock_contention", "warn", "latency", "cluster", {})
         \/ Emitted(f, "wait_io_bound", "warn", "throughput", "cluster", {})
         \/ Emitted(f, "wait_lwlock_pressure", "warn", "throughput", "cluster", {})
<1>1. PICK pct, id, dim :
        /\ \/ f = Confident(Finding(id, "warn", dim), pct)
           \/ \E what : f = [Confident(Finding(id, "warn", dim), pct) EXCEPT !.evidence = what]
        /\ \/ id = "wait_lock_contention" /\ dim = "latency"
           \/ id = "wait_io_bound" /\ dim = "throughput"
           \/ id = "wait_lwlock_pressure" /\ dim = "throughput"
  <2>1. PICK w \in c.waits :
          LET confidence == IF 40 + w.samples \div 4 < 90 THEN 40 + w.samples \div 4 ELSE 90
              F(id, dim) == Confident(Finding(id, "warn", dim), confidence)
          IN  \/ f \in {[F("wait_lock_contention", "latency") EXCEPT !.evidence = {q.query}] :
                          q \in {q \in w.byQuery : q.count >= 5 /\ q.lockShare > 30}}
              \/ f \in When(w.io > 50, F("wait_io_bound", "throughput"))
              \/ f \in When(w.lwlock > 30, F("wait_lwlock_pressure", "throughput"))
    BY Zenon DEF WaitFindings
  <2> QED
    BY <2>1, Zenon DEF When
<1> DEFINE g == Confident(Finding(id, "warn", dim), pct)
<1>2. Emitted(g, id, "warn", dim, "cluster", {})
  BY ConfidentEmits, Zenon
<1>3. f = g \/ \E what : f = [g EXCEPT !.evidence = what]
  BY <1>1, Zenon
<1> HIDE DEF g
<1>4. Emitted(f, id, "warn", dim, "cluster", {})
  <2>1. CASE \E what : f = [g EXCEPT !.evidence = what]
    <3>1. PICK what : f = [g EXCEPT !.evidence = what]
      BY <2>1
    <3> QED
      BY <1>2, <3>1, EvidenceEmits, Zenon
  <2> QED
    BY <1>2, <1>3, <2>1
<1> QED
  BY <1>1, <1>4

LEMMA ConnectionSaturationEmits ==
  ASSUME NEW c, NEW f \in ConnectionSaturation(c)
  PROVE  \E severity : Emitted(f, "connection_saturation", severity, "risk", "cluster", {})
  BY ConfidentEmits DEF ConnectionSaturation, When

LEMMA ConnectionsOverprovisionedEmits ==
  ASSUME NEW c, NEW f \in ConnectionsOverprovisioned(c)
  PROVE  Emitted(f, "connections_overprovisioned", "info", "cost", "cluster", {})
  BY ConfidentEmits, Zenon DEF ConnectionsOverprovisioned, When

(* A wraparound prohibits VACUUM FULL, whatever its severity.              *)
LEMMA WraparoundEmits ==
  ASSUME NEW id, NEW age, NEW f \in Wraparound(id, age)
  PROVE  \E severity : Emitted(f, id, severity, "risk", "cluster", {})
<1>1. PICK severity : f = Prohibition(Finding(id, severity, "risk"), "VACUUM FULL")
  BY Zenon DEF Wraparound, When
<1>2. Owes(f, {} \ {"VACUUM FULL"}, {}) /\ Made(f, id, severity, "risk", "cluster")
  BY <1>1, FindingMade, GuardMade, Zenon
<1>3. Owes(f, {}, {})
  BY <1>2, OwesLess
<1> QED
  BY <1>2, <1>3, Zenon DEF Emitted

(* The blocked horizon may advise to drop a slot, unguarded, and is of     *)
(* another dimension only when it is critical.                             *)
LEMMA VacuumHorizonBlockedEmits ==
  ASSUME NEW c, NEW f \in VacuumHorizonBlocked(c)
  PROVE  \E severity, dim :
           /\ dim = "storage" \/ (dim = "risk" /\ severity = "critical")
           /\ Made(f, "vacuum_horizon_blocked", severity, dim, "cluster")
           /\ Owes(f, {"DROP REPLICATION SLOT"}, {})
<1>1. PICK h \in c.horizon \ {<<>>} :
        f = HorizonRemediation(Confident(Finding("vacuum_horizon_blocked",
                IF h[1].xminAge >= XidWarn THEN "critical" ELSE "warn",
                IF h[1].xminAge >= XidWarn THEN "risk" ELSE "storage"), 90), h[1].source)
  BY SMT DEF VacuumHorizonBlocked, When
<1>2. PICK severity, dim, source :
        /\ f = HorizonRemediation(Confident(Finding("vacuum_horizon_blocked", severity, dim), 90), source)
        /\ dim = "storage" \/ (dim = "risk" /\ severity = "critical")
  BY <1>1, Zenon
<1> DEFINE g == Confident(Finding("vacuum_horizon_blocked", severity, dim), 90)
<1>3. Made(g, "vacuum_horizon_blocked", severity, dim, "cluster") /\ Owes(g, {}, {})
  BY ConfidentEmits, Zenon DEF Emitted
<1>4. f = Advises(g, "DROP REPLICATION SLOT") \/ f = g
  BY <1>2, Zenon DEF HorizonRemediation
<1> HIDE DEF g
<1>5. Made(f, "vacuum_horizon_blocked", severity, dim, "cluster")
  BY <1>3, <1>4, AdvisesMade, Zenon
<1>6. Owes(g, {"DROP REPLICATION SLOT"}, {})
  BY <1>3 DEF Owes
<1>7. Owes(f, {"DROP REPLICATION SLOT"}, {})
  <2>1. CASE f = Advises(g, "DROP REPLICATION SLOT")
    <3>1. Owes(f, {} \union {"DROP REPLICATION SLOT"}, {})
      BY <1>3, <2>1, AdvisesMade, Zenon
    <3> QED
      BY <3>1, OwesLess
  <2> QED
    BY <1>4, <1>6, <2>1
<1> QED
  BY <1>2, <1>5, <1>7, Zenon

LEMMA PreparedXactAbandonedEmits ==
  ASSUME NEW c, NEW f \in PreparedXactAbandoned(c)
  PROVE  \E severity : Emitted(f, "prepared_xact_abandoned", severity, "risk", "cluster", {})
<1> DEFINE made(h, i) == Confident(Finding("prepared_xact_abandoned",
                           IF h[i].openFor >= 3600 THEN "critical" ELSE "warn", "risk"), 90)
<1>1. PICK h : \E i : f = [made(h, i) EXCEPT !.evidence = {i}]
  <2>1. PICK h \in c.horizon : f \in
          {[made(h, i) EXCEPT !.evidence = {i}]
            : i \in {i \in DOMAIN h : h[i].source = "prepared_xact" /\ h[i].openFor >= 300}}
    BY SMT DEF PreparedXactAbandoned
  <2> QED
    BY <2>1, SMT
<1>2. PICK i : f = [made(h, i) EXCEPT !.evidence = {i}]
  BY <1>1
<1> DEFINE severity == IF h[i].openFor >= 3600 THEN "critical" ELSE "warn"
<1>3. Emitted(made(h, i), "prepared_xact_abandoned", severity, "risk", "cluster", {})
  <2> HIDE DEF severity
  <2>1. Emitted(Confident(Finding("prepared_xact_abandoned", severity, "risk"), 90),
              "prepared_xact_abandoned", severity, "risk", "cluster", {})
    BY ConfidentEmits, Zenon
  <2> QED
    BY <2>1, Zenon DEF severity
<1> HIDE DEF made, severity
<1> QED
  BY <1>2, <1>3, EvidenceEmits, Zenon

LEMMA ConfigSanityEmits ==
  ASSUME NEW c, NEW f \in ConfigSanity(c)
  PROVE  \/ Emitted(f, "fsync_off", "critical", "risk", "setting", {})
         \/ Emitted(f, "full_page_writes_off", "critical", "risk", "setting", {})
         \/ Emitted(f, "autovacuum_off", "critical", "risk", "setting", {})
         \/ Emitted(f, "random_page_cost_high", "warn", "latency", "setting", {})
         \/ Emitted(f, "work_mem_overcommit", "warn", "risk", "setting", {})
         \/ Emitted(f, "statement_timeout_unset", "info", "risk", "setting", {})
  BY SettingFindingEmits, Zenon DEF ConfigSanity, When

LEMMA IOTimingOffEmits ==
  ASSUME NEW c, NEW f \in IOTimingOff(c)
  PROVE  Emitted(f, "io_timing_off", "info", "throughput", "setting", {})
  BY SettingFindingEmits, Zenon DEF IOTimingOff, When

LEMMA AuditPostureEmits ==
  ASSUME NEW c, NEW f \in AuditPosture(c)
  PROVE  \/ Emitted(f, "pgaudit_silent", "warn", "risk", "setting", {})
         \/ Emitted(f, "pgaudit_logs_parameters", "warn", "risk", "setting", {})
         \/ Emitted(f, "pgaudit_double_logging", "info", "throughput", "setting", {})
  BY SettingFindingEmits, Zenon DEF AuditPosture, When

LEMMA ChecksumFindingsEmits ==
  ASSUME NEW c, NEW f \in ChecksumFindings(c)
  PROVE  \/ Emitted(f, "checksum_failures", "critical", "risk", "db", {})
         \/ Emitted(f, "ignore_checksum_failure_on", "critical", "risk", "setting", {})
         \/ Emitted(f, "checksums_disabled", "info", "risk", "setting", {})
<1> DEFINE failures == UNION c.checksums
           objects == {<<"db", d>> : d \in failures}
           corrupt == [Finding("checksum_failures", "critical", "risk") EXCEPT !.objects = objects]
<1>1. ASSUME failures # {}
      PROVE  Emitted(corrupt, "checksum_failures", "critical", "risk", "db", {})
  <2> DEFINE bare == Finding("checksum_failures", "critical", "risk")
  <2>1. objects # {} /\ \A o \in objects : o[1] = "db"
    <3>1. PICK d \in failures : TRUE
      BY <1>1
    <3>2. <<"db", d>> \in objects
      BY <3>1, Zenon
    <3>3. \A o \in objects : \E m : o = <<"db", m>>
      BY Zenon
    <3> HIDE DEF objects
    <3> QED
      BY <3>2, <3>3
  <2>2. Made(bare, "checksum_failures", "critical", "risk", "cluster") /\ Owes(bare, {}, {})
    BY FindingMade, Zenon
  <2> HIDE DEF objects, bare
  <2>3. /\ DOMAIN [bare EXCEPT !.objects = objects] = FieldNames
        /\ \A k \in FieldNames \ {"objects"} : [bare EXCEPT !.objects = objects][k] = bare[k]
        /\ [bare EXCEPT !.objects = objects].objects = objects
    BY <2>2 DEF Made, FieldNames
  <2> DEFINE g == [bare EXCEPT !.objects = objects]
  <2> HIDE DEF g
  <2>4. /\ DOMAIN g = FieldNames /\ g.id = bare.id /\ g.severity = bare.severity /\ g.dim = bare.dim
        /\ g.objects = objects
        /\ g.related = bare.related /\ g.cites = bare.cites
        /\ g.guards = bare.guards /\ g.advises = bare.advises
    BY <2>3 DEF g, FieldNames
  <2>5. Made(g, "checksum_failures", "critical", "risk", "db")
    BY <2>1, <2>2, <2>4 DEF Made, HasClass
  <2>6. Owes(g, {}, {})
    BY <2>2, <2>4, Zenon DEF Owes, Unmet
  <2> QED
    BY <2>5, <2>6 DEF Emitted, g, bare
<1> HIDE DEF corrupt
<1>2. ASSUME failures # {}
      PROVE  Emitted(Prohibition(Prohibition(corrupt, "VACUUM FULL"), "REINDEX"),
                   "checksum_failures", "critical", "risk", "db", {})
  <2> DEFINE once == Prohibition(corrupt, "VACUUM FULL")
             f2 == Prohibition(once, "REINDEX")
  <2>1. /\ Made(once, "checksum_failures", "critical", "risk", "db")
        /\ Owes(once, {} \ {"VACUUM FULL"}, {})
    BY <1>1, <1>2, GuardMade, Zenon DEF Emitted
  <2> HIDE DEF once
  <2>2. /\ Made(f2, "checksum_failures", "critical", "risk", "db")
        /\ Owes(f2, ({} \ {"VACUUM FULL"}) \ {"REINDEX"}, {})
    BY <2>1, GuardMade, Zenon
  <2> HIDE DEF f2
  <2>3. Owes(f2, {}, {})
    BY <2>2, OwesLess
  <2> QED
    BY <2>2, <2>3, Zenon DEF Emitted, f2, once
<1>3. \/ f \in When(failures # {}, Prohibition(Prohibition(corrupt, "VACUUM FULL"), "REINDEX"))
      \/ \E condition : f \in When(condition, SettingFinding("ignore_checksum_failure_on", "critical",
                                                             "risk", "ignore_checksum_failure"))
      \/ \E condition : f \in When(condition, SettingFinding("checksums_disabled", "info", "risk",
                                                             "data_checksums"))
  BY Zenon DEF ChecksumFindings, corrupt
<1> QED
  BY <1>2, <1>3, SettingFindingEmits, Zenon DEF When

(* A change of collation advises to reindex, unguarded.                    *)
LEMMA CollationVersionMismatchEmits ==
  ASSUME NEW c, NEW f \in CollationVersionMismatch(c)
  PROVE  \E severity :
           /\ Made(f, "collation_version_mismatch", severity, "risk", "db")
           /\ Owes(f, {"REINDEX"}, {})
  BY FindingMade, AboutMade, AdvisesMade DEF CollationVersionMismatch, Emitted, When

LEMMA ReplicaIdentityMissingEmits ==
  ASSUME NEW c, NEW f \in ReplicaIdentityMissing(c)
  PROVE  Emitted(f, "replica_identity_missing", "critical", "risk", "relation", {})
  BY OverEmits, Zenon DEF ReplicaIdentityMissing, When

LEMMA QuerySlowdownEmits ==
  ASSUME NEW c, NEW f \in QuerySlowdown(c)
  PROVE  Emitted(f, "query_slowdown", "warn", "latency", "cluster", When(PgssEvicting(c), "pgss_entries_evicted"))
<1>1. PICK pct : f = Citing(Confident(Finding("query_slowdown", "warn", "latency"), pct),
                            "pgss_entries_evicted", PgssEvicting(c))
  BY Zenon DEF QuerySlowdown, When
<1> DEFINE g == Confident(Finding("query_slowdown", "warn", "latency"), pct)
<1>2. Made(g, "query_slowdown", "warn", "latency", "cluster") /\ Owes(g, {}, {})
  BY ConfidentEmits, Zenon DEF Emitted
<1>3. f = Citing(g, "pgss_entries_evicted", PgssEvicting(c))
  BY <1>1
<1> HIDE DEF g
<1> QED
  BY <1>2, <1>3, CitingMade DEF Emitted

LEMMA PgssEntriesEvictedEmits ==
  ASSUME NEW c, NEW f \in PgssEntriesEvicted(c)
  PROVE  Emitted(f, "pgss_entries_evicted", "warn", "throughput", "cluster", {})
  BY ConfidentEmits, Zenon DEF PgssEntriesEvicted, When

LEMMA MissingPgssEmits ==
  ASSUME NEW c, NEW f \in MissingPgss(c)
  PROVE  Emitted(f, "pg_stat_statements_missing", "info", "cost", "cluster", {})
  BY ConfidentEmits, Zenon DEF MissingPgss, When

LEMMA StaleStatsWindowEmits ==
  ASSUME NEW c, NEW f \in StaleStatsWindow(c)
  PROVE  Emitted(f, "stale_stats_window", "info", "cost", "cluster", {})
  BY ConfidentEmits, Zenon DEF StaleStatsWindow, When
-----------------------------------------------------------------------------
(* An action that is advised and guarded is owed no more.                  *)
LEMMA GuardedActionEmits ==
  ASSUME NEW f, NEW id, NEW severity, NEW dim, NEW class, NEW action,
         Made(f, id, severity, dim, class), Owes(f, {action}, {})
  PROVE  /\ Emitted(Precondition(f, action), id, severity, dim, class, {})
         /\ Emitted(Prohibition(f, action), id, severity, dim, class, {})
<1>1. {action} \ {action} \subseteq {}
  OBVIOUS
<1>2. /\ Made(Prohibition(f, action), id, severity, dim, class)
      /\ Owes(Prohibition(f, action), {action} \ {action}, {})
      /\ Made(Precondition(f, action), id, severity, dim, class)
      /\ Owes(Precondition(f, action), {action} \ {action}, {})
  BY GuardMade, Zenon
<1> QED
  BY <1>1, <1>2, OwesLess, Zenon DEF Emitted

LEMMA OverObjects ==
  ASSUME NEW id, NEW severity, NEW dim, NEW names, names # {}
  PROVE  Over(Finding(id, severity, dim), names).objects = Relations(names)
  BY FindingMade, OverMade, Zenon

LEMMA AdvisedAction ==
  ASSUME NEW f, NEW id, NEW severity, NEW dim, NEW class, NEW action,
         Emitted(f, id, severity, dim, class, {})
  PROVE  /\ Made(Advises(f, action), id, severity, dim, class)
         /\ Owes(Advises(f, action), {action}, {})
<1>1. {} \union {action} \subseteq {action}
  OBVIOUS
<1>2. /\ Made(Advises(f, action), id, severity, dim, class)
      /\ Owes(Advises(f, action), {} \union {action}, {})
  BY AdvisesMade, Zenon DEF Emitted
<1> QED
  BY <1>1, <1>2, OwesLess, Zenon

(* What each rule of tables, indexes and sequences emits.                  *)
LEMMA InvalidIndexesEmits ==
  ASSUME NEW c, NEW f \in InvalidIndexes(c)
  PROVE  \E severity : Emitted(f, "index_invalid", severity, "risk", "relation", {})
<1> DEFINE found == {o \in UNION c.schema : o.invalid}
           maintained == {o \in found : o.live /\ o.ready}
           severity == IF maintained # {} /\ ~CreateIndexInProgress(c) THEN "critical" ELSE "warn"
           over == Over(Finding("index_invalid", severity, "risk"), Names(found))
           advice == Advises(over, "DROP INDEX")
<1>1. /\ f = Prohibition(Confident(advice, 50), "DROP INDEX") \/ f = Precondition(advice, "DROP INDEX")
      /\ found # {}
  BY Zenon DEF InvalidIndexes, Some, When
<1>2. Names(found) # {}
  BY <1>1 DEF Names
<1> HIDE DEF found, severity
<1>3. Emitted(over, "index_invalid", severity, "risk", "relation", {})
  BY <1>2, OverEmits, Zenon
<1> HIDE DEF over
<1>4. Made(advice, "index_invalid", severity, "risk", "relation") /\ Owes(advice, {"DROP INDEX"}, {})
  BY <1>3, AdvisedAction, Zenon
<1> HIDE DEF advice
<1>5. /\ Made(Confident(advice, 50), "index_invalid", severity, "risk", "relation")
      /\ Owes(Confident(advice, 50), {"DROP INDEX"}, {})
  BY <1>4, ConfidentMade, Zenon
<1> QED
  BY <1>1, <1>4, <1>5, GuardedActionEmits, Zenon

LEMMA UnusedIndexesEmits ==
  ASSUME NEW c, NEW tun, NEW f \in UnusedIndexes(c, tun)
  PROVE  Emitted(f, "unused_indexes", "warn", "storage", "relation", {})
<1> DEFINE found == {i \in UNION {s.unused : s \in c.indexes} : i.mib >= tun.unusedIndexMin}
           young == \E age \in c.window.age : age > 0 /\ age < ShortStatsWindow
           over == Over(Confident(Finding("unused_indexes", "warn", "storage"),
                                  IF young THEN 40 ELSE 80), Names(found))
           advice == Advises(over, "DROP INDEX")
           caveat == Caveat(advice, "per_node", ReplicationInUse(c))
<1>1. f = Precondition(caveat, "DROP INDEX") /\ found # {}
  BY Zenon DEF UnusedIndexes, When
<1>2. Names(found) # {}
  BY <1>1 DEF Names
<1> HIDE DEF found
<1>3. Emitted(over, "unused_indexes", "warn", "storage", "relation", {})
  BY <1>2, OverEmits, Zenon
<1> HIDE DEF over
<1>4. Made(advice, "unused_indexes", "warn", "storage", "relation") /\ Owes(advice, {"DROP INDEX"}, {})
  BY <1>3, AdvisedAction, Zenon
<1> HIDE DEF advice
<1>5. /\ Made(caveat, "unused_indexes", "warn", "storage", "relation")
      /\ Owes(caveat, {"DROP INDEX"}, {})
  BY <1>4, CaveatMade
<1> QED
  BY <1>1, <1>5, GuardedActionEmits, Zenon

LEMMA RedundantIndexesEmits ==
  ASSUME NEW c, NEW f \in RedundantIndexes(c)
  PROVE  Emitted(f, "redundant_indexes", "info", "storage", "relation", {})
<1> DEFINE found == UNION {s.redundant : s \in c.indexes}
           over == Over(Confident(Finding("redundant_indexes", "info", "storage"), 75), found)
           advice == Advises(over, "DROP INDEX")
           caveat == Caveat(advice, "per_node", ReplicationInUse(c))
<1>1. f = Precondition(caveat, "DROP INDEX") /\ found # {}
  BY Zenon DEF RedundantIndexes, Some, When
<1> HIDE DEF found
<1>3. Emitted(over, "redundant_indexes", "info", "storage", "relation", {})
  BY <1>1, OverEmits, Zenon
<1> HIDE DEF over
<1>4. Made(advice, "redundant_indexes", "info", "storage", "relation") /\ Owes(advice, {"DROP INDEX"}, {})
  BY <1>3, AdvisedAction, Zenon
<1> HIDE DEF advice
<1>5. /\ Made(caveat, "redundant_indexes", "info", "storage", "relation")
      /\ Owes(caveat, {"DROP INDEX"}, {})
  BY <1>4, CaveatMade
<1> QED
  BY <1>1, <1>5, GuardedActionEmits, Zenon

LEMMA UnindexedForeignKeysEmits ==
  ASSUME NEW c, NEW f \in UnindexedForeignKeys(c)
  PROVE  Emitted(f, "fk_unindexed", "warn", "latency", "relation", {})
<1>1. PICK found : found # {} /\ f = Over(Finding("fk_unindexed", "warn", "latency"), found)
  BY Zenon DEF UnindexedForeignKeys, Some, When
<1> QED
  BY <1>1, OverEmits, Zenon

LEMMA NamesOfSome == ASSUME NEW rows, rows # {} PROVE Names(rows) # {}
  BY DEF Names

LEMMA BloatedTablesEmits ==
  ASSUME NEW c, NEW tun, NEW f \in BloatedTables(c, tun)
  PROVE  Emitted(f, "table_bloat", "warn", "storage", "relation",
               When(HorizonBlocked(c), "vacuum_horizon_blocked"))
<1>1. PICK found : /\ found # {}
                   /\ f = Citing(Confident(Over(Finding("table_bloat", "warn", "storage"), Names(found)), 70),
                                 "vacuum_horizon_blocked", HorizonBlocked(c))
  BY Zenon DEF BloatedTables, Some, When
<1> DEFINE over == Confident(Over(Finding("table_bloat", "warn", "storage"), Names(found)), 70)
<1>2. Emitted(over, "table_bloat", "warn", "storage", "relation", {})
  BY <1>1, OverEmits, NamesOfSome, Zenon
<1> HIDE DEF over
<1>3. f = Citing(over, "vacuum_horizon_blocked", HorizonBlocked(c))
  BY <1>1 DEF over
<1> QED
  BY <1>2, <1>3, CitingMade DEF Emitted

LEMMA PartitionSeqScanHeavyEmits ==
  ASSUME NEW c, NEW f \in PartitionSeqScanHeavy(c)
  PROVE  Emitted(f, "partition_seq_scan_heavy", "warn", "latency", "relation", {})
  BY OverEmits, NamesOfSome, Zenon DEF PartitionSeqScanHeavy, When

LEMMA SeqScanHeavyEmits ==
  ASSUME NEW c, NEW f \in SeqScanHeavy(c)
  PROVE  Emitted(f, "seq_scan_heavy", "warn", "throughput", "relation", {})
  BY OverEmits, NamesOfSome, Zenon DEF SeqScanHeavy, When

LEMMA LowHotUpdateRatioEmits ==
  ASSUME NEW c, NEW f \in LowHotUpdateRatio(c)
  PROVE  Emitted(f, "low_hot_update_ratio", "warn", "throughput", "relation", {})
<1>1. PICK found :
        found # {} /\ f = Over(Finding("low_hot_update_ratio", "warn", "throughput"), Names(found))
  BY Zenon DEF LowHotUpdateRatio, Some, When
<1> QED
  BY <1>1, OverEmits, NamesOfSome, Zenon

LEMMA AutovacuumHealthEmits ==
  ASSUME NEW c, NEW f \in AutovacuumHealth(c)
  PROVE  \/ Emitted(f, "autovacuum_disabled_on_table", "critical", "risk", "relation", {})
         \/ /\ Emitted(f, "table_never_vacuumed", "warn", "risk", "relation", {})
            /\ f.objects = Relations(Names(NeverVacuumed(c)))
         \/ /\ Emitted(f, "autovacuum_starved", "warn", "storage", "relation", {})
            /\ f.objects = Relations(Names(Starved(c)))
         \/ Emitted(f, "autovacuum_saturated", "warn", "throughput", "cluster", {})
         \/ Emitted(f, "autovacuum_long_running", "info", "throughput", "cluster", {})
<1>1. ASSUME NEW id, NEW severity, NEW dim, NEW found,
             f \in Some(Over(Finding(id, severity, dim), Names(found)), found)
      PROVE  Emitted(f, id, severity, dim, "relation", {}) /\ f.objects = Relations(Names(found))
  <2>1. Names(found) # {} /\ f = Over(Finding(id, severity, dim), Names(found))
    BY <1>1, NamesOfSome, Zenon DEF Some, When
  <2> QED
    BY <2>1, OverEmits, OverObjects, Zenon
<1>2. ASSUME NEW condition \in BOOLEAN, NEW id, NEW severity, NEW dim,
             f \in When(condition, Finding(id, severity, dim))
      PROVE  Emitted(f, id, severity, dim, "cluster", {})
  BY <1>2, ConfidentEmits, Zenon DEF When
<1>3. \/ f \in Some(Over(Finding("autovacuum_disabled_on_table", "critical", "risk"),
                         Names(Disabled(c))), Disabled(c))
      \/ f \in Some(Over(Finding("table_never_vacuumed", "warn", "risk"),
                         Names(NeverVacuumed(c))), NeverVacuumed(c))
      \/ f \in Some(Over(Finding("autovacuum_starved", "warn", "storage"), Names(Starved(c))), Starved(c))
      \/ f = Finding("autovacuum_saturated", "warn", "throughput")
      \/ f = Finding("autovacuum_long_running", "info", "throughput")
  BY Zenon DEF AutovacuumHealth, When
<1> QED
  BY <1>1, <1>3, ConfidentEmits, Zenon

LEMMA StaleStatisticsEmits ==
  ASSUME NEW c, NEW f \in StaleStatistics(c)
  PROVE  \/ /\ Emitted(f, "stale_statistics", "warn", "latency", "relation",
                     When(Slowdowns(c) # {}, "query_slowdown"))
            /\ f.objects = Relations(Names(Stale(c)))
         \/ /\ Emitted(f, "never_analyzed", "warn", "latency", "relation", {})
            /\ f.objects = Relations(Names(NeverAnalyzed(c)))
<1> DEFINE stale == Over(Finding("stale_statistics", "warn", "latency"), Names(Stale(c)))
           others == When(Slowdowns(c) # {}, "query_slowdown")
<1>1. \/ Stale(c) # {} /\ f = [stale EXCEPT !.related = others]
      \/ /\ NeverAnalyzed(c) # {}
         /\ f = Over(Finding("never_analyzed", "warn", "latency"), Names(NeverAnalyzed(c)))
  BY Zenon DEF StaleStatistics, Some, When
<1>2. CASE NeverAnalyzed(c) # {} /\ f = Over(Finding("never_analyzed", "warn", "latency"),
                                             Names(NeverAnalyzed(c)))
  BY <1>2, NamesOfSome, OverEmits, OverObjects, Zenon
<1>3. CASE Stale(c) # {} /\ f = [stale EXCEPT !.related = others]
  <2>1. /\ Emitted(stale, "stale_statistics", "warn", "latency", "relation", {})
        /\ stale.objects = Relations(Names(Stale(c)))
    BY <1>3, NamesOfSome, OverEmits, OverObjects, Zenon
  <2> HIDE DEF stale, others
  <2>2. /\ DOMAIN f = FieldNames /\ f.related = others
        /\ \A k \in FieldNames \ {"related"} : f[k] = stale[k]
    BY <1>3, <2>1 DEF Emitted, Made, FieldNames
  <2>3. /\ f.id = stale.id /\ f.severity = stale.severity /\ f.dim = stale.dim
        /\ f.object = stale.object /\ f.objects = stale.objects /\ f.cites = stale.cites
        /\ f.guards = stale.guards /\ f.advises = stale.advises
    BY <2>2 DEF FieldNames
  <2>4. Made(f, "stale_statistics", "warn", "latency", "relation")
    BY <2>1, <2>2, <2>3, Zenon DEF Emitted, Made, HasClass
  <2>5. Unmet(f) = Unmet(stale)
    BY <2>3, Zenon DEF Unmet
  <2>6. Owes(f, {}, others)
    BY <2>1, <2>2, <2>3, <2>5 DEF Emitted, Owes
  <2> QED
    BY <2>1, <2>3, <2>4, <2>6 DEF Emitted, others
<1> QED
  BY <1>1, <1>2, <1>3

LEMMA WideningEmits ==
  ASSUME NEW f, NEW id, NEW severity, Emitted(f, id, severity, "risk", "relation", {})
  PROVE  Emitted(Widening(f), id, severity, "risk", "relation", {})
  BY AdvisedAction, GuardedActionEmits, Zenon DEF Widening

LEMMA SequenceExhaustionEmits ==
  ASSUME NEW c, NEW f \in SequenceExhaustion(c)
  PROVE  \E severity : Emitted(f, "sequence_exhaustion", severity, "risk", "relation", {})
<1>1. PICK names, severity : /\ names # {}
                   /\ f = Widening(Over(Finding("sequence_exhaustion", severity, "risk"), names))
  BY Zenon DEF SequenceExhaustion, Some, When
<1> QED
  BY <1>1, OverEmits, WideningEmits, Zenon

LEMMA Int4IdentityColumnEmits ==
  ASSUME NEW c, NEW f \in Int4IdentityColumn(c)
  PROVE  \E severity : Emitted(f, "int4_identity_column", severity, "risk", "relation", {})
<1>1. PICK found, severity : /\ found # {}
                   /\ f = Widening(Over(Finding("int4_identity_column", severity, "risk"), Names(found)))
  BY Zenon DEF Int4IdentityColumn, Some, When
<1> QED
  BY <1>1, OverEmits, NamesOfSome, WideningEmits, Zenon

(* What each rule of replication and archiving emits.                      *)
LEMMA SyncRepDegradedEmits ==
  ASSUME NEW c, NEW f \in SyncRepDegraded(c)
  PROVE  Emitted(f, "sync_rep_degraded", "critical", "risk", "cluster", {})
  BY ConfidentEmits, Zenon DEF SyncRepDegraded, When

LEMMA ReplicaLagTimeEmits ==
  ASSUME NEW c, NEW tun, NEW f \in ReplicaLagTime(c, tun)
  PROVE  \E severity \in {"critical", "warn"} : Emitted(f, "replica_lag_time", severity, "risk", "cluster", {})
  BY ConfidentEmits, Zenon DEF ReplicaLagTime, When

LEMMA FailoverReadinessEmits ==
  ASSUME NEW c, NEW tun, NEW f \in FailoverReadiness(c, tun)
  PROVE  \/ Emitted(f, "sync_rep_degraded", "critical", "risk", "cluster", {})
         \/ \E severity : Emitted(f, "replica_lag_time", severity, "risk", "cluster", {})
         \/ Emitted(f, "recovery_conflicts", "warn", "risk", "cluster", {})
         \/ Emitted(f, "replica_disconnected", "warn", "risk", "cluster", {})
  BY ConfidentEmits, SyncRepDegradedEmits, ReplicaLagTimeEmits, Zenon DEF FailoverReadiness, When

LEMMA WalArchivingEmits ==
  ASSUME NEW c, NEW f \in WalArchiving(c)
  PROVE  \/ \E severity : Emitted(f, "archiving_failing", severity, "risk", "cluster", {})
         \/ \E severity : Emitted(f, "archiving_stalled", severity, "risk", "cluster", {})
         \/ \E severity : Emitted(f, "archiving_disabled", severity, "risk", "cluster", {})
<1>1. PICK id, severity, pct :
         /\ f = Caveat(Confident(Finding(id, severity, "risk"), pct), "managed", CloudProvider(c))
         /\ id \in {"archiving_failing", "archiving_stalled", "archiving_disabled"}
  BY Zenon DEF WalArchiving, When
<1> DEFINE g == Confident(Finding(id, severity, "risk"), pct)
<1>2. Emitted(g, id, severity, "risk", "cluster", {})
  BY ConfidentEmits, Zenon
<1>3. f = Caveat(g, "managed", CloudProvider(c))
  BY <1>1
<1> HIDE DEF g
<1>4. Emitted(f, id, severity, "risk", "cluster", {})
  BY <1>2, <1>3, CaveatMade DEF Emitted
<1> QED
  BY <1>1, <1>4

LEMMA ReplicationSlotRiskEmits ==
  ASSUME NEW c, NEW f \in ReplicationSlotRisk(c)
  PROVE  \E severity : Emitted(f, "replication_slot_inactive", severity, "risk", "slot", {})
<1> DEFINE slots == UNION {r.slots : r \in c.replication}
           risky == {s \in slots : s.lost \/ (~s.active /\ s.mib >= 512)}
           F(s) == About(Finding("replication_slot_inactive",
                                 IF s.lost \/ s.mib >= 8192 THEN "critical" ELSE "warn", "risk"),
                         "slot", s.name)
<1>1. PICK s : f = Prohibition(Advises(Confident(F(s), 90), "DROP REPLICATION SLOT"),
                               "DROP REPLICATION SLOT")
  <2>1. ReplicationSlotRisk(c)
          = {Prohibition(Advises(Confident(F(s), 90), "DROP REPLICATION SLOT"),
                         "DROP REPLICATION SLOT") : s \in risky}
    BY DEF ReplicationSlotRisk
  <2> HIDE DEF F, risky
  <2> QED
    BY <2>1, Zenon
<1> DEFINE severity == IF s.lost \/ s.mib >= 8192 THEN "critical" ELSE "warn"
           name == s.name
<1> DEFINE about == About(Finding("replication_slot_inactive", severity, "risk"), "slot", name)
           sure == Confident(about, 90)
           advice == Advises(sure, "DROP REPLICATION SLOT")
<1> HIDE DEF severity
<1>2. Emitted(about, "replication_slot_inactive", severity, "risk", "slot", {})
  BY FindingMade, AboutMade, Zenon DEF Emitted
<1> HIDE DEF about
<1>3. Emitted(sure, "replication_slot_inactive", severity, "risk", "slot", {})
  BY <1>2, ConfidentMade, Zenon DEF Emitted
<1> HIDE DEF sure
<1>4. /\ Made(advice, "replication_slot_inactive", severity, "risk", "slot")
      /\ Owes(advice, {"DROP REPLICATION SLOT"}, {})
  BY <1>3, AdvisedAction, Zenon
<1>5. f = Prohibition(advice, "DROP REPLICATION SLOT")
  BY <1>1 DEF about, sure, severity
<1> HIDE DEF advice
<1> QED
  BY <1>4, <1>5, GuardedActionEmits, Zenon

LEMMA SubscriptionDownEmits ==
  ASSUME NEW c, NEW f \in SubscriptionDown(c)
  PROVE  Emitted(f, "subscription_worker_down", "warn", "risk", "sub", {})
<1>1. PICK name :
        f = About(Confident(Finding("subscription_worker_down", "warn", "risk"), 75), "sub", name)
  BY Zenon DEF SubscriptionDown
<1> DEFINE g == Confident(Finding("subscription_worker_down", "warn", "risk"), 75)
<1>2. Emitted(g, "subscription_worker_down", "warn", "risk", "cluster", {}) /\ g.objects = {}
  <2> DEFINE bare == Finding("subscription_worker_down", "warn", "risk")
  <2>1. /\ Made(bare, "subscription_worker_down", "warn", "risk", "cluster")
        /\ Owes(bare, {}, {}) /\ bare.objects = {}
    BY FindingMade, Zenon
  <2> HIDE DEF bare
  <2>2. /\ Made(Confident(bare, 75), "subscription_worker_down", "warn", "risk", "cluster")
        /\ Owes(Confident(bare, 75), {}, {}) /\ Confident(bare, 75).objects = {}
    BY <2>1, ConfidentMade
  <2> QED
    BY <2>2, Zenon DEF Emitted, bare
<1>3. f = About(g, "sub", name)
  BY <1>1
<1> HIDE DEF g
<1> QED
  BY <1>2, <1>3, AboutMade, Zenon DEF Emitted
-----------------------------------------------------------------------------
(* The rules no threshold of a configuration reaches.                       *)
Untuned(c) ==
    UNION {
        BlockingChains(c), InvalidIndexes(c), RedundantIndexes(c),
        UnindexedForeignKeys(c), SeqScanHeavy(c), PartitionSeqScanHeavy(c),
        StaleStatistics(c), AutovacuumHealth(c), LowHotUpdateRatio(c), LowCacheHit(c),
        IdleInTransaction(c), LongRunningXact(c), ConnectionSaturation(c), TxidWraparound(c),
        MxidWraparound(c), SequenceExhaustion(c), Int4IdentityColumn(c), WalArchiving(c),
        ChecksumFindings(c), CollationVersionMismatch(c), ReplicaIdentityMissing(c),
        ReplicationSlotRisk(c), SubscriptionDown(c),
        VacuumHorizonBlocked(c), PreparedXactAbandoned(c), QuerySlowdown(c), WorkMemLow(c),
        CheckpointsForced(c), ConnectionsOverprovisioned(c), IOTimingOff(c), ConfigSanity(c),
        AuditPosture(c), WaitFindings(c), HighRollbacks(c), MissingPgss(c), PgssEntriesEvicted(c),
        StaleStatsWindow(c)}
Tuned(c, tun) == UnusedIndexes(c, tun) \union BloatedTables(c, tun) \union FailoverReadiness(c, tun)

(* A configuration reaches three rules.                                    *)
LEMMA RulesByTuning ==
  ASSUME NEW c, NEW tun
  PROVE  ComputeWithTunables(c, tun) = Untuned(c) \union Tuned(c, tun)
  BY DEF ComputeWithTunables, Untuned, Tuned

(* Two of them never emit a critical finding.                              *)
LEMMA OnlyWarns ==
  ASSUME NEW c, NEW tun, NEW f \in UnusedIndexes(c, tun) \union BloatedTables(c, tun)
  PROVE  f.severity = "warn"
  BY UnusedIndexesEmits, BloatedTablesEmits, Zenon DEF Emitted, Made

(* The third keeps what is past the critical lag, whatever the configured  *)
(* one.                                                                    *)
LEMMA LagPastCritical ==
  ASSUME NEW c, NEW tun
  PROVE  (\E r \in Lagging(c, tun) : AtLeast(r.lag, ReplicaLagCrit))
           <=> \E r \in Replicas(c) : AtLeast(r.lag, ReplicaLagCrit)
  BY DEF Lagging, AtLeast

LEMMA LagCriticalWhateverTuned ==
  ASSUME NEW c, NEW t1, NEW t2, NEW f \in ReplicaLagTime(c, t1), f.severity = "critical"
  PROVE  f \in ReplicaLagTime(c, t2)
<1> DEFINE past == \E r \in Replicas(c) : AtLeast(r.lag, ReplicaLagCrit)
           made(severity) == Confident(Finding("replica_lag_time", severity, "risk"), 85)
<1>1. ASSUME NEW tun
      PROVE  ReplicaLagTime(c, tun) = When(WalFlowing(c) /\ Lagging(c, tun) # {},
                                           made(IF past THEN "critical" ELSE "warn"))
  BY LagPastCritical, Zenon DEF ReplicaLagTime
<1>2. made("warn").severity = "warn"
  BY DEF Confident, Finding
<1>3. past /\ WalFlowing(c) /\ f = made("critical")
  BY <1>1, <1>2 DEF When
<1>4. Lagging(c, t2) # {}
  BY <1>3, LagPastCritical, Zenon
<1> QED
  BY <1>1, <1>3, <1>4 DEF When

(* A critical finding is emitted under every configuration.                *)
LEMMA CriticalsWhateverTuned ==
  ASSUME NEW c, NEW t1, NEW t2, NEW f \in ComputeWithTunables(c, t1), f.severity = "critical"
  PROVE  f \in ComputeWithTunables(c, t2)
<1>1. f \notin UnusedIndexes(c, t1) \union BloatedTables(c, t1)
  BY OnlyWarns
<1>2. f \in Untuned(c) \/ f \in FailoverReadiness(c, t1)
  BY <1>1, RulesByTuning DEF Tuned
<1>3. f \in FailoverReadiness(c, t1) => f \in FailoverReadiness(c, t2)
  BY LagCriticalWhateverTuned DEF FailoverReadiness
<1> QED
  BY <1>2, <1>3, RulesByTuning DEF Tuned

(* Of any report whatever, two configurations find the same critical       *)
(* findings (Tunables, failoverReadiness).                                 *)
THEOREM TuningSparesCriticals ==
  ASSUME NEW c, NEW t1, NEW t2
  PROVE  Criticals(ComputeWithTunables(c, t1)) = Criticals(ComputeWithTunables(c, t2))
<1>1. {g \in ComputeWithTunables(c, t1) : g.severity = "critical"}
        = {g \in ComputeWithTunables(c, t2) : g.severity = "critical"}
  BY CriticalsWhateverTuned
<1> QED
  BY <1>1, Zenon DEF Criticals
-----------------------------------------------------------------------------
(* What the catalogue says of an id, and a finding that agrees with it.    *)
InCatalog(id, severity, dim, class) ==
    /\ MetaDimension(id) = dim /\ MetaObjectClass(id) = class
    /\ id \notin CatalogChanging => MetaSeverity(id) = severity
Proper(f) ==
    /\ f.dim = MetaDimension(f.id) \/ (f.id = "vacuum_horizon_blocked" /\ f.severity = "critical")
    /\ ObjectClass(f) = MetaObjectClass(f.id)
    /\ f.id \notin CatalogChanging => f.severity = MetaSeverity(f.id)
    /\ f.id \notin Unguarded => \A action \in f.advises : \E g \in f.guards : g[2] = action

(* The class a finding is suppressed by is that of its objects.            *)
LEMMA ClassOf ==
  ASSUME NEW f, NEW class, HasClass(f, class)
  PROVE  ObjectClass(f) = class
<1>1. CASE f.objects = {}
  BY <1>1, Zenon DEF HasClass, ObjectClass
<1>2. CASE f.objects # {}
  <2>1. (CHOOSE o \in f.objects : TRUE) \in f.objects
    BY <1>2, Zenon
  <2> QED
    BY <1>2, <2>1, Zenon DEF HasClass, ObjectClass
<1> QED
  BY <1>1, <1>2

(* An emitted finding agrees with the catalogue if its id is listed so.    *)
LEMMA ShownProper ==
  ASSUME NEW f, NEW id, NEW severity, NEW dim, NEW class, NEW others,
         Emitted(f, id, severity, dim, class, others), InCatalog(id, severity, dim, class)
  PROVE  Proper(f) /\ f.related \union f.cites \subseteq others
<1>1. ObjectClass(f) = class
  BY ClassOf, Zenon DEF Emitted, Made
<1>2. \A action \in f.advises : \E g \in f.guards : g[2] = action
  BY Zenon DEF Emitted, Owes, Unmet
<1> QED
  BY <1>1, <1>2, Zenon DEF Emitted, Made, Owes, InCatalog, Proper

(* The catalogue, entry by entry, as the rules emit it.                    *)
LEMMA Catalogued ==
  /\ InCatalog("blocking_chains", "critical", "risk", "cluster")
  /\ \A severity : InCatalog("idle_in_transaction", severity, "risk", "cluster")
  /\ InCatalog("long_running_transaction", "warn", "risk", "cluster")
  /\ InCatalog("low_cache_hit", "warn", "throughput", "cluster")
  /\ InCatalog("high_rollback_ratio", "warn", "throughput", "cluster")
  /\ InCatalog("work_mem_low", "warn", "throughput", "setting")
  /\ InCatalog("checkpoints_forced", "warn", "throughput", "setting")
  /\ InCatalog("wait_lock_contention", "warn", "latency", "cluster")
  /\ InCatalog("wait_io_bound", "warn", "throughput", "cluster")
  /\ InCatalog("wait_lwlock_pressure", "warn", "throughput", "cluster")
  /\ \A severity : InCatalog("connection_saturation", severity, "risk", "cluster")
  /\ InCatalog("connections_overprovisioned", "info", "cost", "cluster")
  /\ \A severity : InCatalog("txid_wraparound", severity, "risk", "cluster")
  /\ \A severity : InCatalog("mxid_wraparound", severity, "risk", "cluster")
  /\ \A severity : InCatalog("vacuum_horizon_blocked", severity, "storage", "cluster")
  /\ \A severity : InCatalog("prepared_xact_abandoned", severity, "risk", "cluster")
  /\ InCatalog("fsync_off", "critical", "risk", "setting")
  /\ InCatalog("full_page_writes_off", "critical", "risk", "setting")
  /\ InCatalog("autovacuum_off", "critical", "risk", "setting")
  /\ InCatalog("random_page_cost_high", "warn", "latency", "setting")
  /\ InCatalog("work_mem_overcommit", "warn", "risk", "setting")
  /\ InCatalog("statement_timeout_unset", "info", "risk", "setting")
  /\ InCatalog("io_timing_off", "info", "throughput", "setting")
  /\ InCatalog("pgaudit_silent", "warn", "risk", "setting")
  /\ InCatalog("pgaudit_logs_parameters", "warn", "risk", "setting")
  /\ InCatalog("pgaudit_double_logging", "info", "throughput", "setting")
  /\ InCatalog("checksum_failures", "critical", "risk", "db")
  /\ InCatalog("ignore_checksum_failure_on", "critical", "risk", "setting")
  /\ InCatalog("checksums_disabled", "info", "risk", "setting")
  /\ \A severity : InCatalog("collation_version_mismatch", severity, "risk", "db")
  /\ InCatalog("replica_identity_missing", "critical", "risk", "relation")
  /\ InCatalog("query_slowdown", "warn", "latency", "cluster")
  /\ InCatalog("pgss_entries_evicted", "warn", "throughput", "cluster")
  /\ InCatalog("pg_stat_statements_missing", "info", "cost", "cluster")
  /\ InCatalog("stale_stats_window", "info", "cost", "cluster")
  /\ \A severity : InCatalog("index_invalid", severity, "risk", "relation")
  /\ InCatalog("unused_indexes", "warn", "storage", "relation")
  /\ InCatalog("redundant_indexes", "info", "storage", "relation")
  /\ InCatalog("fk_unindexed", "warn", "latency", "relation")
  /\ InCatalog("table_bloat", "warn", "storage", "relation")
  /\ InCatalog("partition_seq_scan_heavy", "warn", "latency", "relation")
  /\ InCatalog("seq_scan_heavy", "warn", "throughput", "relation")
  /\ InCatalog("low_hot_update_ratio", "warn", "throughput", "relation")
  /\ InCatalog("autovacuum_disabled_on_table", "critical", "risk", "relation")
  /\ InCatalog("table_never_vacuumed", "warn", "risk", "relation")
  /\ InCatalog("autovacuum_starved", "warn", "storage", "relation")
  /\ InCatalog("autovacuum_saturated", "warn", "throughput", "cluster")
  /\ InCatalog("autovacuum_long_running", "info", "throughput", "cluster")
  /\ InCatalog("stale_statistics", "warn", "latency", "relation")
  /\ InCatalog("never_analyzed", "warn", "latency", "relation")
  /\ \A severity : InCatalog("sequence_exhaustion", severity, "risk", "relation")
  /\ \A severity : InCatalog("int4_identity_column", severity, "risk", "relation")
  /\ InCatalog("sync_rep_degraded", "critical", "risk", "cluster")
  /\ \A severity : InCatalog("replica_lag_time", severity, "risk", "cluster")
  /\ InCatalog("recovery_conflicts", "warn", "risk", "cluster")
  /\ InCatalog("replica_disconnected", "warn", "risk", "cluster")
  /\ \A severity : InCatalog("archiving_failing", severity, "risk", "cluster")
  /\ \A severity : InCatalog("archiving_stalled", severity, "risk", "cluster")
  /\ \A severity : InCatalog("archiving_disabled", severity, "risk", "cluster")
  /\ \A severity : InCatalog("replication_slot_inactive", severity, "risk", "slot")
  /\ InCatalog("subscription_worker_down", "warn", "risk", "sub")
  BY DEF InCatalog, MetaDimension, MetaSeverity, MetaObjectClass, CatalogCritical, CatalogInfo,
         CatalogChanging, CatalogStorage, CatalogLatency, CatalogThroughput, CatalogCost,
         CatalogRelation, CatalogSetting, CatalogDatabase
-----------------------------------------------------------------------------
(* What the rules of a report may send the reader to.                       *)
Referred(c) ==
    When(Slowdowns(c) # {}, "query_slowdown")
    \union When(HorizonBlocked(c), "vacuum_horizon_blocked")
    \union When(PgssEvicting(c), "pgss_entries_evicted")

(* A finding that agrees with the catalogue and sends the reader only to   *)
(* what the report calls for.                                              *)
SoundIn(c, f) == Proper(f) /\ f.related \union f.cites \subseteq Referred(c)

(* How a rule's emitted findings are sound: alone, or by what they refer   *)
(* to.                                                                     *)
LEMMA ShownSound ==
  ASSUME NEW c, NEW f, NEW id, NEW severity, NEW dim, NEW class, NEW others,
         Emitted(f, id, severity, dim, class, others), InCatalog(id, severity, dim, class),
         others \subseteq Referred(c)
  PROVE  SoundIn(c, f)
  BY ShownProper DEF SoundIn

LEMMA ShownSoundAlone ==
  ASSUME NEW c, NEW f, NEW id, NEW severity, NEW dim, NEW class,
         Emitted(f, id, severity, dim, class, {}), InCatalog(id, severity, dim, class)
  PROVE  SoundIn(c, f)
  BY ShownProper DEF SoundIn

(* The two rules whose advice is not guarded.                              *)
LEMMA VacuumHorizonBlockedSound ==
  ASSUME NEW c, NEW f \in VacuumHorizonBlocked(c)
  PROVE  SoundIn(c, f)
<1>1. PICK severity, dim :
         /\ dim = "storage" \/ (dim = "risk" /\ severity = "critical")
         /\ Made(f, "vacuum_horizon_blocked", severity, dim, "cluster")
         /\ Owes(f, {"DROP REPLICATION SLOT"}, {})
  BY VacuumHorizonBlockedEmits, Zenon
<1>2. ObjectClass(f) = "cluster"
  BY <1>1, ClassOf, Zenon DEF Made
<1>3. InCatalog("vacuum_horizon_blocked", severity, "storage", "cluster")
  BY Catalogued, Zenon
<1>4. "vacuum_horizon_blocked" \in Unguarded
  BY DEF Unguarded
<1>5. Proper(f)
  BY <1>1, <1>2, <1>3, <1>4, Zenon DEF Made, InCatalog, Proper
<1> QED
  BY <1>1, <1>5 DEF SoundIn, Owes

LEMMA CollationVersionMismatchSound ==
  ASSUME NEW c, NEW f \in CollationVersionMismatch(c)
  PROVE  SoundIn(c, f)
<1>1. PICK severity :
         /\ Made(f, "collation_version_mismatch", severity, "risk", "db")
         /\ Owes(f, {"REINDEX"}, {})
  BY CollationVersionMismatchEmits, Zenon
<1>2. ObjectClass(f) = "db"
  BY <1>1, ClassOf, Zenon DEF Made
<1>3. InCatalog("collation_version_mismatch", severity, "risk", "db")
  BY Catalogued, Zenon
<1>4. "collation_version_mismatch" \in Unguarded
  BY DEF Unguarded
<1>5. Proper(f)
  BY <1>1, <1>2, <1>3, <1>4, Zenon DEF Made, InCatalog, Proper
<1> QED
  BY <1>1, <1>5 DEF SoundIn, Owes

(* The three rules that send the reader elsewhere.                         *)
LEMMA ReferringSound ==
  ASSUME NEW c, NEW tun,
         NEW f \in QuerySlowdown(c) \union BloatedTables(c, tun) \union StaleStatistics(c)
  PROVE  SoundIn(c, f)
<1>1. /\ When(Slowdowns(c) # {}, "query_slowdown") \subseteq Referred(c)
      /\ When(HorizonBlocked(c), "vacuum_horizon_blocked") \subseteq Referred(c)
      /\ When(PgssEvicting(c), "pgss_entries_evicted") \subseteq Referred(c)
  BY DEF Referred
<1>2. CASE f \in QuerySlowdown(c)
  BY <1>1, <1>2, QuerySlowdownEmits, ShownSound, Catalogued, Zenon
<1>3. CASE f \in BloatedTables(c, tun)
  BY <1>1, <1>3, BloatedTablesEmits, ShownSound, Catalogued, Zenon
<1>4. CASE f \in StaleStatistics(c)
  BY <1>1, <1>4, StaleStatisticsEmits, ShownSound, ShownSoundAlone, Catalogued, Zenon
<1> QED
  BY <1>2, <1>3, <1>4

(* Every finding of every report is sound: no rule is left out.            *)
LEMMA EveryFindingSound ==
  ASSUME NEW c, NEW tun, NEW f \in ComputeWithTunables(c, tun)
  PROVE  SoundIn(c, f)
<1>1. CASE f \in BlockingChains(c)
  BY <1>1, BlockingChainsEmits, ShownSoundAlone, Catalogued, Zenon
<1>2. CASE f \in InvalidIndexes(c)
  BY <1>2, InvalidIndexesEmits, ShownSoundAlone, Catalogued, Zenon
<1>3. CASE f \in UnusedIndexes(c, tun)
  BY <1>3, UnusedIndexesEmits, ShownSoundAlone, Catalogued, Zenon
<1>4. CASE f \in RedundantIndexes(c)
  BY <1>4, RedundantIndexesEmits, ShownSoundAlone, Catalogued, Zenon
<1>5. CASE f \in UnindexedForeignKeys(c)
  BY <1>5, UnindexedForeignKeysEmits, ShownSoundAlone, Catalogued, Zenon
<1>6. CASE f \in SeqScanHeavy(c)
  BY <1>6, SeqScanHeavyEmits, ShownSoundAlone, Catalogued, Zenon
<1>7. CASE f \in PartitionSeqScanHeavy(c)
  BY <1>7, PartitionSeqScanHeavyEmits, ShownSoundAlone, Catalogued, Zenon
<1>8. CASE f \in BloatedTables(c, tun)
  BY <1>8, ReferringSound
<1>9. CASE f \in StaleStatistics(c)
  BY <1>9, ReferringSound
<1>10. CASE f \in AutovacuumHealth(c)
  BY <1>10, AutovacuumHealthEmits, ShownSoundAlone, Catalogued, Zenon
<1>11. CASE f \in LowHotUpdateRatio(c)
  BY <1>11, LowHotUpdateRatioEmits, ShownSoundAlone, Catalogued, Zenon
<1>12. CASE f \in LowCacheHit(c)
  BY <1>12, LowCacheHitEmits, ShownSoundAlone, Catalogued, Zenon
<1>13. CASE f \in IdleInTransaction(c)
  BY <1>13, IdleInTransactionEmits, ShownSoundAlone, Catalogued, Zenon
<1>14. CASE f \in LongRunningXact(c)
  BY <1>14, LongRunningXactEmits, ShownSoundAlone, Catalogued, Zenon
<1>15. CASE f \in ConnectionSaturation(c)
  BY <1>15, ConnectionSaturationEmits, ShownSoundAlone, Catalogued, Zenon
<1>16. CASE f \in TxidWraparound(c)
  BY <1>16, WraparoundEmits, ShownSoundAlone, Catalogued, Zenon DEF TxidWraparound
<1>17. CASE f \in MxidWraparound(c)
  BY <1>17, WraparoundEmits, ShownSoundAlone, Catalogued, Zenon DEF MxidWraparound
<1>18. CASE f \in SequenceExhaustion(c)
  BY <1>18, SequenceExhaustionEmits, ShownSoundAlone, Catalogued, Zenon
<1>19. CASE f \in Int4IdentityColumn(c)
  BY <1>19, Int4IdentityColumnEmits, ShownSoundAlone, Catalogued, Zenon
<1>20. CASE f \in WalArchiving(c)
  BY <1>20, WalArchivingEmits, ShownSoundAlone, Catalogued, Zenon
<1>21. CASE f \in ChecksumFindings(c)
  BY <1>21, ChecksumFindingsEmits, ShownSoundAlone, Catalogued, Zenon
<1>22. CASE f \in CollationVersionMismatch(c)
  BY <1>22, CollationVersionMismatchSound
<1>23. CASE f \in ReplicaIdentityMissing(c)
  BY <1>23, ReplicaIdentityMissingEmits, ShownSoundAlone, Catalogued, Zenon
<1>24. CASE f \in FailoverReadiness(c, tun)
  BY <1>24, FailoverReadinessEmits, ShownSoundAlone, Catalogued, Zenon
<1>25. CASE f \in ReplicationSlotRisk(c)
  BY <1>25, ReplicationSlotRiskEmits, ShownSoundAlone, Catalogued, Zenon
<1>26. CASE f \in SubscriptionDown(c)
  BY <1>26, SubscriptionDownEmits, ShownSoundAlone, Catalogued, Zenon
<1>27. CASE f \in VacuumHorizonBlocked(c)
  BY <1>27, VacuumHorizonBlockedSound
<1>28. CASE f \in PreparedXactAbandoned(c)
  BY <1>28, PreparedXactAbandonedEmits, ShownSoundAlone, Catalogued, Zenon
<1>29. CASE f \in QuerySlowdown(c)
  BY <1>29, ReferringSound
<1>30. CASE f \in WorkMemLow(c)
  BY <1>30, WorkMemLowEmits, ShownSoundAlone, Catalogued, Zenon
<1>31. CASE f \in CheckpointsForced(c)
  BY <1>31, CheckpointsForcedEmits, ShownSoundAlone, Catalogued, Zenon
<1>32. CASE f \in ConnectionsOverprovisioned(c)
  BY <1>32, ConnectionsOverprovisionedEmits, ShownSoundAlone, Catalogued, Zenon
<1>33. CASE f \in IOTimingOff(c)
  BY <1>33, IOTimingOffEmits, ShownSoundAlone, Catalogued, Zenon
<1>34. CASE f \in ConfigSanity(c)
  BY <1>34, ConfigSanityEmits, ShownSoundAlone, Catalogued, Zenon
<1>35. CASE f \in AuditPosture(c)
  BY <1>35, AuditPostureEmits, ShownSoundAlone, Catalogued, Zenon
<1>36. CASE f \in WaitFindings(c)
  BY <1>36, WaitFindingsEmits, ShownSoundAlone, Catalogued, Zenon
<1>37. CASE f \in HighRollbacks(c)
  BY <1>37, HighRollbacksEmits, ShownSoundAlone, Catalogued, Zenon
<1>38. CASE f \in MissingPgss(c)
  BY <1>38, MissingPgssEmits, ShownSoundAlone, Catalogued, Zenon
<1>39. CASE f \in PgssEntriesEvicted(c)
  BY <1>39, PgssEntriesEvictedEmits, ShownSoundAlone, Catalogued, Zenon
<1>40. CASE f \in StaleStatsWindow(c)
  BY <1>40, StaleStatsWindowEmits, ShownSoundAlone, Catalogued, Zenon
<1> QED
  BY <1>1, <1>2, <1>3, <1>4, <1>5, <1>6, <1>7, <1>8, <1>9, <1>10, <1>11,
     <1>12, <1>13, <1>14, <1>15, <1>16, <1>17, <1>18, <1>19, <1>20, <1>21,
     <1>22, <1>23, <1>24, <1>25, <1>26, <1>27, <1>28, <1>29, <1>30, <1>31,
     <1>32, <1>33, <1>34, <1>35, <1>36, <1>37, <1>38, <1>39, <1>40, Zenon
     DEF ComputeWithTunables
-----------------------------------------------------------------------------
(* The rule a finding of each of these ids comes from.                      *)
Origin(c, tun, f) ==
    /\ f.id = "txid_wraparound" => f \in TxidWraparound(c)
    /\ f.id = "mxid_wraparound" => f \in MxidWraparound(c)
    /\ f.id = "connection_saturation" => f \in ConnectionSaturation(c)
    /\ f.id = "connections_overprovisioned" => f \in ConnectionsOverprovisioned(c)
    /\ f.id = "vacuum_horizon_blocked" => f \in VacuumHorizonBlocked(c)
    /\ f.id = "replication_slot_inactive" => f \in ReplicationSlotRisk(c)
    /\ f.id = "replica_lag_time" => f \in FailoverReadiness(c, tun)
    /\ f.id = "idle_in_transaction" => f \in IdleInTransaction(c)
    /\ f.id = "long_running_transaction" => f \in LongRunningXact(c)
    /\ f.id = "sequence_exhaustion" => f \in SequenceExhaustion(c)
    /\ f.id = "table_never_vacuumed" => f \in AutovacuumHealth(c)
    /\ f.id = "autovacuum_starved" => f \in AutovacuumHealth(c)
    /\ f.id = "never_analyzed" => f \in StaleStatistics(c)
    /\ f.id = "stale_statistics" => f \in StaleStatistics(c)
    /\ f.id = "archiving_disabled" => f \in WalArchiving(c)
    /\ f.id = "archiving_stalled" => f \in WalArchiving(c)
    /\ f.id = "pgaudit_silent" => f \in AuditPosture(c)
    /\ f.id = "pgaudit_double_logging" => f \in AuditPosture(c)

(* No other rule emits a finding of these ids.                             *)
LEMMA EveryFindingHasOrigin ==
  ASSUME NEW c, NEW tun, NEW f \in ComputeWithTunables(c, tun)
  PROVE  Origin(c, tun, f)
<1>1. CASE f \in BlockingChains(c)
  BY <1>1, BlockingChainsEmits DEF Origin, Emitted, Made
<1>2. CASE f \in InvalidIndexes(c)
  BY <1>2, InvalidIndexesEmits DEF Origin, Emitted, Made
<1>3. CASE f \in UnusedIndexes(c, tun)
  BY <1>3, UnusedIndexesEmits DEF Origin, Emitted, Made
<1>4. CASE f \in RedundantIndexes(c)
  BY <1>4, RedundantIndexesEmits DEF Origin, Emitted, Made
<1>5. CASE f \in UnindexedForeignKeys(c)
  BY <1>5, UnindexedForeignKeysEmits DEF Origin, Emitted, Made
<1>6. CASE f \in SeqScanHeavy(c)
  BY <1>6, SeqScanHeavyEmits DEF Origin, Emitted, Made
<1>7. CASE f \in PartitionSeqScanHeavy(c)
  BY <1>7, PartitionSeqScanHeavyEmits DEF Origin, Emitted, Made
<1>8. CASE f \in BloatedTables(c, tun)
  BY <1>8, BloatedTablesEmits DEF Origin, Emitted, Made
<1>9. CASE f \in StaleStatistics(c)
  BY <1>9, StaleStatisticsEmits DEF Origin, Emitted, Made
<1>10. CASE f \in AutovacuumHealth(c)
  BY <1>10, AutovacuumHealthEmits DEF Origin, Emitted, Made
<1>11. CASE f \in LowHotUpdateRatio(c)
  BY <1>11, LowHotUpdateRatioEmits DEF Origin, Emitted, Made
<1>12. CASE f \in LowCacheHit(c)
  BY <1>12, LowCacheHitEmits DEF Origin, Emitted, Made
<1>13. CASE f \in IdleInTransaction(c)
  BY <1>13, IdleInTransactionEmits DEF Origin, Emitted, Made
<1>14. CASE f \in LongRunningXact(c)
  BY <1>14, LongRunningXactEmits DEF Origin, Emitted, Made
<1>15. CASE f \in ConnectionSaturation(c)
  BY <1>15, ConnectionSaturationEmits DEF Origin, Emitted, Made
<1>16. CASE f \in TxidWraparound(c)
  BY <1>16, WraparoundEmits DEF TxidWraparound, Origin, Emitted, Made
<1>17. CASE f \in MxidWraparound(c)
  BY <1>17, WraparoundEmits DEF MxidWraparound, Origin, Emitted, Made
<1>18. CASE f \in SequenceExhaustion(c)
  BY <1>18, SequenceExhaustionEmits DEF Origin, Emitted, Made
<1>19. CASE f \in Int4IdentityColumn(c)
  BY <1>19, Int4IdentityColumnEmits DEF Origin, Emitted, Made
<1>20. CASE f \in WalArchiving(c)
  BY <1>20, WalArchivingEmits DEF Origin, Emitted, Made
<1>21. CASE f \in ChecksumFindings(c)
  BY <1>21, ChecksumFindingsEmits DEF Origin, Emitted, Made
<1>22. CASE f \in CollationVersionMismatch(c)
  BY <1>22, CollationVersionMismatchEmits DEF Origin, Emitted, Made
<1>23. CASE f \in ReplicaIdentityMissing(c)
  BY <1>23, ReplicaIdentityMissingEmits DEF Origin, Emitted, Made
<1>24. CASE f \in FailoverReadiness(c, tun)
  BY <1>24, FailoverReadinessEmits DEF Origin, Emitted, Made
<1>25. CASE f \in ReplicationSlotRisk(c)
  BY <1>25, ReplicationSlotRiskEmits DEF Origin, Emitted, Made
<1>26. CASE f \in SubscriptionDown(c)
  BY <1>26, SubscriptionDownEmits DEF Origin, Emitted, Made
<1>27. CASE f \in VacuumHorizonBlocked(c)
  BY <1>27, VacuumHorizonBlockedEmits DEF Origin, Emitted, Made
<1>28. CASE f \in PreparedXactAbandoned(c)
  BY <1>28, PreparedXactAbandonedEmits DEF Origin, Emitted, Made
<1>29. CASE f \in QuerySlowdown(c)
  BY <1>29, QuerySlowdownEmits DEF Origin, Emitted, Made
<1>30. CASE f \in WorkMemLow(c)
  BY <1>30, WorkMemLowEmits DEF Origin, Emitted, Made
<1>31. CASE f \in CheckpointsForced(c)
  BY <1>31, CheckpointsForcedEmits DEF Origin, Emitted, Made
<1>32. CASE f \in ConnectionsOverprovisioned(c)
  BY <1>32, ConnectionsOverprovisionedEmits DEF Origin, Emitted, Made
<1>33. CASE f \in IOTimingOff(c)
  BY <1>33, IOTimingOffEmits DEF Origin, Emitted, Made
<1>34. CASE f \in ConfigSanity(c)
  BY <1>34, ConfigSanityEmits DEF Origin, Emitted, Made
<1>35. CASE f \in AuditPosture(c)
  BY <1>35, AuditPostureEmits DEF Origin, Emitted, Made
<1>36. CASE f \in WaitFindings(c)
  BY <1>36, WaitFindingsEmits DEF Origin, Emitted, Made
<1>37. CASE f \in HighRollbacks(c)
  BY <1>37, HighRollbacksEmits DEF Origin, Emitted, Made
<1>38. CASE f \in MissingPgss(c)
  BY <1>38, MissingPgssEmits DEF Origin, Emitted, Made
<1>39. CASE f \in PgssEntriesEvicted(c)
  BY <1>39, PgssEntriesEvictedEmits DEF Origin, Emitted, Made
<1>40. CASE f \in StaleStatsWindow(c)
  BY <1>40, StaleStatsWindowEmits DEF Origin, Emitted, Made
<1> QED
  BY <1>1, <1>2, <1>3, <1>4, <1>5, <1>6, <1>7, <1>8, <1>9, <1>10, <1>11,
     <1>12, <1>13, <1>14, <1>15, <1>16, <1>17, <1>18, <1>19, <1>20, <1>21,
     <1>22, <1>23, <1>24, <1>25, <1>26, <1>27, <1>28, <1>29, <1>30, <1>31,
     <1>32, <1>33, <1>34, <1>35, <1>36, <1>37, <1>38, <1>39, <1>40, Zenon
     DEF ComputeWithTunables
-----------------------------------------------------------------------------
One(section) == section = {} \/ \E x : section = {x}

(* What the rules may count on in a report: a section is one value or      *)
(* none, measures are numbers, a table is listed once, and without the     *)
(* extension there is nothing to evict.                                    *)
WellFormed(c) ==
    /\ \A q \in c.queries : ~q.enabled => q.dealloc = 0 /\ q.max = 0
    /\ \A t \in Top(c), u \in Top(c) : t.name = u.name => t = u
    /\ One(c.limits)
    /\ \A l \in c.limits : l.used \in Int /\ l.max \in Int /\ l.xidAge \in Int /\ l.mxidAge \in Int
    /\ One(c.horizon)
    /\ \A h \in c.horizon : h # <<>> => h[1].xminAge \in Int
    /\ One(c.activity)
    /\ \A a \in c.activity : a.idleInTx \in Int /\ a.longestXact \in Int
    /\ One(c.sequences)
    /\ \A s \in c.sequences : \A q \in DOMAIN s.pct : s.pct[q] \in Int
    /\ One(c.replication)
    /\ \A r \in c.replication :
          /\ \A x \in r.replicas : x.lag \subseteq Int
          /\ \A s \in r.slots : s.mib \in Int /\ s.active \in BOOLEAN /\ s.lost \in BOOLEAN

(* What a report calls for is found in it, by a rule that decides apart.   *)
LEMMA ReferredIsFound ==
  ASSUME NEW c, NEW tun, WellFormed(c)
  PROVE  Referred(c) \subseteq Ids(ComputeWithTunables(c, tun))
<1>1. \A f \in QuerySlowdown(c) \union VacuumHorizonBlocked(c) \union PgssEntriesEvicted(c) :
         f \in ComputeWithTunables(c, tun)
  BY DEF ComputeWithTunables
<1>2. ASSUME Slowdowns(c) # {}
      PROVE  \E f \in QuerySlowdown(c) : f.id = "query_slowdown"
  <2>1. QuerySlowdown(c) # {}
    BY <1>2, Zenon DEF QuerySlowdown, When
  <2> QED
    BY <2>1, QuerySlowdownEmits, Zenon DEF Emitted, Made
<1>3. ASSUME HorizonBlocked(c)
      PROVE  \E f \in VacuumHorizonBlocked(c) : f.id = "vacuum_horizon_blocked"
  <2>1. VacuumHorizonBlocked(c) # {}
    BY <1>3, SMT DEF HorizonBlocked, VacuumHorizonBlocked, When
  <2> QED
    BY <2>1, VacuumHorizonBlockedEmits, Zenon DEF Made
<1>4. ASSUME PgssEvicting(c)
      PROVE  \E f \in PgssEntriesEvicted(c) : f.id = "pgss_entries_evicted"
  <2>1. \E q \in c.queries : q.enabled
    BY <1>4 DEF PgssEvicting, WellFormed
  <2>2. PgssEntriesEvicted(c) # {}
    BY <1>4, <2>1, Zenon DEF PgssEntriesEvicted, When
  <2> QED
    BY <2>2, PgssEntriesEvictedEmits, Zenon DEF Emitted, Made
<1>5. ASSUME NEW id \in Referred(c)
      PROVE  \E f \in ComputeWithTunables(c, tun) : f.id = id
  <2>1. \/ id = "query_slowdown" /\ Slowdowns(c) # {}
        \/ id = "vacuum_horizon_blocked" /\ HorizonBlocked(c)
        \/ id = "pgss_entries_evicted" /\ PgssEvicting(c)
    BY <1>5 DEF Referred, When
  <2> QED
    BY <1>1, <1>2, <1>3, <1>4, <2>1
<1> QED
  BY <1>5, Zenon DEF Ids

(* Of a report that lists a table once, rules over different tables name   *)
(* different tables.                                                       *)
LEMMA RelationsApart ==
  ASSUME NEW c, WellFormed(c), NEW some, NEW others,
         some \subseteq Top(c), others \subseteq Top(c), \A t \in some : t \notin others
  PROVE  Relations(Names(some)) \cap Relations(Names(others)) = {}
<1> SUFFICES ASSUME NEW o \in Relations(Names(some)), o \in Relations(Names(others))
             PROVE  FALSE
  OBVIOUS
<1>1. PICK t \in some : o = <<"relation", t.name>>
  BY DEF Relations, Names
<1>2. PICK u \in others : o = <<"relation", u.name>>
  BY DEF Relations, Names
<1>3. t.name = u.name
  BY <1>1, <1>2
<1> QED
  BY <1>3 DEF WellFormed

LEMMA ObjectsWithin ==
  ASSUME NEW fs, NEW id, NEW objects, \A f \in fs : f.id = id => f.objects = objects
  PROVE  Objects(fs, id) \subseteq objects
  BY DEF Objects

(* Archiving is reported off or stalled by the mode it is in.              *)
LEMMA ArchivingMode ==
  ASSUME NEW c, NEW f \in WalArchiving(c)
  PROVE  /\ f.id = "archiving_disabled" => Setting(c, "archiveMode") = "off"
         /\ f.id = "archiving_stalled" => ArchivingOn(c)
<1> DEFINE F(id, bare, conf) ==
             Caveat(Confident(Finding(id, IF CloudProvider(c) THEN "info" ELSE bare, "risk"), conf),
                    "managed", CloudProvider(c))
<1>1. ASSUME NEW id, NEW bare, NEW conf
      PROVE  F(id, bare, conf).id = id
  <2> DEFINE g == Confident(Finding(id, IF CloudProvider(c) THEN "info" ELSE bare, "risk"), conf)
  <2>1. \A severity : Emitted(Confident(Finding(id, severity, "risk"), conf), id, severity, "risk", "cluster", {})
    BY ConfidentEmits, Zenon
  <2>2. PICK severity : Emitted(g, id, severity, "risk", "cluster", {})
    BY <2>1, Zenon
  <2> HIDE DEF g
  <2>3. Caveat(g, "managed", CloudProvider(c)).id = id
    BY <2>2, CaveatMade DEF Emitted, Made
  <2> QED
    BY <2>3, Zenon DEF g
<1>2. \/ f = F("archiving_failing", "critical", 95)
      \/ ArchivingOn(c) /\ f = F("archiving_stalled", "critical", 85)
      \/ Setting(c, "archiveMode") = "off" /\ f = F("archiving_disabled", "warn", 80)
  BY Zenon DEF WalArchiving, Stalled, When
<1> HIDE DEF F
<1> QED
  BY <1>1, <1>2

(* No two findings of a well-formed report contradict each other.          *)
LEMMA NothingContradicts ==
  ASSUME NEW c, NEW tun, WellFormed(c), NEW fs, fs = ComputeWithTunables(c, tun)
  PROVE  /\ Objects(fs, "table_never_vacuumed") \cap Objects(fs, "autovacuum_starved") = {}
         /\ Objects(fs, "never_analyzed") \cap Objects(fs, "stale_statistics") = {}
         /\ \A pair \in {{"connection_saturation", "connections_overprovisioned"},
                          {"archiving_disabled", "archiving_stalled"},
                          {"pgaudit_silent", "pgaudit_double_logging"}} : ~(pair \subseteq Ids(fs))
<1> HIDE DEF WellFormed
<1>1. \A f \in fs : Origin(c, tun, f)
  BY EveryFindingHasOrigin
<1>2. Objects(fs, "table_never_vacuumed") \cap Objects(fs, "autovacuum_starved") = {}
  <2>1. Objects(fs, "table_never_vacuumed") \subseteq Relations(Names(NeverVacuumed(c)))
    <3>1. ASSUME NEW f \in fs, f.id = "table_never_vacuumed"
          PROVE  f.objects = Relations(Names(NeverVacuumed(c)))
      BY <1>1, <3>1, AutovacuumHealthEmits DEF Origin, Emitted, Made
    <3> QED
      BY <3>1, ObjectsWithin, Zenon
  <2>2. Objects(fs, "autovacuum_starved") \subseteq Relations(Names(Starved(c)))
    <3>1. ASSUME NEW f \in fs, f.id = "autovacuum_starved"
          PROVE  f.objects = Relations(Names(Starved(c)))
      BY <1>1, <3>1, AutovacuumHealthEmits DEF Origin, Emitted, Made
    <3> QED
      BY <3>1, ObjectsWithin, Zenon
  <2>3. Relations(Names(NeverVacuumed(c))) \cap Relations(Names(Starved(c))) = {}
    <3>1. /\ NeverVacuumed(c) \subseteq Top(c) /\ Starved(c) \subseteq Top(c)
          /\ \A t \in NeverVacuumed(c) : t \notin Starved(c)
      BY Zenon DEF NeverVacuumed, Starved
    <3> QED
      BY <3>1, RelationsApart, Zenon
  <2> QED
    BY <2>1, <2>2, <2>3
<1>3. Objects(fs, "never_analyzed") \cap Objects(fs, "stale_statistics") = {}
  <2>1. Objects(fs, "never_analyzed") \subseteq Relations(Names(NeverAnalyzed(c)))
    <3>1. ASSUME NEW f \in fs, f.id = "never_analyzed"
          PROVE  f.objects = Relations(Names(NeverAnalyzed(c)))
      BY <1>1, <3>1, StaleStatisticsEmits DEF Origin, Emitted, Made
    <3> QED
      BY <3>1, ObjectsWithin, Zenon
  <2>2. Objects(fs, "stale_statistics") \subseteq Relations(Names(Stale(c)))
    <3>1. ASSUME NEW f \in fs, f.id = "stale_statistics"
          PROVE  f.objects = Relations(Names(Stale(c)))
      BY <1>1, <3>1, StaleStatisticsEmits DEF Origin, Emitted, Made
    <3> QED
      BY <3>1, ObjectsWithin, Zenon
  <2>3. Relations(Names(NeverAnalyzed(c))) \cap Relations(Names(Stale(c))) = {}
    <3>1. /\ NeverAnalyzed(c) \subseteq Top(c) /\ Stale(c) \subseteq Top(c)
          /\ \A t \in NeverAnalyzed(c) : t \notin Stale(c)
      BY Zenon DEF NeverAnalyzed, Stale
    <3> QED
      BY <3>1, RelationsApart, Zenon
  <2> QED
    BY <2>1, <2>2, <2>3
<1>4. ASSUME NEW f \in fs, NEW g \in fs, f.id = "connection_saturation",
             g.id = "connections_overprovisioned"
      PROVE  FALSE
  <2>1. f \in ConnectionSaturation(c) /\ g \in ConnectionsOverprovisioned(c)
    BY <1>1, <1>4, Zenon DEF Origin
  <2>2. PICK l \in c.limits : l.max > 0 /\ 100 * l.used >= 85 * l.max
    BY <2>1, SMT DEF ConnectionSaturation, When
  <2>3. PICK m \in c.limits : m.max >= 200 /\ 100 * m.used < 15 * m.max
    BY <2>1, SMT DEF ConnectionsOverprovisioned, When
  <2>4. m = l
    <3>1. PICK x : c.limits = {x}
      BY <2>2, Zenon DEF WellFormed, One
    <3> QED
      BY <3>1
  <2>5. l.used \in Int /\ l.max \in Int
    BY Zenon DEF WellFormed
  <2> QED
    BY <2>2, <2>3, <2>4, <2>5
<1>5. ASSUME NEW f \in fs, NEW g \in fs, f.id = "archiving_disabled", g.id = "archiving_stalled"
      PROVE  FALSE
  <2>1. f \in WalArchiving(c) /\ g \in WalArchiving(c)
    BY <1>1, <1>5, Zenon DEF Origin
  <2>2. Setting(c, "archiveMode") = "off" /\ ArchivingOn(c)
    BY <1>5, <2>1, ArchivingMode
  <2> QED
    BY <2>2 DEF ArchivingOn
<1>6. ASSUME NEW f \in fs, NEW g \in fs, f.id = "pgaudit_silent", g.id = "pgaudit_double_logging"
      PROVE  FALSE
  <2>1. f \in AuditPosture(c) /\ g \in AuditPosture(c)
    BY <1>1, <1>6, Zenon DEF Origin
  <2> DEFINE silent == Setting(c, "auditLog") \in {"", "none"}
  <2>2. \/ silent /\ f = SettingFinding("pgaudit_silent", "warn", "risk", "pgaudit.log")
        \/ f = SettingFinding("pgaudit_logs_parameters", "warn", "risk", "pgaudit.log_parameter")
        \/ f = SettingFinding("pgaudit_double_logging", "info", "throughput", "log_statement")
    BY <2>1, Zenon DEF AuditPosture, When
  <2>3. \/ g = SettingFinding("pgaudit_silent", "warn", "risk", "pgaudit.log")
        \/ g = SettingFinding("pgaudit_logs_parameters", "warn", "risk", "pgaudit.log_parameter")
        \/ ~silent /\ g = SettingFinding("pgaudit_double_logging", "info", "throughput", "log_statement")
    BY <2>1, Zenon DEF AuditPosture, When
  <2>4. /\ SettingFinding("pgaudit_silent", "warn", "risk", "pgaudit.log").id = "pgaudit_silent"
        /\ SettingFinding("pgaudit_logs_parameters", "warn", "risk", "pgaudit.log_parameter").id
             = "pgaudit_logs_parameters"
        /\ SettingFinding("pgaudit_double_logging", "info", "throughput", "log_statement").id
             = "pgaudit_double_logging"
    <3>1. \A id, severity, dim, setting : SettingFinding(id, severity, dim, setting).id = id
      <4>1. ASSUME NEW id, NEW severity, NEW dim, NEW setting
            PROVE  SettingFinding(id, severity, dim, setting).id = id
        <5>1. PICK h : h = SettingFinding(id, severity, dim, setting)
          OBVIOUS
        <5>2. Emitted(h, id, severity, dim, "setting", {})
          BY <5>1, SettingFindingEmits
        <5> QED
          BY <5>1, <5>2 DEF Emitted, Made
      <4> QED
        BY <4>1, Zenon
    <3> QED
      BY <3>1
  <2> HIDE DEF silent
  <2> QED
    BY <1>6, <2>2, <2>3, <2>4
<1>7. \A pair \in {{"connection_saturation", "connections_overprovisioned"},
                    {"archiving_disabled", "archiving_stalled"},
                    {"pgaudit_silent", "pgaudit_double_logging"}} : ~(pair \subseteq Ids(fs))
  <2>1. \A id \in Ids(fs) : \E f \in fs : f.id = id
    BY Zenon DEF Ids
  <2> QED
    BY <1>4, <1>5, <1>6, <2>1
<1> QED
  BY <1>2, <1>3, <1>7

(* The findings of a well-formed report agree with the catalogue and with  *)
(* each other.                                                             *)
LEMMA ConsistentReport ==
  ASSUME NEW c, NEW tun, WellFormed(c), findings = ComputeWithTunables(c, tun)
  PROVE  ReportIsConsistent
<1>1. \A f \in findings : SoundIn(c, f)
  BY EveryFindingSound
<1>2. CatalogAgrees
  BY <1>1, Zenon DEF SoundIn, Proper, CatalogAgrees
<1>3. DestructiveIsGuarded
  BY <1>1, Zenon DEF SoundIn, Proper, DestructiveIsGuarded
<1>4. ReferencesResolve
  BY <1>1, ReferredIsFound DEF SoundIn, ReferencesResolve
<1>5. NoContradiction
  BY NothingContradicts, Zenon DEF NoContradiction
<1> QED
  BY <1>2, <1>3, <1>4, <1>5 DEF ReportIsConsistent
-----------------------------------------------------------------------------
LEMMA TheOnly == ASSUME NEW x PROVE The({x}) = x
  BY DEF The

(* The values of a section are its healthy row, amended or not, or none.   *)
LEMMA AmendedRow ==
  ASSUME NEW row, NEW change
  PROVE  /\ DOMAIN Amended(row, change) = DOMAIN row
         /\ \A k \in DOMAIN row :
               Amended(row, change)[k] = IF k \in DOMAIN change THEN change[k] ELSE row[k]
  BY DEF Amended

LEMMA SectionValue ==
  ASSUME NEW section, section \notin Mandatory, NEW quiet, Healthy[section] = {quiet},
         NEW edits, Observed(section) = With(section, edits), NEW v \in Values(section)
  PROVE  v = {} \/ v = {quiet} \/ \E ch \in edits : v = {Amended(quiet, ch)}
<1>1. v \in {Healthy[section]} \/ v \in With(section, edits) \/ v \in {Absent}
  BY Zenon DEF Values
<1>2. ASSUME v \in With(section, edits)
      PROVE  \E ch \in edits : v = {Amended(quiet, ch)}
  <2>1. PICK ch \in edits : v = {Amended(The(Healthy[section]), ch)}
    BY <1>2, Zenon DEF With, Given
  <2>2. The(Healthy[section]) = quiet
    BY TheOnly, Zenon
  <2> QED
    BY <2>1, <2>2, Zenon
<1> QED
  BY <1>1, <1>2, Zenon DEF Absent

LEMMA HealthySections ==
  /\ Healthy["limits"] = {[used |-> 50, max |-> 100, xidAge |-> 1000000, mxidAge |-> 1000000]}
  /\ Healthy["horizon"] = {<<>>}
  /\ Healthy["activity"] = {[idleInTx |-> 0, longestXact |-> 0, workers |-> 0, workerAge |-> 0]}
  /\ Healthy["queries"] = {[enabled |-> TRUE, dealloc |-> 0, count |-> 100, max |-> 5000]}
  /\ Healthy["tables"] = {[top |-> {Table("t1"), Table("t2")}, partitioned |-> {Partitioned("p")}]}
  /\ Healthy["replication"] = {[isReplica |-> FALSE, replicas |-> {}, slots |-> {}, subs |-> {}]}
  /\ Healthy["sequences"] = {[pct |-> [s \in {"s1"} |-> 10], narrow |-> {}]}
  BY DEF Healthy, Given

(* The types of what a run may find, section by section.                   *)
LEMMA LimitsType ==
  ASSUME NEW v \in Values("limits")
  PROVE  /\ One(v)
         /\ \A l \in v : l.used \in Int /\ l.max \in Int /\ l.xidAge \in Int /\ l.mxidAge \in Int
<1> DEFINE quiet == [used |-> 50, max |-> 100, xidAge |-> 1000000, mxidAge |-> 1000000]
           edits == {[used |-> u] : u \in {84, 85, 95}}
                                 \union {[max |-> 0], [max |-> 1000]}
                                 \union {[xidAge |-> x] : x \in {XidWarn - 1, XidWarn, XidCrit}}
                                 \union {[mxidAge |-> x] : x \in {XidWarn - 1, XidWarn, XidCrit}}
<1>1. Observed("limits") = With("limits", edits)
  BY DEF Observed
<1> HIDE DEF edits
<1>2. v = {} \/ v = {quiet} \/ \E ch \in edits : v = {Amended(quiet, ch)}
  <2>1. Healthy["limits"] = {quiet} /\ "limits" \notin Mandatory
    BY HealthySections DEF Mandatory
  <2> HIDE DEF quiet
  <2> QED
    BY <1>1, <2>1, SectionValue
<1>3. ASSUME NEW ch \in edits
      PROVE  LET l == Amended(quiet, ch) IN l.used \in Int /\ l.max \in Int /\ l.xidAge \in Int /\ l.mxidAge \in Int
  <2>1. \/ DOMAIN ch = {"used"} /\ ch.used \in Int
        \/ DOMAIN ch = {"max"} /\ ch.max \in Int
        \/ DOMAIN ch = {"xidAge"} /\ ch.xidAge \in Int
        \/ DOMAIN ch = {"mxidAge"} /\ ch.mxidAge \in Int
    BY DEF edits, XidWarn, XidCrit
  <2>2. /\ DOMAIN quiet = {"used", "max", "xidAge", "mxidAge"} /\ quiet.used \in Int /\ quiet.max \in Int
        /\ quiet.xidAge \in Int /\ quiet.mxidAge \in Int
    OBVIOUS
  <2> HIDE DEF quiet
  <2> QED
    BY <2>1, <2>2, AmendedRow
<1>4. quiet.used \in Int /\ quiet.max \in Int /\ quiet.xidAge \in Int /\ quiet.mxidAge \in Int
  OBVIOUS
<1> HIDE DEF quiet
<1> QED
  BY <1>2, <1>3, <1>4 DEF One
-----------------------------------------------------------------------------
LEMMA ActivityType ==
  ASSUME NEW v \in Values("activity")
  PROVE  One(v) /\ \A a \in v : a.idleInTx \in Int /\ a.longestXact \in Int
<1> DEFINE quiet == [idleInTx |-> 0, longestXact |-> 0, workers |-> 0, workerAge |-> 0]
           edits == {[idleInTx |-> 1, longestXact |-> x] : x \in {59, 60, 300}}
                        \union {[longestXact |-> 300]}
                        \union {[workers |-> w, workerAge |-> 3600] : w \in {0, 2, 3}}
<1>1. Observed("activity") = With("activity", edits)
  BY DEF Observed
<1> HIDE DEF edits
<1>2. v = {} \/ v = {quiet} \/ \E ch \in edits : v = {Amended(quiet, ch)}
  <2>1. Healthy["activity"] = {quiet} /\ "activity" \notin Mandatory
    BY HealthySections DEF Mandatory
  <2> HIDE DEF quiet
  <2> QED
    BY <1>1, <2>1, SectionValue
<1>3. ASSUME NEW ch \in edits
      PROVE  LET a == Amended(quiet, ch) IN a.idleInTx \in Int /\ a.longestXact \in Int
  <2>1. \A k \in DOMAIN ch : ch[k] \in Int
    BY DEF edits
  <2>2. /\ DOMAIN quiet = {"idleInTx", "longestXact", "workers", "workerAge"}
        /\ quiet.idleInTx \in Int /\ quiet.longestXact \in Int
    OBVIOUS
  <2> HIDE DEF quiet
  <2> QED
    BY <2>1, <2>2, AmendedRow
<1>4. quiet.idleInTx \in Int /\ quiet.longestXact \in Int
  OBVIOUS
<1> HIDE DEF quiet
<1> QED
  BY <1>2, <1>3, <1>4 DEF One

LEMMA QueriesType ==
  ASSUME NEW v \in Values("queries")
  PROVE  \A q \in v : ~q.enabled => q.dealloc = 0 /\ q.max = 0
<1> DEFINE quiet == [enabled |-> TRUE, dealloc |-> 0, count |-> 100, max |-> 5000]
           edits == {[enabled |-> FALSE, count |-> 0, max |-> 0], [dealloc |-> 1], [count |-> 5000]}
<1>1. Observed("queries") = With("queries", edits)
  BY DEF Observed
<1> HIDE DEF edits
<1>2. v = {} \/ v = {quiet} \/ \E ch \in edits : v = {Amended(quiet, ch)}
  <2>1. Healthy["queries"] = {quiet} /\ "queries" \notin Mandatory
    BY HealthySections DEF Mandatory
  <2> HIDE DEF quiet
  <2> QED
    BY <1>1, <2>1, SectionValue
<1>3. ASSUME NEW ch \in edits
      PROVE  LET q == Amended(quiet, ch) IN ~q.enabled => q.dealloc = 0 /\ q.max = 0
  <2>1. \/ DOMAIN ch = {"enabled", "count", "max"} /\ ch.enabled = FALSE /\ ch.max = 0
        \/ DOMAIN ch = {"dealloc"}
        \/ DOMAIN ch = {"count"}
    BY DEF edits
  <2>2. /\ DOMAIN quiet = {"enabled", "dealloc", "count", "max"} /\ quiet.enabled = TRUE /\ quiet.dealloc = 0
    OBVIOUS
  <2> HIDE DEF quiet
  <2> QED
    BY <2>1, <2>2, AmendedRow
<1>4. quiet.enabled = TRUE
  OBVIOUS
<1> HIDE DEF quiet
<1> QED
  BY <1>2, <1>3, <1>4

LEMMA TablesType ==
  ASSUME NEW v \in Values("tables")
  PROVE  One(v) /\ \A s \in v : \A t \in s.top, u \in s.top : t.name = u.name => t = u
<1> DEFINE quiet == [top |-> {Table("t1"), Table("t2")}, partitioned |-> {Partitioned("p")}]
           edits == {[top |-> {t, Table("t2")}] : t \in Tables}
                        \union {[partitioned |-> {[Partitioned("p") EXCEPT !.seqScans = 1000,
                                                   !.indexScans = i]}] : i \in {0, 1000, 1001}}
           apart(rows) == \A t \in rows, u \in rows : t.name = u.name => t = u
<1>1. Observed("tables") = With("tables", edits)
  BY DEF Observed
<1> HIDE DEF edits
<1>2. v = {} \/ v = {quiet} \/ \E ch \in edits : v = {Amended(quiet, ch)}
  <2>1. Healthy["tables"] = {quiet} /\ "tables" \notin Mandatory
    BY HealthySections DEF Mandatory
  <2> HIDE DEF quiet
  <2> QED
    BY <1>1, <2>1, SectionValue
<1>3. Table("t1").name = "t1" /\ Table("t2").name = "t2"
  BY DEF Table
<1>4. \A t \in Tables : t.name = "t1"
  <2> DEFINE plain == Table("t1")
             Dead(n, d) == [plain EXCEPT !.live = n, !.dead = d]
             Scaled(d, s) == [plain EXCEPT !.dead = d, !.vacuumScale = s]
             Never(t, b) == [t EXCEPT !.autovacuumed = FALSE, !.vacuumed = b]
             Modified(m, a) == [plain EXCEPT !.mods = m, !.analyzed = a]
             Scanned(s) == [plain EXCEPT !.seqScans = s, !.indexScans = 100]
             Updated(h) == [plain EXCEPT !.updates = 10000, !.hot = h]
             off == [plain EXCEPT !.disabled = TRUE]
             dead == {Dead(n, d) : n \in {9999, 10000, 100000}, d \in {2500, 30000, 40000}}
             scaled == {Scaled(d, s) : d \in {0, 30000, 30075}, s \in {Absent, Given(0)}}
             never == {Never(t, b) : t \in scaled, b \in BOOLEAN}
             modified == {Modified(m, a) : m \in {15000, 20100}, a \in BOOLEAN}
             scanned == {Scanned(s) : s \in {200, 201}}
             updated == {Updated(h) : h \in {4999, 5000}}
             columns == {"name", "live", "dead", "seqScans", "indexScans", "mods", "updates", "hot",
                         "analyzed", "vacuumed", "autovacuumed", "disabled", "analyzeThreshold",
                         "analyzeScale", "vacuumThreshold", "vacuumScale"}
  <2>1. Tables = dead \union never \union modified \union scanned \union updated \union {off}
    BY DEF Tables
  <2>2. plain.name = "t1" /\ DOMAIN plain = columns
    BY DEF Table
  <2> HIDE DEF plain
  <2>3. /\ \A n, d : Dead(n, d).name = "t1"
        /\ \A m, a : Modified(m, a).name = "t1"
        /\ \A s : Scanned(s).name = "t1"
        /\ \A h : Updated(h).name = "t1"
        /\ off.name = "t1"
    BY <2>2
  <2>4. \A d, s : Scaled(d, s).name = "t1" /\ DOMAIN Scaled(d, s) = columns
    BY <2>2
  <2>5. \A t, b : t.name = "t1" /\ DOMAIN t = columns => Never(t, b).name = "t1"
    OBVIOUS
  <2> HIDE DEF Dead, Scaled, Never, Modified, Scanned, Updated, off, columns
  <2>6. \A t \in never : t.name = "t1"
    BY <2>4, <2>5
  <2> HIDE DEF never
  <2> QED
    BY <2>1, <2>3, <2>6
<1>5. apart({Table("t1"), Table("t2")})
  BY <1>3
<1>6. ASSUME NEW ch \in edits
      PROVE  apart(Amended(quiet, ch).top)
  <2>1. \/ DOMAIN ch = {"top"} /\ apart(ch.top)
        \/ DOMAIN ch = {"partitioned"}
    <3>1. CASE \E t \in Tables : ch = [top |-> {t, Table("t2")}]
      BY <1>3, <1>4, <3>1
    <3>2. CASE \E i \in {0, 1000, 1001} :
                 ch = [partitioned |-> {[Partitioned("p") EXCEPT !.seqScans = 1000, !.indexScans = i]}]
      BY <3>2
    <3> QED
      BY <3>1, <3>2 DEF edits
  <2>2. DOMAIN quiet = {"top", "partitioned"} /\ apart(quiet.top)
    BY <1>5
  <2> HIDE DEF quiet, apart
  <2> QED
    BY <2>1, <2>2, AmendedRow
<1>7. apart(quiet.top)
  BY <1>5
<1>8. \A s \in v : apart(s.top)
  <2> HIDE DEF quiet, apart
  <2> QED
    BY <1>2, <1>6, <1>7
<1>9. One(v)
  <2> HIDE DEF quiet
  <2> QED
    BY <1>2 DEF One
<1> QED
  BY <1>8, <1>9

LEMMA HorizonType ==
  ASSUME NEW v \in Values("horizon")
  PROVE  One(v) /\ \A h \in v : h # <<>> => h[1].xminAge \in Int
<1> DEFINE ages == {999999, 1000000, XidWarn}
           alone == {Given(<<Holder(s, x)>>) : s \in {"backend", "replication_slot"}, x \in ages}
           prepared(n) == [Holder("prepared_xact", 10) EXCEPT !.openFor = n]
           both == {Given(<<Holder("backend", 1000000), prepared(n)>>) : n \in {299, 300, 3600}}
<1>1. Observed("horizon") = alone \union both
  BY DEF Observed
<1>2. \A s : \A x \in Int : Holder(s, x).xminAge \in Int
  BY DEF Holder
<1>3. ages \subseteq Int
  BY DEF XidWarn
<1> HIDE DEF ages
<1>4. v \in alone => \E s, x : x \in Int /\ v = {<<Holder(s, x)>>}
  BY <1>3, SMT DEF Given
<1> HIDE DEF prepared
<1>5. v \in both => \E n : v = {<<Holder("backend", 1000000), prepared(n)>>}
  BY SMT DEF Given
<1> HIDE DEF alone, both
<1>6. v = {} \/ v = Healthy["horizon"] \/ v \in alone \/ v \in both
  BY <1>1 DEF Values, Absent
<1>7. CASE v = {} \/ v = Healthy["horizon"]
  BY <1>7, HealthySections, SMT DEF One
<1>8. CASE v \in alone
  <2>1. PICK s, x : x \in Int /\ v = {<<Holder(s, x)>>}
    BY <1>4, <1>8
  <2> DEFINE h == <<Holder(s, x)>>
  <2>2. h[1] = Holder(s, x)
    OBVIOUS
  <2> HIDE DEF h
  <2> QED
    BY <1>2, <2>1, <2>2, SMT DEF One
<1>9. CASE v \in both
  <2>1. PICK n : v = {<<Holder("backend", 1000000), prepared(n)>>}
    BY <1>5, <1>9
  <2> DEFINE h == <<Holder("backend", 1000000), prepared(n)>>
  <2>2. h[1] = Holder("backend", 1000000)
    OBVIOUS
  <2>3. v = {h}
    BY <2>1
  <2> HIDE DEF h
  <2> QED
    BY <1>2, <2>2, <2>3, SMT DEF One
<1> QED
  BY <1>6, <1>7, <1>8, <1>9

LEMMA SequencesType ==
  ASSUME NEW v \in Values("sequences")
  PROVE  One(v) /\ \A s \in v : \A q \in DOMAIN s.pct : s.pct[q] \in Int
<1> DEFINE quiet == [pct |-> [s \in {"s1"} |-> 10], narrow |-> {}]
           edits == {[pct |-> [s \in {"s1", "s2"} |-> IF s = "s1" THEN p ELSE 80]] :
                         p \in {79, 80, 90}}
                        \union {[narrow |-> {[name |-> "t1", type |-> ty]}] : ty \in {"int2", "int4"}}
           measured(pct) == \A q \in DOMAIN pct : pct[q] \in Int
<1>1. Observed("sequences") = With("sequences", edits)
  BY DEF Observed
<1> HIDE DEF edits
<1>2. v = {} \/ v = {quiet} \/ \E ch \in edits : v = {Amended(quiet, ch)}
  <2>1. Healthy["sequences"] = {quiet} /\ "sequences" \notin Mandatory
    BY HealthySections DEF Mandatory
  <2> HIDE DEF quiet
  <2> QED
    BY <1>1, <2>1, SectionValue
<1>3. ASSUME NEW ch \in edits
      PROVE  measured(Amended(quiet, ch).pct)
  <2>1. \/ DOMAIN ch = {"pct"} /\ measured(ch.pct)
        \/ DOMAIN ch = {"narrow"}
    BY DEF edits
  <2>2. DOMAIN quiet = {"pct", "narrow"} /\ measured(quiet.pct)
    OBVIOUS
  <2> HIDE DEF quiet, measured
  <2> QED
    BY <2>1, <2>2, AmendedRow
<1>4. measured(quiet.pct)
  OBVIOUS
<1> QED
  BY <1>2, <1>3, <1>4 DEF One

LEMMA ReplicationType ==
  ASSUME NEW v \in Values("replication")
  PROVE  /\ One(v)
         /\ \A r \in v : /\ \A x \in r.replicas : x.lag \subseteq Int
                         /\ \A s \in r.slots : s.mib \in Int /\ s.active \in BOOLEAN /\ s.lost \in BOOLEAN
<1> DEFINE quiet == [isReplica |-> FALSE, replicas |-> {}, slots |-> {}, subs |-> {}]
           edits == {[replicas |-> {[Replica("r1") EXCEPT !.lag = l, !.sync = s]}] :
                             l \in {Absent, Given(59), Given(60), Given(299), Given(300)},
                             s \in {"async", "quorum"}}
                          \union {[slots |-> {[name |-> "s", active |-> a, mib |-> m, lost |-> l]}] :
                                    a \in BOOLEAN, m \in {511, 512, 8192}, l \in BOOLEAN}
                          \union {[isReplica |-> TRUE],
                                  [subs |-> {[name |-> "s", running |-> FALSE]}]}
           lags(rows) == \A x \in rows : x.lag \subseteq Int
           held(rows) == \A s \in rows : s.mib \in Int /\ s.active \in BOOLEAN /\ s.lost \in BOOLEAN
<1>1. Observed("replication") = With("replication", edits)
  BY DEF Observed
<1> HIDE DEF edits
<1>2. v = {} \/ v = {quiet} \/ \E ch \in edits : v = {Amended(quiet, ch)}
  <2>1. Healthy["replication"] = {quiet} /\ "replication" \notin Mandatory
    BY HealthySections DEF Mandatory
  <2> HIDE DEF quiet
  <2> QED
    BY <1>1, <2>1, SectionValue
<1>3. ASSUME NEW ch \in edits
      PROVE  lags(Amended(quiet, ch).replicas) /\ held(Amended(quiet, ch).slots)
  <2>1. \/ DOMAIN ch = {"replicas"} /\ lags(ch.replicas)
        \/ DOMAIN ch = {"slots"} /\ held(ch.slots)
        \/ DOMAIN ch = {"isReplica"}
        \/ DOMAIN ch = {"subs"}
    <3>1. CASE \E l \in {Absent, Given(59), Given(60), Given(299), Given(300)}, s \in {"async", "quorum"} :
                 ch = [replicas |-> {[Replica("r1") EXCEPT !.lag = l, !.sync = s]}]
      <4>1. PICK l \in {Absent, Given(59), Given(60), Given(299), Given(300)}, s \in {"async", "quorum"} :
                 ch = [replicas |-> {[Replica("r1") EXCEPT !.lag = l, !.sync = s]}]
        BY <3>1
      <4>2. l \subseteq Int
        BY DEF Absent, Given
      <4>3. [Replica("r1") EXCEPT !.lag = l, !.sync = s].lag = l
        BY DEF Replica
      <4> QED
        BY <4>1, <4>2, <4>3
    <3>2. CASE \E a \in BOOLEAN, m \in {511, 512, 8192}, l \in BOOLEAN :
                 ch = [slots |-> {[name |-> "s", active |-> a, mib |-> m, lost |-> l]}]
      BY <3>2
    <3>3. CASE ch \in {[isReplica |-> TRUE], [subs |-> {[name |-> "s", running |-> FALSE]}]}
      BY <3>3
    <3> QED
      BY <3>1, <3>2, <3>3 DEF edits
  <2>2. /\ DOMAIN quiet = {"isReplica", "replicas", "slots", "subs"}
        /\ lags(quiet.replicas) /\ held(quiet.slots)
    OBVIOUS
  <2> HIDE DEF quiet, lags, held
  <2> QED
    BY <2>1, <2>2, AmendedRow
<1>4. lags(quiet.replicas) /\ held(quiet.slots)
  OBVIOUS
<1> QED
  BY <1>2, <1>3, <1>4 DEF One
-----------------------------------------------------------------------------
(* The inductive invariant: the report is one a run may find, section by   *)
(* section, and the findings are those of its rules.  Without the types of *)
(* the sections a reference could be left open, or one table be two.       *)
Observable(c) ==
    DOMAIN c = Sections /\ \A s \in Sections : c[s] \in Values(s)
FindingsInv ==
    /\ Observable(report) /\ tunables.replicaLag \in Int
    /\ findings = ComputeWithTunables(report, tunables)

LEMMA SectionNames ==
  Sections = {"server", "window", "health", "activity", "locks", "queries", "tables", "indexes", "wal",
              "io", "replication", "settings", "limits", "horizon", "sequences", "progress",
              "archiver", "checksums", "standby", "collation", "identity", "deltas", "waits", "schema"}
  BY DEF Sections, Healthy

(* What a run finds is well formed.                                        *)
LEMMA ObservableIsWellFormed ==
  ASSUME NEW c, Observable(c)
  PROVE  WellFormed(c)
<1>1. /\ c.queries \in Values("queries") /\ c.tables \in Values("tables")
      /\ c.limits \in Values("limits") /\ c.horizon \in Values("horizon")
      /\ c.activity \in Values("activity") /\ c.sequences \in Values("sequences")
      /\ c.replication \in Values("replication")
  BY SectionNames DEF Observable
<1>2. \A q \in c.queries : ~q.enabled => q.dealloc = 0 /\ q.max = 0
  BY <1>1, QueriesType
<1>3. \A t \in Top(c), u \in Top(c) : t.name = u.name => t = u
  <2>1. \A s \in c.tables : \A t \in s.top, u \in s.top : t.name = u.name => t = u
    BY <1>1, TablesType
  <2>2. One(c.tables)
    BY <1>1, TablesType
  <2> QED
    BY <2>1, <2>2 DEF Top, One
<1>4. One(c.limits) /\ \A l \in c.limits : l.used \in Int /\ l.max \in Int /\ l.xidAge \in Int /\ l.mxidAge \in Int
  BY <1>1, LimitsType
<1>5. One(c.horizon) /\ \A h \in c.horizon : h # <<>> => h[1].xminAge \in Int
  BY <1>1, HorizonType
<1>6. One(c.activity) /\ \A a \in c.activity : a.idleInTx \in Int /\ a.longestXact \in Int
  BY <1>1, ActivityType
<1>7. One(c.sequences) /\ \A s \in c.sequences : \A q \in DOMAIN s.pct : s.pct[q] \in Int
  BY <1>1, SequencesType
<1>8. /\ One(c.replication)
      /\ \A r \in c.replication :
          /\ \A x \in r.replicas : x.lag \subseteq Int
          /\ \A s \in r.slots : s.mib \in Int /\ s.active \in BOOLEAN /\ s.lost \in BOOLEAN
  BY <1>1, ReplicationType
<1> QED
  BY <1>2, <1>3, <1>4, <1>5, <1>6, <1>7, <1>8, Zenon DEF WellFormed

(* Every run finds a report whose sections are well typed, and its         *)
(* findings are those the rules compute of it (ComputeWithTunables).       *)
THEOREM FindingsInvHolds == FindingsSpec => []FindingsInv
<1>1. FindingsInit => FindingsInv
  <2> SUFFICES ASSUME FindingsInit PROVE FindingsInv
    OBVIOUS
  <2>1. Observable(report)
    BY DEF FindingsInit, Observable, Sections, Values
  <2>2. tunables.replicaLag \in Int
    BY DEF FindingsInit, DefaultTunables
  <2> QED
    BY <2>1, <2>2 DEF FindingsInit, FindingsInv
<1>2. FindingsInv /\ [FindingsNext]_findingsVars => FindingsInv'
  <2> SUFFICES ASSUME FindingsInv, [FindingsNext]_findingsVars PROVE FindingsInv'
    OBVIOUS
  <2>1. ASSUME NEW section \in Sections, RunFinds(section)
        PROVE  FindingsInv'
    <3>1. PICK v \in Values(section) :
            /\ report' = [report EXCEPT ![section] = v]
            /\ findings' = ComputeWithTunables(report', tunables) /\ tunables' = tunables
      BY <2>1, Zenon DEF RunFinds
    <3>2. DOMAIN report' = Sections /\ \A s \in Sections : report'[s] \in Values(s)
      BY <3>1 DEF FindingsInv, Observable
    <3> QED
      BY <3>1, <3>2 DEF FindingsInv, Observable
  <2>2. CASE UNCHANGED findingsVars
    BY <2>2 DEF FindingsInv, Observable, findingsVars
  <2> QED
    BY <2>1, <2>2 DEF FindingsNext
<1> QED
  BY <1>1, <1>2, PTL DEF FindingsSpec

(* A threshold raised in .pgbot.toml never hides a critical finding.       *)
THEOREM TuningHidesNoCritical == FindingsSpec => []CriticalSurvivesTuning
<1>1. FindingsInv => CriticalSurvivesTuning
  BY TuningSparesCriticals, Zenon DEF FindingsInv, CriticalSurvivesTuning
<1> QED
  BY <1>1, FindingsInvHolds, PTL

(* The findings of every run agree with the catalogue, resolve their       *)
(* references, do not contradict each other, and guard the destructive     *)
(* actions they advise.                                                    *)
THEOREM ReportsAreConsistent == FindingsSpec => []ReportIsConsistent
<1>1. FindingsInv => ReportIsConsistent
  BY ObservableIsWellFormed, ConsistentReport DEF FindingsInv
<1> QED
  BY <1>1, FindingsInvHolds, PTL
-----------------------------------------------------------------------------
(* The highest of some ranks.                                              *)
LEMMA MaxOfRanks ==
  ASSUME NEW ranks, ranks \subseteq 0 .. 3, 0 \in ranks
  PROVE  Max(ranks) \in ranks /\ \A r \in ranks : Max(ranks) >= r
<1>1. \E m \in ranks : \A r \in ranks : m >= r
  <2>1. CASE 3 \in ranks
    BY <2>1
  <2>2. CASE 3 \notin ranks /\ 2 \in ranks
    BY <2>2
  <2>3. CASE 3 \notin ranks /\ 2 \notin ranks /\ 1 \in ranks
    BY <2>3
  <2>4. CASE 3 \notin ranks /\ 2 \notin ranks /\ 1 \notin ranks
    BY <2>4
  <2> QED
    BY <2>1, <2>2, <2>3, <2>4
<1> QED
  BY <1>1 DEF Max

(* A finding of this id stays, and none that replaces it is milder: then   *)
(* its level does not fall.                                                *)
Grows(fs, gs, id) ==
    \A f \in fs : f.id = id => \E g \in gs : g.id = id /\ Rank(f.severity) <= Rank(g.severity)

LEMMA RankRange ==
  ASSUME NEW severity
  PROVE  Rank(severity) \in 1 .. 3
  BY DEF Rank

LEMMA LevelGrows ==
  ASSUME NEW fs, NEW gs, NEW id, Grows(fs, gs, id)
  PROVE  Level(fs, id) <= Level(gs, id)
<1> DEFINE ranks(hs) == {0} \union {Rank(f.severity) : f \in {g \in hs : g.id = id}}
<1>1. ASSUME NEW hs
      PROVE  ranks(hs) \subseteq 0 .. 3 /\ 0 \in ranks(hs) /\ Level(hs, id) = Max(ranks(hs))
  BY RankRange DEF Level
<1>2. ASSUME NEW r \in ranks(fs)
      PROVE  \E q \in ranks(gs) : r <= q
  <2>1. CASE r = 0
    BY <2>1
  <2>2. CASE r # 0
    <3>1. PICK f \in fs : f.id = id /\ r = Rank(f.severity)
      BY <2>2
    <3>2. PICK g \in gs : g.id = id /\ Rank(f.severity) <= Rank(g.severity)
      BY <3>1 DEF Grows
    <3> QED
      BY <3>1, <3>2
  <2> QED
    BY <2>1, <2>2
<1> HIDE DEF ranks
<1>3. /\ Level(fs, id) \in ranks(fs) /\ Level(gs, id) \in ranks(gs)
      /\ \A q \in ranks(gs) : Level(gs, id) >= q
  BY <1>1, MaxOfRanks
<1>4. PICK q \in ranks(gs) : Level(fs, id) <= q
  BY <1>2, <1>3
<1>5. Level(fs, id) \in 0 .. 3 /\ Level(gs, id) \in 0 .. 3 /\ q \in 0 .. 3 /\ Level(gs, id) >= q
  BY <1>1, <1>3, <1>4
<1> QED
  BY <1>4, <1>5

(* A rule of one finding: when it holds, and with which severity.          *)
Grades(fs, id, holds, severity) ==
    /\ \A f \in fs : f.id = id => holds /\ f.severity = severity
    /\ holds => \E f \in fs : f.id = id /\ f.severity = severity

WarnOrCritical(critical) == IF critical THEN "critical" ELSE "warn"

(* The wraparound rules grade by age, and grow with it.                    *)
LEMMA WraparoundGrades ==
  ASSUME NEW id, NEW age \in Int
  PROVE  Grades(Wraparound(id, age), id, age >= XidWarn, WarnOrCritical(age >= XidCrit))
<1> DEFINE severity == WarnOrCritical(age >= XidCrit)
           made == Prohibition(Finding(id, severity, "risk"), "VACUUM FULL")
<1>1. Wraparound(id, age) = When(age >= XidWarn, made)
  BY Zenon DEF Wraparound, WarnOrCritical
<1> HIDE DEF severity
<1>2. Made(made, id, severity, "risk", "cluster")
  BY FindingMade, GuardMade, Zenon
<1> HIDE DEF made
<1>3. made.id = id /\ made.severity = severity
  BY <1>2, Zenon DEF Made
<1> QED
  BY <1>1, <1>3, Zenon DEF When, Grades, severity

LEMMA WraparoundGrows ==
  ASSUME NEW id, NEW age \in Int, NEW later \in Int, age <= later
  PROVE  Grows(Wraparound(id, age), Wraparound(id, later), id)
<1>1. /\ age >= XidWarn => later >= XidWarn
      /\ Rank(WarnOrCritical(age >= XidCrit)) <= Rank(WarnOrCritical(later >= XidCrit))
  BY DEF XidWarn, XidCrit, Rank, WarnOrCritical
<1>2. /\ Grades(Wraparound(id, age), id, age >= XidWarn, WarnOrCritical(age >= XidCrit))
      /\ Grades(Wraparound(id, later), id, later >= XidWarn, WarnOrCritical(later >= XidCrit))
  BY WraparoundGrades
<1> QED
  BY <1>1, <1>2 DEF Grades, Grows

(* Each graded rule grows with its measure.                                *)
LEMMA LimitsGrow ==
  ASSUME NEW c, NEW d, NEW x, NEW y, c.limits = {x}, d.limits = {y}
  PROVE  /\ x.xidAge \in Int /\ y.xidAge \in Int /\ x.xidAge <= y.xidAge
              => Grows(TxidWraparound(c), TxidWraparound(d), "txid_wraparound")
         /\ x.mxidAge \in Int /\ y.mxidAge \in Int /\ x.mxidAge <= y.mxidAge
              => Grows(MxidWraparound(c), MxidWraparound(d), "mxid_wraparound")
<1>1. /\ TxidWraparound(c) = Wraparound("txid_wraparound", x.xidAge)
      /\ TxidWraparound(d) = Wraparound("txid_wraparound", y.xidAge)
      /\ MxidWraparound(c) = Wraparound("mxid_wraparound", x.mxidAge)
      /\ MxidWraparound(d) = Wraparound("mxid_wraparound", y.mxidAge)
  BY DEF TxidWraparound, MxidWraparound
<1> QED
  BY <1>1, WraparoundGrows

LEMMA SaturationGrows ==
  ASSUME NEW c, NEW d, NEW x, NEW y, c.limits = {x}, d.limits = {y},
         x.used \in Int, y.used \in Int, x.max \in Int, x.max = y.max, x.used <= y.used
  PROVE  Grows(ConnectionSaturation(c), ConnectionSaturation(d), "connection_saturation")
<1> DEFINE made(severity) == Finding("connection_saturation", severity, "risk")
<1>1. ASSUME NEW r, NEW l, r.limits = {l}, l.max = x.max
      PROVE  ConnectionSaturation(r) = IF x.max > 0
                THEN When(100 * l.used >= 85 * x.max, made(WarnOrCritical(100 * l.used >= 95 * x.max)))
                ELSE {}
  BY <1>1 DEF ConnectionSaturation, WarnOrCritical
<1>2. \A severity : made(severity).id = "connection_saturation" /\ made(severity).severity = severity
  BY DEF Finding
<1> HIDE DEF made
<1>3. /\ 100 * x.used >= 85 * x.max => 100 * y.used >= 85 * x.max
      /\ Rank(WarnOrCritical(100 * x.used >= 95 * x.max)) <= Rank(WarnOrCritical(100 * y.used >= 95 * x.max))
  BY DEF Rank, WarnOrCritical
<1> QED
  BY <1>1, <1>2, <1>3 DEF Grows, When

LEMMA SessionsGrow ==
  ASSUME NEW c, NEW d, NEW x, NEW y, c.activity = {x}, d.activity = {y},
         x.longestXact \in Int, y.longestXact \in Int, x.idleInTx \in Int, y.idleInTx \in Int,
         x.longestXact <= y.longestXact, x.idleInTx <= y.idleInTx
  PROVE  /\ Grows(IdleInTransaction(c), IdleInTransaction(d), "idle_in_transaction")
         /\ Grows(LongRunningXact(c), LongRunningXact(d), "long_running_transaction")
<1> DEFINE severity(n) == IF n >= 60 THEN "warn" ELSE "info"
           idle(level) == Finding("idle_in_transaction", level, "risk")
           long == Finding("long_running_transaction", "warn", "risk")
<1>1. ASSUME NEW r, NEW a, r.activity = {a}
      PROVE  /\ IdleInTransaction(r) = When(a.idleInTx > 0, idle(severity(a.longestXact)))
             /\ LongRunningXact(r) = When(a.longestXact >= 300, long)
  <2> HIDE DEF idle, severity, long
  <2>1. IdleInTransaction(r) = UNION {When(b.idleInTx > 0, idle(severity(b.longestXact))) : b \in r.activity}
    BY DEF IdleInTransaction, idle, severity
  <2>2. LongRunningXact(r) = When(\E b \in r.activity : b.longestXact >= 300, long)
    BY DEF LongRunningXact, long
  <2> QED
    BY <1>1, <2>1, <2>2 DEF When
<1>2. \A level : idle(level).id = "idle_in_transaction" /\ idle(level).severity = level
  BY DEF Finding
<1>3. Rank(severity(x.longestXact)) <= Rank(severity(y.longestXact)) /\ Rank(long.severity) <= Rank(long.severity)
  BY DEF Rank, Finding
<1> HIDE DEF idle, long, severity
<1>4. Grows(IdleInTransaction(c), IdleInTransaction(d), "idle_in_transaction")
  BY <1>1, <1>2, <1>3 DEF Grows, When
<1>5. Grows(LongRunningXact(c), LongRunningXact(d), "long_running_transaction")
  BY <1>1, <1>3 DEF Grows, When
<1> QED
  BY <1>4, <1>5

LEMMA HorizonGrows ==
  ASSUME NEW c, NEW d, NEW x, NEW y, c.horizon = {x}, d.horizon = {y}, y # <<>>,
         x # <<>> => x[1].xminAge \in Int /\ x[1].xminAge <= y[1].xminAge, y[1].xminAge \in Int
  PROVE  Grows(VacuumHorizonBlocked(c), VacuumHorizonBlocked(d), "vacuum_horizon_blocked")
<1> DEFINE dim(threat) == IF threat THEN "risk" ELSE "storage"
           made(level, dimension, source) ==
             HorizonRemediation(Confident(Finding("vacuum_horizon_blocked", level, dimension), 90), source)
           oldest(h) == h[1].xminAge
           blocked(h) == When(oldest(h) >= 1000000, made(WarnOrCritical(oldest(h) >= XidWarn),
                                                         dim(oldest(h) >= XidWarn), h[1].source))
<1>1. ASSUME NEW r, NEW h, r.horizon = {h}
      PROVE  /\ h = <<>> => VacuumHorizonBlocked(r) = {}
             /\ h # <<>> => VacuumHorizonBlocked(r) = blocked(h)
  <2>1. VacuumHorizonBlocked(r) = UNION {blocked(g) : g \in r.horizon \ {<<>>}}
    BY SMT DEF VacuumHorizonBlocked, WarnOrCritical
  <2> HIDE DEF blocked
  <2> QED
    BY <1>1, <2>1, SMT
<1>2. ASSUME NEW level, NEW dimension, NEW source
      PROVE  /\ made(level, dimension, source).id = "vacuum_horizon_blocked"
             /\ made(level, dimension, source).severity = level
  <2> DEFINE g == Confident(Finding("vacuum_horizon_blocked", level, dimension), 90)
             f == HorizonRemediation(g, source)
  <2>1. Emitted(g, "vacuum_horizon_blocked", level, dimension, "cluster", {})
    BY ConfidentEmits, Zenon
  <2> HIDE DEF g
  <2>2. f = Advises(g, "DROP REPLICATION SLOT") \/ f = g
    BY Zenon DEF HorizonRemediation
  <2> HIDE DEF f
  <2>3. Made(f, "vacuum_horizon_blocked", level, dimension, "cluster")
    BY <2>1, <2>2, AdvisesMade, Zenon DEF Emitted
  <2> QED
    BY <2>3, Zenon DEF Made, f, g
<1> HIDE DEF made, dim
<1>4. CASE x = <<>>
  <2>1. VacuumHorizonBlocked(c) = {}
    <3> HIDE DEF blocked
    <3> QED
      BY <1>1, <1>4, Zenon
  <2> QED
    BY <2>1 DEF Grows
<1>5. CASE x # <<>>
  <2>1. /\ oldest(x) >= 1000000 => oldest(y) >= 1000000
        /\ Rank(WarnOrCritical(oldest(x) >= XidWarn)) <= Rank(WarnOrCritical(oldest(y) >= XidWarn))
    BY <1>5, SMT DEF XidWarn, Rank, WarnOrCritical
  <2>2. VacuumHorizonBlocked(c) = blocked(x) /\ VacuumHorizonBlocked(d) = blocked(y)
    <3> HIDE DEF blocked
    <3> QED
      BY <1>1, <1>5, SMT
  <2> HIDE DEF oldest
  <2> QED
    BY <1>2, <2>1, <2>2 DEF Grows, When
<1> QED
  BY <1>4, <1>5

LEMMA SequencesGrow ==
  ASSUME NEW c, NEW d, NEW x, NEW y, c.sequences = {x}, d.sequences = {y},
         \A q \in DOMAIN x.pct : x.pct[q] \in Int, \A q \in DOMAIN y.pct : y.pct[q] \in Int,
         \A q \in DOMAIN x.pct : q \in DOMAIN y.pct /\ x.pct[q] <= y.pct[q]
  PROVE  Grows(SequenceExhaustion(c), SequenceExhaustion(d), "sequence_exhaustion")
<1> DEFINE full(s, pct) == \E q \in DOMAIN s.pct : s.pct[q] >= pct
           names(s) == {q \in DOMAIN s.pct : s.pct[q] >= 80}
           level(s) == WarnOrCritical(full(s, 90))
           made(severity, ns) == Widening(Over(Finding("sequence_exhaustion", severity, "risk"), ns))
<1>1. ASSUME NEW r, NEW s, r.sequences = {s}, \A q \in DOMAIN s.pct : s.pct[q] \in Int
      PROVE  SequenceExhaustion(r) = IF full(s, 80) THEN {made(level(s), names(s))} ELSE {}
  <2> DEFINE pct == UNION {{<<q, t.pct[q]>> : q \in DOMAIN t.pct} : t \in r.sequences}
             found == {q \in pct : q[2] >= 80}
             critical == \E q \in found : q[2] >= 90
  <2>1. SequenceExhaustion(r) = When(found # {}, made(WarnOrCritical(critical), {q[1] : q \in found}))
    BY Zenon DEF SequenceExhaustion, Some, WarnOrCritical
  <2>2. pct = {<<q, s.pct[q]>> : q \in DOMAIN s.pct}
    BY <1>1
  <2>3. \A p \in found : p[1] \in names(s) /\ p[2] = s.pct[p[1]]
    <3> HIDE DEF pct
    <3> QED
      BY <2>2, SMT
  <2>4. \A q \in names(s) : \E p \in found : p[1] = q /\ p[2] = s.pct[q]
    <3>1. ASSUME NEW q \in DOMAIN s.pct
          PROVE  \E p \in pct : p[1] = q /\ p[2] = s.pct[q]
      <4>1. <<q, s.pct[q]>> \in pct
        BY <2>2, Zenon
      <4> HIDE DEF pct
      <4> QED
        BY <4>1
    <3> HIDE DEF pct
    <3> QED
      BY <3>1, SMT
  <2> HIDE DEF found
  <2>5. (found # {}) <=> full(s, 80)
    BY <2>3, <2>4
  <2>6. critical <=> full(s, 90)
    BY <1>1, <2>3, <2>4
  <2>7. {q[1] : q \in found} = names(s)
    <3> HIDE DEF names
    <3> QED
      BY <2>3, <2>4
  <2>8. WarnOrCritical(critical) = level(s)
    <3> HIDE DEF critical, full
    <3> QED
      BY <2>6 DEF WarnOrCritical
  <2> HIDE DEF made, full, names, critical, level
  <2> QED
    BY <2>1, <2>5, <2>7, <2>8 DEF When
<1>2. full(x, 80) => full(y, 80)
  BY SMT
<1>3. full(x, 90) => full(y, 90)
  BY SMT
<1>4. ASSUME NEW s, full(s, 80), NEW severity
      PROVE  /\ made(severity, names(s)).id = "sequence_exhaustion"
             /\ made(severity, names(s)).severity = severity
  <2>1. names(s) # {}
    BY <1>4
  <2> HIDE DEF names
  <2>2. Emitted(made(severity, names(s)), "sequence_exhaustion", severity, "risk", "relation", {})
    BY <2>1, OverEmits, WideningEmits, Zenon
  <2> QED
    BY <2>2, Zenon DEF Emitted, Made
<1>5. Rank(level(x)) <= Rank(level(y))
  <2> HIDE DEF full
  <2> QED
    BY <1>3 DEF Rank, WarnOrCritical
<1> HIDE DEF made, full, names, level
<1> QED
  BY <1>1, <1>2, <1>4, <1>5 DEF Grows

LEMMA SlotsGrow ==
  ASSUME NEW c, NEW d, NEW x, NEW y, c.replication = {x}, d.replication = {y},
         \A s \in x.slots : s.mib \in Int /\ s.active \in BOOLEAN /\ s.lost \in BOOLEAN,
         \A s \in y.slots : s.mib \in Int /\ s.active \in BOOLEAN /\ s.lost \in BOOLEAN,
         \A a \in x.slots : \E b \in y.slots :
            (b.active => a.active) /\ (a.lost => b.lost) /\ a.mib <= b.mib
  PROVE  Grows(ReplicationSlotRisk(c), ReplicationSlotRisk(d), "replication_slot_inactive")
<1> DEFINE risky(s) == s.lost \/ (~s.active /\ s.mib >= 512)
           level(s) == WarnOrCritical(s.lost \/ s.mib >= 8192)
           action == "DROP REPLICATION SLOT"
           made(severity, name) ==
             Prohibition(Advises(Confident(About(Finding("replication_slot_inactive", severity, "risk"),
                                                 "slot", name), 90), action), action)
<1>1. ASSUME NEW r, NEW one, r.replication = {one}
      PROVE  ReplicationSlotRisk(r) = {made(level(s), s.name) : s \in {s \in one.slots : risky(s)}}
  <2>1. UNION {q.slots : q \in r.replication} = one.slots
    BY <1>1
  <2>2. ReplicationSlotRisk(r)
          = {made(level(s), s.name) : s \in {s \in UNION {q.slots : q \in r.replication} : risky(s)}}
    BY DEF ReplicationSlotRisk, WarnOrCritical
  <2> HIDE DEF made, level, risky
  <2> QED
    BY <2>1, <2>2
<1>2. ASSUME NEW severity, NEW name
      PROVE  made(severity, name).id = "replication_slot_inactive" /\ made(severity, name).severity = severity
  <2> DEFINE about == About(Finding("replication_slot_inactive", severity, "risk"), "slot", name)
             sure == Confident(about, 90)
             advice == Advises(sure, action)
  <2>1. Emitted(about, "replication_slot_inactive", severity, "risk", "slot", {})
    BY FindingMade, AboutMade, Zenon DEF Emitted
  <2> HIDE DEF about
  <2>2. Emitted(sure, "replication_slot_inactive", severity, "risk", "slot", {})
    BY <2>1, ConfidentMade, Zenon DEF Emitted
  <2> HIDE DEF sure
  <2>3. /\ Made(advice, "replication_slot_inactive", severity, "risk", "slot")
        /\ Owes(advice, {action}, {})
    BY <2>2, AdvisedAction, Zenon
  <2> HIDE DEF advice
  <2>4. Made(Prohibition(advice, action), "replication_slot_inactive", severity, "risk", "slot")
    BY <2>3, GuardMade, Zenon
  <2> QED
    BY <2>4, Zenon DEF Made, about, sure, advice
<1> HIDE DEF made
<1>3. ASSUME NEW a \in x.slots, risky(a)
      PROVE  \E b \in y.slots : risky(b) /\ Rank(level(a)) <= Rank(level(b))
  BY <1>3 DEF Rank, WarnOrCritical
<1>4. ASSUME NEW f \in ReplicationSlotRisk(c)
      PROVE  \E g \in ReplicationSlotRisk(d) :
                g.id = "replication_slot_inactive" /\ Rank(f.severity) <= Rank(g.severity)
  <2> HIDE DEF level, risky
  <2>1. PICK a \in x.slots : risky(a) /\ f = made(level(a), a.name)
    BY <1>1
  <2>2. PICK b \in y.slots : risky(b) /\ Rank(level(a)) <= Rank(level(b))
    BY <1>3, <2>1
  <2>3. made(level(b), b.name) \in ReplicationSlotRisk(d)
    BY <1>1, <2>2
  <2> QED
    BY <1>2, <2>1, <2>2, <2>3
<1> QED
  BY <1>4, Zenon DEF Grows

LEMMA LagGrows ==
  ASSUME NEW c, NEW d, NEW tun, NEW x, NEW y, c.replication = {x}, d.replication = {y},
         tun.replicaLag \in Int,
         \A r \in x.replicas : r.lag \subseteq Int, \A r \in y.replicas : r.lag \subseteq Int,
         \A a \in x.replicas : \E b \in y.replicas : \A l \in a.lag : AtLeast(b.lag, l),
         c.wal = d.wal
  PROVE  Grows(ReplicaLagTime(c, tun), ReplicaLagTime(d, tun), "replica_lag_time")
<1> DEFINE behind(r) == Lagging(r, tun) # {}
           past(r) == \E q \in Lagging(r, tun) : AtLeast(q.lag, ReplicaLagCrit)
           made(severity) == Confident(Finding("replica_lag_time", severity, "risk"), 85)
<1>1. ASSUME NEW r
      PROVE  ReplicaLagTime(r, tun) = When(WalFlowing(r) /\ behind(r), made(WarnOrCritical(past(r))))
  BY Zenon DEF ReplicaLagTime, WarnOrCritical
<1>2. \A severity : made(severity).id = "replica_lag_time" /\ made(severity).severity = severity
  BY DEF Confident, Finding
<1>3. WalFlowing(c) = WalFlowing(d)
  BY DEF WalFlowing
<1>4. Replicas(c) = x.replicas /\ Replicas(d) = y.replicas
  BY DEF Replicas
<1>5. behind(c) => behind(d)
  BY <1>4 DEF Lagging, AtLeast, ReplicaLagCrit
<1>6. past(c) => past(d)
  BY <1>4 DEF Lagging, AtLeast, ReplicaLagCrit
<1> HIDE DEF made, behind, past
<1>7. Rank(WarnOrCritical(past(c))) <= Rank(WarnOrCritical(past(d)))
  BY <1>6 DEF Rank, WarnOrCritical
<1> QED
  BY <1>1, <1>2, <1>3, <1>5, <1>7 DEF Grows, When

(* The level of an id follows the one rule that emits it.                  *)
LEMMA RuleGrows ==
  ASSUME NEW c, NEW d, NEW tun, NEW id, NEW old, NEW new,
         \A f \in ComputeWithTunables(c, tun) : f.id = id => f \in old,
         new \subseteq ComputeWithTunables(d, tun), Grows(old, new, id)
  PROVE  Level(ComputeWithTunables(c, tun), id) <= Level(ComputeWithTunables(d, tun), id)
<1>1. Grows(ComputeWithTunables(c, tun), ComputeWithTunables(d, tun), id)
  BY DEF Grows
<1> QED
  BY <1>1, LevelGrows

(* Of the failover rule, one part emits replica_lag_time.                  *)
LEMMA LagIsReplicaLagTime ==
  ASSUME NEW c, NEW tun, NEW f \in FailoverReadiness(c, tun), f.id = "replica_lag_time"
  PROVE  f \in ReplicaLagTime(c, tun)
<1>1. \/ f \in SyncRepDegraded(c) \/ f \in ReplicaLagTime(c, tun)
      \/ f = Finding("recovery_conflicts", "warn", "risk")
      \/ f = Confident(Finding("replica_disconnected", "warn", "risk"), 80)
  BY Zenon DEF FailoverReadiness, When
<1>2. \/ f \in ReplicaLagTime(c, tun)
      \/ f.id \in {"sync_rep_degraded", "recovery_conflicts", "replica_disconnected"}
  BY <1>1, SyncRepDegradedEmits, ConfidentEmits DEF Emitted, Made
<1> QED
  BY <1>2

(* Of two well-formed reports, the one with the worse measure has no lower *)
(* level.                                                                  *)
LEMMA LevelsGrow ==
  ASSUME NEW c, NEW d, NEW tun, WellFormed(c), WellFormed(d), tun.replicaLag \in Int
  PROVE  LET grows(id) == Level(ComputeWithTunables(c, tun), id) <= Level(ComputeWithTunables(d, tun), id)
         IN  /\ \A x \in c.limits, y \in d.limits :
                  /\ x.xidAge <= y.xidAge => grows("txid_wraparound")
                  /\ x.mxidAge <= y.mxidAge => grows("mxid_wraparound")
                  /\ x.max = y.max /\ x.used <= y.used => grows("connection_saturation")
             /\ \A x \in c.horizon, y \in d.horizon :
                  y # <<>> /\ (x # <<>> => x[1].xminAge <= y[1].xminAge) => grows("vacuum_horizon_blocked")
             /\ \A x \in c.replication, y \in d.replication :
                  /\ (\A a \in x.slots : \E b \in y.slots :
                        (b.active => a.active) /\ (a.lost => b.lost) /\ a.mib <= b.mib)
                       => grows("replication_slot_inactive")
                  /\ (\A a \in x.replicas : \E b \in y.replicas : \A l \in a.lag : AtLeast(b.lag, l))
                       /\ c.wal = d.wal => grows("replica_lag_time")
             /\ \A x \in c.activity, y \in d.activity :
                  x.longestXact <= y.longestXact /\ x.idleInTx <= y.idleInTx
                    => grows("idle_in_transaction") /\ grows("long_running_transaction")
             /\ \A x \in c.sequences, y \in d.sequences :
                  (\A q \in DOMAIN x.pct : q \in DOMAIN y.pct /\ x.pct[q] <= y.pct[q])
                    => grows("sequence_exhaustion")
<1> DEFINE grows(id) == Level(ComputeWithTunables(c, tun), id) <= Level(ComputeWithTunables(d, tun), id)
<1>1. \A f \in ComputeWithTunables(c, tun) : Origin(c, tun, f)
  BY EveryFindingHasOrigin
<1>2. UNION {TxidWraparound(d), MxidWraparound(d), ConnectionSaturation(d), VacuumHorizonBlocked(d),
             ReplicationSlotRisk(d), ReplicaLagTime(d, tun), IdleInTransaction(d), LongRunningXact(d),
             SequenceExhaustion(d)} \subseteq ComputeWithTunables(d, tun)
  BY DEF ComputeWithTunables, FailoverReadiness
<1>3. ASSUME NEW x \in c.limits, NEW y \in d.limits
      PROVE  /\ x.xidAge <= y.xidAge => grows("txid_wraparound")
             /\ x.mxidAge <= y.mxidAge => grows("mxid_wraparound")
             /\ x.max = y.max /\ x.used <= y.used => grows("connection_saturation")
  <2>1. c.limits = {x} /\ d.limits = {y}
    BY <1>3 DEF WellFormed, One
  <2>2. /\ x.used \in Int /\ x.max \in Int /\ x.xidAge \in Int /\ x.mxidAge \in Int
        /\ y.used \in Int /\ y.max \in Int /\ y.xidAge \in Int /\ y.mxidAge \in Int
    BY <1>3 DEF WellFormed
  <2>3. /\ x.xidAge <= y.xidAge => Grows(TxidWraparound(c), TxidWraparound(d), "txid_wraparound")
        /\ x.mxidAge <= y.mxidAge => Grows(MxidWraparound(c), MxidWraparound(d), "mxid_wraparound")
    BY <2>1, <2>2, LimitsGrow
  <2>4. x.max = y.max /\ x.used <= y.used
           => Grows(ConnectionSaturation(c), ConnectionSaturation(d), "connection_saturation")
    BY <2>1, <2>2, SaturationGrows
  <2>5. x.xidAge <= y.xidAge => grows("txid_wraparound")
    BY <1>1, <1>2, <2>3, RuleGrows DEF Origin
  <2>6. x.mxidAge <= y.mxidAge => grows("mxid_wraparound")
    BY <1>1, <1>2, <2>3, RuleGrows DEF Origin
  <2>7. x.max = y.max /\ x.used <= y.used => grows("connection_saturation")
    BY <1>1, <1>2, <2>4, RuleGrows DEF Origin
  <2> QED
    BY <2>5, <2>6, <2>7
<1>4. ASSUME NEW x \in c.horizon, NEW y \in d.horizon,
             y # <<>>, x # <<>> => x[1].xminAge <= y[1].xminAge
      PROVE  grows("vacuum_horizon_blocked")
  <2>1. c.horizon = {x} /\ d.horizon = {y}
    BY <1>4 DEF WellFormed, One
  <2>2. (x # <<>> => x[1].xminAge \in Int) /\ y[1].xminAge \in Int
    BY <1>4 DEF WellFormed
  <2>3. Grows(VacuumHorizonBlocked(c), VacuumHorizonBlocked(d), "vacuum_horizon_blocked")
    BY <1>4, <2>1, <2>2, HorizonGrows
  <2> QED
    BY <1>1, <1>2, <2>3, RuleGrows DEF Origin
<1>5. ASSUME NEW x \in c.replication, NEW y \in d.replication
      PROVE  /\ (\A a \in x.slots : \E b \in y.slots :
                   (b.active => a.active) /\ (a.lost => b.lost) /\ a.mib <= b.mib)
                  => grows("replication_slot_inactive")
             /\ (\A a \in x.replicas : \E b \in y.replicas : \A l \in a.lag : AtLeast(b.lag, l))
                  /\ c.wal = d.wal => grows("replica_lag_time")
  <2>1. c.replication = {x} /\ d.replication = {y}
    BY <1>5 DEF WellFormed, One
  <2>2. /\ \A s \in x.slots : s.mib \in Int /\ s.active \in BOOLEAN /\ s.lost \in BOOLEAN
        /\ \A s \in y.slots : s.mib \in Int /\ s.active \in BOOLEAN /\ s.lost \in BOOLEAN
        /\ \A r \in x.replicas : r.lag \subseteq Int
        /\ \A r \in y.replicas : r.lag \subseteq Int
    BY <1>5, Zenon DEF WellFormed
  <2>3. ASSUME \A a \in x.slots : \E b \in y.slots :
                  (b.active => a.active) /\ (a.lost => b.lost) /\ a.mib <= b.mib
        PROVE  grows("replication_slot_inactive")
    <3>1. Grows(ReplicationSlotRisk(c), ReplicationSlotRisk(d), "replication_slot_inactive")
      BY <2>1, <2>2, <2>3, SlotsGrow
    <3> QED
      BY <1>1, <1>2, <3>1, RuleGrows DEF Origin
  <2>4. ASSUME \A a \in x.replicas : \E b \in y.replicas : \A l \in a.lag : AtLeast(b.lag, l),
               c.wal = d.wal
        PROVE  grows("replica_lag_time")
    <3>1. Grows(ReplicaLagTime(c, tun), ReplicaLagTime(d, tun), "replica_lag_time")
      BY <2>1, <2>2, <2>4, LagGrows
    <3>2. \A f \in ComputeWithTunables(c, tun) : f.id = "replica_lag_time" => f \in ReplicaLagTime(c, tun)
      BY <1>1, LagIsReplicaLagTime DEF Origin
    <3> QED
      BY <1>2, <3>1, <3>2, RuleGrows
  <2> QED
    BY <2>3, <2>4
<1>6. ASSUME NEW x \in c.activity, NEW y \in d.activity,
             x.longestXact <= y.longestXact, x.idleInTx <= y.idleInTx
      PROVE  grows("idle_in_transaction") /\ grows("long_running_transaction")
  <2>1. c.activity = {x} /\ d.activity = {y}
    BY <1>6 DEF WellFormed, One
  <2>2. x.idleInTx \in Int /\ x.longestXact \in Int /\ y.idleInTx \in Int /\ y.longestXact \in Int
    BY <1>6 DEF WellFormed
  <2>3. /\ Grows(IdleInTransaction(c), IdleInTransaction(d), "idle_in_transaction")
        /\ Grows(LongRunningXact(c), LongRunningXact(d), "long_running_transaction")
    BY <1>6, <2>1, <2>2, SessionsGrow
  <2>4. grows("idle_in_transaction")
    BY <1>1, <1>2, <2>3, RuleGrows DEF Origin
  <2>5. grows("long_running_transaction")
    BY <1>1, <1>2, <2>3, RuleGrows DEF Origin
  <2> QED
    BY <2>4, <2>5
<1>7. ASSUME NEW x \in c.sequences, NEW y \in d.sequences,
             \A q \in DOMAIN x.pct : q \in DOMAIN y.pct /\ x.pct[q] <= y.pct[q]
      PROVE  grows("sequence_exhaustion")
  <2>1. c.sequences = {x} /\ d.sequences = {y}
    BY <1>7 DEF WellFormed, One
  <2>2. (\A q \in DOMAIN x.pct : x.pct[q] \in Int) /\ \A q \in DOMAIN y.pct : y.pct[q] \in Int
    BY <1>7 DEF WellFormed
  <2>3. Grows(SequenceExhaustion(c), SequenceExhaustion(d), "sequence_exhaustion")
    BY <1>7, <2>1, <2>2, SequencesGrow
  <2> QED
    BY <1>1, <1>2, <2>3, RuleGrows DEF Origin
<1> HIDE DEF grows
<1>8. /\ \A x \in c.limits, y \in d.limits :
           /\ x.xidAge <= y.xidAge => grows("txid_wraparound")
           /\ x.mxidAge <= y.mxidAge => grows("mxid_wraparound")
           /\ x.max = y.max /\ x.used <= y.used => grows("connection_saturation")
      /\ \A x \in c.horizon, y \in d.horizon :
           y # <<>> /\ (x # <<>> => x[1].xminAge <= y[1].xminAge) => grows("vacuum_horizon_blocked")
  BY <1>3, <1>4, Zenon
<1> QED
  BY <1>3, <1>4, <1>5, <1>6, <1>7, <1>8, Zenon DEF grows

(* A step that makes a measure worse, everything else as it was.           *)
LEMMA WorseStep ==
  FindingsInv /\ FindingsInv' /\ tunables' = tunables
    => \A id \in Worse : Level(findings, id) <= Level(findings', id)
<1> SUFFICES ASSUME FindingsInv, FindingsInv', tunables' = tunables, NEW id \in Worse
             PROVE  Level(findings, id) <= Level(findings', id)
  OBVIOUS
<1> DEFINE c == report
           d == report'
           grows(i) == Level(ComputeWithTunables(c, tunables), i) <= Level(ComputeWithTunables(d, tunables), i)
<1>1. findings = ComputeWithTunables(c, tunables) /\ findings' = ComputeWithTunables(d, tunables)
  BY DEF FindingsInv
<1>2. WellFormed(c) /\ WellFormed(d) /\ tunables.replicaLag \in Int
  BY ObservableIsWellFormed DEF FindingsInv
<1>3. \/ id = "txid_wraparound" /\ \E x \in c.limits, y \in d.limits : x.xidAge <= y.xidAge
      \/ id = "mxid_wraparound" /\ \E x \in c.limits, y \in d.limits : x.mxidAge <= y.mxidAge
      \/ id = "connection_saturation"
         /\ \E x \in c.limits, y \in d.limits : x.max = y.max /\ x.used <= y.used
      \/ id = "vacuum_horizon_blocked"
         /\ \E x \in c.horizon, y \in d.horizon : y # <<>> /\ (x # <<>> => x[1].xminAge <= y[1].xminAge)
      \/ id = "replication_slot_inactive"
         /\ \E x \in c.replication, y \in d.replication :
               \A a \in x.slots : \E b \in y.slots :
                  (b.active => a.active) /\ (a.lost => b.lost) /\ a.mib <= b.mib
      \/ /\ id = "replica_lag_time" /\ c.wal = d.wal
         /\ \E x \in c.replication, y \in d.replication :
               \A a \in x.replicas : \E b \in y.replicas : \A l \in a.lag : AtLeast(b.lag, l)
      \/ id \in {"idle_in_transaction", "long_running_transaction"}
         /\ \E x \in c.activity, y \in d.activity :
               x.longestXact <= y.longestXact /\ x.idleInTx <= y.idleInTx
      \/ id = "sequence_exhaustion"
         /\ \E x \in c.sequences, y \in d.sequences :
               \A q \in DOMAIN x.pct : q \in DOMAIN y.pct /\ x.pct[q] <= y.pct[q]
  BY SectionNames DEF Worse, Both
<1> HIDE DEF c, d
<1>4. grows(id)
  BY <1>2, <1>3, LevelsGrow, Zenon
<1> QED
  BY <1>1, <1>4

(* From one run to the next, no graded finding falls in severity while its *)
(* measure rises (the comparisons of findings.go with their thresholds).   *)
THEOREM WorseMeasuresAreNeverQuieter == FindingsSpec => WorseIsNeverQuieter
<1>1. FindingsInv /\ FindingsInv' /\ [FindingsNext]_findingsVars
        => [\A id \in Worse : Level(findings, id) <= Level(findings', id)]_findingsVars
  <2>1. [FindingsNext]_findingsVars => tunables' = tunables
    BY DEF FindingsNext, RunFinds, findingsVars
  <2> QED
    BY <2>1, WorseStep
<1> QED
  BY <1>1, FindingsInvHolds, PTL DEF FindingsSpec, WorseIsNeverQuieter
-----------------------------------------------------------------------------
(* A report of which sections are gone, and nothing else changed.          *)
Lost(now, before) == now = before \/ now = {}
Fades(c, d) ==
    /\ d.server = c.server /\ d.window = c.window
    /\ Lost(d.health, c.health) /\ Lost(d.activity, c.activity) /\ Lost(d.locks, c.locks)
    /\ Lost(d.queries, c.queries) /\ Lost(d.tables, c.tables) /\ Lost(d.indexes, c.indexes)
    /\ Lost(d.wal, c.wal) /\ Lost(d.io, c.io) /\ Lost(d.replication, c.replication)
    /\ Lost(d.settings, c.settings) /\ Lost(d.limits, c.limits) /\ Lost(d.horizon, c.horizon)
    /\ Lost(d.sequences, c.sequences) /\ Lost(d.progress, c.progress) /\ Lost(d.archiver, c.archiver)
    /\ Lost(d.checksums, c.checksums) /\ Lost(d.standby, c.standby) /\ Lost(d.collation, c.collation)
    /\ Lost(d.identity, c.identity) /\ Lost(d.deltas, c.deltas) /\ Lost(d.waits, c.waits)
    /\ Lost(d.schema, c.schema)

(* A rule over one section emits nothing new when that section is gone.    *)
LEMMA BlockingChainsFades ==
  ASSUME NEW c, NEW d, Lost(d.locks, c.locks), NEW f \in BlockingChains(d)
  PROVE  f \in BlockingChains(c)
<1>1. CASE d.locks = {}
  BY <1>1, SMT DEF BlockingChains, When
<1>2. CASE d.locks = c.locks
  BY <1>2, Zenon DEF BlockingChains, When
<1> QED
  BY <1>1, <1>2 DEF Lost

LEMMA IdleInTransactionFades ==
  ASSUME NEW c, NEW d, Lost(d.activity, c.activity), NEW f \in IdleInTransaction(d)
  PROVE  f \in IdleInTransaction(c)
<1>1. CASE d.activity = {}
  BY <1>1, SMT DEF IdleInTransaction
<1>2. CASE d.activity = c.activity
  BY <1>2, Zenon DEF IdleInTransaction
<1> QED
  BY <1>1, <1>2 DEF Lost

LEMMA LongRunningXactFades ==
  ASSUME NEW c, NEW d, Lost(d.activity, c.activity), NEW f \in LongRunningXact(d)
  PROVE  f \in LongRunningXact(c)
<1>1. CASE d.activity = {}
  BY <1>1, SMT DEF LongRunningXact, When
<1>2. CASE d.activity = c.activity
  BY <1>2, Zenon DEF LongRunningXact, When
<1> QED
  BY <1>1, <1>2 DEF Lost

LEMMA LowCacheHitFades ==
  ASSUME NEW c, NEW d, d.window = c.window, Lost(d.health, c.health), NEW f \in LowCacheHit(d)
  PROVE  f \in LowCacheHit(c)
<1>1. ColdWindow(d) = ColdWindow(c)
  BY DEF ColdWindow
<1>2. \A h \in d.health : h \in c.health
  BY DEF Lost
<1> QED
  BY <1>1, <1>2, Zenon DEF LowCacheHit, When

LEMMA HighRollbacksFades ==
  ASSUME NEW c, NEW d, d.window = c.window, d.server = c.server, Lost(d.health, c.health), NEW f \in HighRollbacks(d)
  PROVE  f \in HighRollbacks(c)
<1>1. CASE d.health = {}
  BY <1>1, SMT DEF HighRollbacks, When
<1>2. CASE d.health = c.health
  BY <1>2, Zenon DEF HighRollbacks, When
<1> QED
  BY <1>1, <1>2 DEF Lost

LEMMA WorkMemLowFades ==
  ASSUME NEW c, NEW d, Lost(d.health, c.health), NEW f \in WorkMemLow(d)
  PROVE  f \in WorkMemLow(c)
<1>1. CASE d.health = {}
  BY <1>1, SMT DEF WorkMemLow, When
<1>2. CASE d.health = c.health
  BY <1>2, Zenon DEF WorkMemLow, When
<1> QED
  BY <1>1, <1>2 DEF Lost

LEMMA CheckpointsForcedFades ==
  ASSUME NEW c, NEW d, Lost(d.io, c.io), NEW f \in CheckpointsForced(d)
  PROVE  f \in CheckpointsForced(c)
<1>1. CASE d.io = {}
  BY <1>1, SMT DEF CheckpointsForced, When
<1>2. CASE d.io = c.io
  BY <1>2, Zenon DEF CheckpointsForced, When
<1> QED
  BY <1>1, <1>2 DEF Lost

LEMMA WaitFindingsFades ==
  ASSUME NEW c, NEW d, Lost(d.waits, c.waits), NEW f \in WaitFindings(d)
  PROVE  f \in WaitFindings(c)
<1>1. CASE d.waits = {}
  BY <1>1, SMT DEF WaitFindings
<1>2. CASE d.waits = c.waits
  BY <1>2, Zenon DEF WaitFindings
<1> QED
  BY <1>1, <1>2 DEF Lost

LEMMA ConnectionSaturationFades ==
  ASSUME NEW c, NEW d, Lost(d.limits, c.limits), NEW f \in ConnectionSaturation(d)
  PROVE  f \in ConnectionSaturation(c)
<1>1. CASE d.limits = {}
  BY <1>1, SMT DEF ConnectionSaturation
<1>2. CASE d.limits = c.limits
  BY <1>2, Zenon DEF ConnectionSaturation
<1> QED
  BY <1>1, <1>2 DEF Lost

LEMMA ConnectionsOverprovisionedFades ==
  ASSUME NEW c, NEW d, Lost(d.limits, c.limits), NEW f \in ConnectionsOverprovisioned(d)
  PROVE  f \in ConnectionsOverprovisioned(c)
<1>1. CASE d.limits = {}
  BY <1>1, SMT DEF ConnectionsOverprovisioned, When
<1>2. CASE d.limits = c.limits
  BY <1>2, Zenon DEF ConnectionsOverprovisioned, When
<1> QED
  BY <1>1, <1>2 DEF Lost

LEMMA TxidWraparoundFades ==
  ASSUME NEW c, NEW d, Lost(d.limits, c.limits), NEW f \in TxidWraparound(d)
  PROVE  f \in TxidWraparound(c)
<1>1. CASE d.limits = {}
  BY <1>1, SMT DEF TxidWraparound
<1>2. CASE d.limits = c.limits
  BY <1>2, Zenon DEF TxidWraparound
<1> QED
  BY <1>1, <1>2 DEF Lost

LEMMA MxidWraparoundFades ==
  ASSUME NEW c, NEW d, Lost(d.limits, c.limits), NEW f \in MxidWraparound(d)
  PROVE  f \in MxidWraparound(c)
<1>1. CASE d.limits = {}
  BY <1>1, SMT DEF MxidWraparound
<1>2. CASE d.limits = c.limits
  BY <1>2, Zenon DEF MxidWraparound
<1> QED
  BY <1>1, <1>2 DEF Lost

LEMMA VacuumHorizonBlockedFades ==
  ASSUME NEW c, NEW d, Lost(d.horizon, c.horizon), NEW f \in VacuumHorizonBlocked(d)
  PROVE  f \in VacuumHorizonBlocked(c)
<1> DEFINE blocked(h) ==
             LET threat == h[1].xminAge >= XidWarn
             IN  When(h[1].xminAge >= 1000000,
                      HorizonRemediation(Confident(Finding("vacuum_horizon_blocked",
                          IF threat THEN "critical" ELSE "warn",
                          IF threat THEN "risk" ELSE "storage"), 90), h[1].source))
           held(holders) == UNION {blocked(h) : h \in holders \ {<<>>}}
<1>1. ASSUME NEW r
      PROVE  VacuumHorizonBlocked(r) = held(r.horizon)
  BY SMT DEF VacuumHorizonBlocked
<1>2. held({}) = {}
  BY SMT
<1> HIDE DEF held
<1> QED
  BY <1>1, <1>2, Zenon DEF Lost

LEMMA PreparedXactAbandonedFades ==
  ASSUME NEW c, NEW d, Lost(d.horizon, c.horizon), NEW f \in PreparedXactAbandoned(d)
  PROVE  f \in PreparedXactAbandoned(c)
<1>1. CASE d.horizon = {}
  BY <1>1, SMT DEF PreparedXactAbandoned
<1>2. CASE d.horizon = c.horizon
  BY <1>2, Zenon DEF PreparedXactAbandoned
<1> QED
  BY <1>1, <1>2 DEF Lost

LEMMA ConfigSanityFades ==
  ASSUME NEW c, NEW d, d.window = c.window, d.server = c.server, Lost(d.settings, c.settings), NEW f \in ConfigSanity(d)
  PROVE  f \in ConfigSanity(c)
<1>1. CASE d.settings = {}
  BY <1>1, SMT DEF ConfigSanity, When, Setting, Numeric, CloudProvider, WorkMemOvercommit
<1>2. CASE d.settings = c.settings
  BY <1>2, Zenon DEF ConfigSanity, When, Setting, Numeric, CloudProvider, WorkMemOvercommit
<1> QED
  BY <1>1, <1>2 DEF Lost

LEMMA IOTimingOffFades ==
  ASSUME NEW c, NEW d, Lost(d.settings, c.settings), NEW f \in IOTimingOff(d)
  PROVE  f \in IOTimingOff(c)
<1>1. CASE d.settings = {}
  BY <1>1, SMT DEF IOTimingOff, When, Setting
<1>2. CASE d.settings = c.settings
  BY <1>2, Zenon DEF IOTimingOff, When, Setting
<1> QED
  BY <1>1, <1>2 DEF Lost

LEMMA CollationVersionMismatchFades ==
  ASSUME NEW c, NEW d, Lost(d.collation, c.collation), NEW f \in CollationVersionMismatch(d)
  PROVE  f \in CollationVersionMismatch(c)
<1>1. CASE d.collation = {}
  BY <1>1, SMT DEF CollationVersionMismatch, When
<1>2. CASE d.collation = c.collation
  BY <1>2, Zenon DEF CollationVersionMismatch, When
<1> QED
  BY <1>1, <1>2 DEF Lost

LEMMA ReplicaIdentityMissingFades ==
  ASSUME NEW c, NEW d, Lost(d.identity, c.identity), NEW f \in ReplicaIdentityMissing(d)
  PROVE  f \in ReplicaIdentityMissing(c)
<1>1. CASE d.identity = {}
  BY <1>1, SMT DEF ReplicaIdentityMissing, When
<1>2. CASE d.identity = c.identity
  BY <1>2, Zenon DEF ReplicaIdentityMissing, When
<1> QED
  BY <1>1, <1>2 DEF Lost

LEMMA PgssEntriesEvictedFades ==
  ASSUME NEW c, NEW d, Lost(d.queries, c.queries), NEW f \in PgssEntriesEvicted(d)
  PROVE  f \in PgssEntriesEvicted(c)
<1>1. CASE d.queries = {}
  BY <1>1, SMT DEF PgssEntriesEvicted, When, PgssEvicting
<1>2. CASE d.queries = c.queries
  BY <1>2, Zenon DEF PgssEntriesEvicted, When, PgssEvicting
<1> QED
  BY <1>1, <1>2 DEF Lost

LEMMA UnindexedForeignKeysFades ==
  ASSUME NEW c, NEW d, Lost(d.indexes, c.indexes), NEW f \in UnindexedForeignKeys(d)
  PROVE  f \in UnindexedForeignKeys(c)
<1>1. CASE d.indexes = {}
  BY <1>1, SMT DEF UnindexedForeignKeys, Some, When
<1>2. CASE d.indexes = c.indexes
  BY <1>2, Zenon DEF UnindexedForeignKeys, Some, When
<1> QED
  BY <1>1, <1>2 DEF Lost

LEMMA PartitionSeqScanHeavyFades ==
  ASSUME NEW c, NEW d, d.window = c.window, d.server = c.server, Lost(d.tables, c.tables), NEW f \in PartitionSeqScanHeavy(d)
  PROVE  f \in PartitionSeqScanHeavy(c)
<1>1. CASE d.tables = {}
  BY <1>1, SMT DEF PartitionSeqScanHeavy, When, ColdWindow
<1>2. CASE d.tables = c.tables
  BY <1>2, Zenon DEF PartitionSeqScanHeavy, When, ColdWindow
<1> QED
  BY <1>1, <1>2 DEF Lost

LEMMA SeqScanHeavyFades ==
  ASSUME NEW c, NEW d, d.window = c.window, d.server = c.server, Lost(d.tables, c.tables), NEW f \in SeqScanHeavy(d)
  PROVE  f \in SeqScanHeavy(c)
<1>1. CASE d.tables = {}
  BY <1>1, SMT DEF SeqScanHeavy, Top, When, ColdWindow
<1>2. CASE d.tables = c.tables
  BY <1>2, Zenon DEF SeqScanHeavy, Top, When, ColdWindow
<1> QED
  BY <1>1, <1>2 DEF Lost

LEMMA LowHotUpdateRatioFades ==
  ASSUME NEW c, NEW d, Lost(d.tables, c.tables), NEW f \in LowHotUpdateRatio(d)
  PROVE  f \in LowHotUpdateRatio(c)
<1>1. CASE d.tables = {}
  BY <1>1, SMT DEF LowHotUpdateRatio, Top, Some, When
<1>2. CASE d.tables = c.tables
  BY <1>2, Zenon DEF LowHotUpdateRatio, Top, Some, When
<1> QED
  BY <1>1, <1>2 DEF Lost

LEMMA SequenceExhaustionFades ==
  ASSUME NEW c, NEW d, Lost(d.sequences, c.sequences), NEW f \in SequenceExhaustion(d)
  PROVE  f \in SequenceExhaustion(c)
<1>1. CASE d.sequences = {}
  BY <1>1, SMT DEF SequenceExhaustion, Some, When
<1>2. CASE d.sequences = c.sequences
  BY <1>2, Zenon DEF SequenceExhaustion, Some, When
<1> QED
  BY <1>1, <1>2 DEF Lost

LEMMA Int4IdentityColumnFades ==
  ASSUME NEW c, NEW d, Lost(d.sequences, c.sequences), NEW f \in Int4IdentityColumn(d)
  PROVE  f \in Int4IdentityColumn(c)
<1>1. CASE d.sequences = {}
  BY <1>1, SMT DEF Int4IdentityColumn, Some, When
<1>2. CASE d.sequences = c.sequences
  BY <1>2, Zenon DEF Int4IdentityColumn, Some, When
<1> QED
  BY <1>1, <1>2 DEF Lost

LEMMA ReplicationSlotRiskFades ==
  ASSUME NEW c, NEW d, Lost(d.replication, c.replication), NEW f \in ReplicationSlotRisk(d)
  PROVE  f \in ReplicationSlotRisk(c)
<1> DEFINE made(s) ==
             Prohibition(Advises(Confident(About(Finding("replication_slot_inactive",
                 IF s.lost \/ s.mib >= 8192 THEN "critical" ELSE "warn", "risk"), "slot", s.name), 90),
                 "DROP REPLICATION SLOT"), "DROP REPLICATION SLOT")
           risky(slots) == {s \in slots : s.lost \/ (~s.active /\ s.mib >= 512)}
           reported(replication) == {made(s) : s \in risky(UNION {r.slots : r \in replication})}
<1>1. \A r : ReplicationSlotRisk(r) = reported(r.replication)
  BY DEF ReplicationSlotRisk
<1>2. reported({}) = {}
  <2> HIDE DEF made
  <2> QED
    OBVIOUS
<1> HIDE DEF reported
<1> QED
  BY <1>1, <1>2, Zenon DEF Lost

LEMMA SubscriptionDownFades ==
  ASSUME NEW c, NEW d, Lost(d.replication, c.replication), NEW f \in SubscriptionDown(d)
  PROVE  f \in SubscriptionDown(c)
<1>1. CASE d.replication = {}
  BY <1>1, SMT DEF SubscriptionDown
<1>2. CASE d.replication = c.replication
  BY <1>2, Zenon DEF SubscriptionDown
<1> QED
  BY <1>1, <1>2 DEF Lost

(* Every id of the second set is one of the first, or of a rule that reads *)
(* absence.                                                                *)
Repeats(fs, gs) == \A g \in gs : g.id \in ReadAbsence \/ \E f \in fs : f.id = g.id

LEMMA RepeatsByOneId ==
  ASSUME NEW fs, NEW gs, NEW id, \A f \in fs \union gs : f.id = id, gs # {} => fs # {}
  PROVE  Repeats(fs, gs)
  BY DEF Repeats

(* The rules over several sections: a section that is gone changes what    *)
(* they say, or how sure they are, and brings no id up.                    *)
LEMMA InvalidIndexesFade ==
  ASSUME NEW c, NEW d, Lost(d.schema, c.schema)
  PROVE  Repeats(InvalidIndexes(c), InvalidIndexes(d))
<1>1. ASSUME NEW r
      PROVE  InvalidIndexes(r) # {} <=> {o \in UNION r.schema : o.invalid} # {}
  BY Zenon DEF InvalidIndexes, Some, When
<1>2. \A o : o \in UNION d.schema => o \in UNION c.schema
  BY DEF Lost
<1>3. InvalidIndexes(d) # {} => InvalidIndexes(c) # {}
  BY <1>1, <1>2
<1> QED
  BY <1>3, InvalidIndexesEmits, RepeatsByOneId, Zenon DEF Emitted, Made

LEMMA UnusedIndexesFade ==
  ASSUME NEW c, NEW d, NEW tun, d.window = c.window, Lost(d.indexes, c.indexes)
  PROVE  Repeats(UnusedIndexes(c, tun), UnusedIndexes(d, tun))
<1>1. ASSUME NEW r
      PROVE  UnusedIndexes(r, tun) # {}
               <=> ~ColdWindow(r) /\ {i \in UNION {s.unused : s \in r.indexes} : i.mib >= tun.unusedIndexMin} # {}
  BY Zenon DEF UnusedIndexes, When
<1>2. \A i : i \in UNION {s.unused : s \in d.indexes} => i \in UNION {s.unused : s \in c.indexes}
  BY DEF Lost
<1>3. ColdWindow(d) <=> ColdWindow(c)
  BY DEF ColdWindow
<1>4. UnusedIndexes(d, tun) # {} => UnusedIndexes(c, tun) # {}
  BY <1>1, <1>2, <1>3
<1> QED
  BY <1>4, UnusedIndexesEmits, RepeatsByOneId, Zenon DEF Emitted, Made

LEMMA RedundantIndexesFade ==
  ASSUME NEW c, NEW d, Lost(d.indexes, c.indexes)
  PROVE  Repeats(RedundantIndexes(c), RedundantIndexes(d))
<1>1. ASSUME NEW r
      PROVE  RedundantIndexes(r) # {} <=> UNION {s.redundant : s \in r.indexes} # {}
  BY Zenon DEF RedundantIndexes, Some, When
<1>2. \A i : i \in UNION {s.redundant : s \in d.indexes} => i \in UNION {s.redundant : s \in c.indexes}
  BY DEF Lost
<1>3. RedundantIndexes(d) # {} => RedundantIndexes(c) # {}
  BY <1>1, <1>2
<1> QED
  BY <1>3, RedundantIndexesEmits, RepeatsByOneId, Zenon DEF Emitted, Made

LEMMA BloatedTablesFade ==
  ASSUME NEW c, NEW d, NEW tun, Lost(d.tables, c.tables)
  PROVE  Repeats(BloatedTables(c, tun), BloatedTables(d, tun))
<1> DEFINE bloated(t) == /\ t.live + t.dead >= MinRows
                         /\ 100 * t.dead >= tun.deadRatio * (t.live + t.dead)
<1>1. ASSUME NEW r
      PROVE  BloatedTables(r, tun) # {} <=> {t \in Top(r) : bloated(t)} # {}
  BY Zenon DEF BloatedTables, Some, When
<1>2. \A t : t \in Top(d) => t \in Top(c)
  BY DEF Lost, Top
<1> HIDE DEF bloated
<1>3. BloatedTables(d, tun) # {} => BloatedTables(c, tun) # {}
  BY <1>1, <1>2
<1> QED
  BY <1>3, BloatedTablesEmits, RepeatsByOneId, Zenon DEF Emitted, Made

LEMMA SlowdownsFade ==
  ASSUME NEW c, NEW d, Lost(d.deltas, c.deltas)
  PROVE  Repeats(QuerySlowdown(c), QuerySlowdown(d))
<1>1. ASSUME NEW r
      PROVE  QuerySlowdown(r) # {} <=> Slowdowns(r) # {}
  BY Zenon DEF QuerySlowdown, When
<1>2. \A q : q \in UNION d.deltas => q \in UNION c.deltas
  BY DEF Lost
<1>3. Slowdowns(d) # {} => Slowdowns(c) # {}
  BY <1>2 DEF Slowdowns
<1>4. QuerySlowdown(d) # {} => QuerySlowdown(c) # {}
  BY <1>1, <1>3
<1> QED
  BY <1>4, QuerySlowdownEmits, RepeatsByOneId, Zenon DEF Emitted, Made

LEMMA TopFades ==
  ASSUME NEW c, NEW d, Lost(d.tables, c.tables)
  PROVE  Top(d) = Top(c) \/ Top(d) = {}
  BY DEF Top, Lost

(* Gone settings bring autovacuum_starved up, by the default trigger.      *)
LEMMA AutovacuumFades ==
  ASSUME NEW c, NEW d, Lost(d.tables, c.tables), Lost(d.activity, c.activity), Lost(d.settings, c.settings)
  PROVE  Repeats(AutovacuumHealth(c), AutovacuumHealth(d))
<1> DEFINE over(id, severity, dim, found) == Some(Over(Finding(id, severity, dim), Names(found)), found)
<1>1. ASSUME NEW r
      PROVE  AutovacuumHealth(r) =
               over("autovacuum_disabled_on_table", "critical", "risk", Disabled(r))
               \union over("table_never_vacuumed", "warn", "risk", NeverVacuumed(r))
               \union over("autovacuum_starved", "warn", "storage", Starved(r))
               \union When(WorkersSaturated(r), Finding("autovacuum_saturated", "warn", "throughput"))
               \union When(LongWorker(r), Finding("autovacuum_long_running", "info", "throughput"))
  BY Zenon DEF AutovacuumHealth
<1>2. ASSUME NEW f \in over("autovacuum_starved", "warn", "storage", Starved(d))
      PROVE  f.id \in ReadAbsence
  <2>1. PICK names : f = Over(Finding("autovacuum_starved", "warn", "storage"), names) /\ names # {}
    BY NamesOfSome, Zenon DEF Some, When
  <2>2. Emitted(f, "autovacuum_starved", "warn", "storage", "relation", {})
    BY <2>1, OverEmits, Zenon
  <2> QED
    BY <2>2 DEF ReadAbsence, Emitted, Made
<1>3. \A id, severity, dim : over(id, severity, dim, {}) = {}
  BY Zenon DEF Some, When
<1> HIDE DEF over
<1>4. /\ Disabled(d) = Disabled(c) \/ Disabled(d) = {}
      /\ NeverVacuumed(d) = NeverVacuumed(c) \/ NeverVacuumed(d) = {}
  BY TopFades DEF Disabled, NeverVacuumed
<1>5. WorkersSaturated(d) => WorkersSaturated(c)
  BY DEF WorkersSaturated, Numeric, Lost
<1>6. LongWorker(d) => LongWorker(c)
  BY DEF LongWorker, Lost
<1>7. ASSUME NEW f \in AutovacuumHealth(d)
      PROVE  f.id \in ReadAbsence \/ f \in AutovacuumHealth(c)
  BY <1>1, <1>2, <1>3, <1>4, <1>5, <1>6 DEF When
<1> QED
  BY <1>7, Zenon DEF Repeats

(* Gone settings bring stale_statistics up, by the default trigger.        *)
LEMMA StatisticsFade ==
  ASSUME NEW c, NEW d, Lost(d.tables, c.tables)
  PROVE  Repeats(StaleStatistics(c), StaleStatistics(d))
<1> DEFINE never(r) == Some(Over(Finding("never_analyzed", "warn", "latency"), Names(NeverAnalyzed(r))),
                            NeverAnalyzed(r))
<1>1. ASSUME NEW f \in StaleStatistics(d)
      PROVE  f.id = "stale_statistics" \/ (NeverAnalyzed(d) # {} /\ f \in never(d))
  <2>1. CASE f \in never(d)
    BY <2>1, Zenon DEF Some, When
  <2>2. CASE f.id = "never_analyzed" /\ f \notin never(d)
    <3> DEFINE stale == Over(Finding("stale_statistics", "warn", "latency"), Names(Stale(d)))
    <3>1. PICK related : f = [stale EXCEPT !.related = related] /\ Stale(d) # {}
      BY <2>2, Zenon DEF StaleStatistics, Some, When
    <3>2. Emitted(stale, "stale_statistics", "warn", "latency", "relation", {})
      BY <3>1, NamesOfSome, OverEmits, Zenon
    <3> HIDE DEF stale
    <3>3. f.id = stale.id
      BY <3>1, <3>2 DEF Emitted, Made, FieldNames
    <3> QED
      BY <2>2, <3>2, <3>3 DEF Emitted, Made
  <2> QED
    BY <2>1, <2>2, StaleStatisticsEmits DEF Emitted, Made
<1>2. NeverAnalyzed(d) = NeverAnalyzed(c) \/ NeverAnalyzed(d) = {}
  BY TopFades DEF NeverAnalyzed
<1>3. never(c) \subseteq StaleStatistics(c)
  BY DEF StaleStatistics
<1>4. NeverAnalyzed(d) = NeverAnalyzed(c) => never(d) = never(c)
  BY Zenon
<1> HIDE DEF never
<1> QED
  BY <1>1, <1>2, <1>3, <1>4 DEF Repeats, ReadAbsence

(* Without replication archiving may be reported off; stalled and failing  *)
(* need what is there.                                                     *)
LEMMA ArchivingFades ==
  ASSUME NEW c, NEW d, d.server = c.server, Lost(d.archiver, c.archiver), Lost(d.settings, c.settings),
         Lost(d.wal, c.wal), Lost(d.deltas, c.deltas)
  PROVE  Repeats(WalArchiving(c), WalArchiving(d))
<1> DEFINE made(r, id, bare, pct) ==
             Caveat(Confident(Finding(id, IF CloudProvider(r) THEN "info" ELSE bare, "risk"), pct),
                    "managed", CloudProvider(r))
           fails(r) == Failing(The(r.archiver)) \/ ArchiverFailedDelta(r)
           stalls(r) == Stalled(r, The(r.archiver))
           off(r) == /\ Setting(r, "archiveMode") = "off" /\ Setting(r, "walLevel") # "minimal"
                     /\ ~ReplicationInUse(r)
<1>1. ASSUME NEW r
      PROVE  WalArchiving(r) =
               IF r.archiver = {} THEN {} ELSE
                 When(fails(r), made(r, "archiving_failing", "critical", 95))
                 \union When(stalls(r), made(r, "archiving_stalled", "critical", 85))
                 \union When(off(r), made(r, "archiving_disabled", "warn", 80))
  BY Zenon DEF WalArchiving
<1>2. ASSUME NEW id, NEW bare, NEW pct
      PROVE  made(d, id, bare, pct) = made(c, id, bare, pct) /\ made(c, id, bare, pct).id = id
  <2>1. CloudProvider(d) <=> CloudProvider(c)
    BY DEF CloudProvider
  <2> DEFINE severity == IF CloudProvider(c) THEN "info" ELSE bare
  <2>2. (IF CloudProvider(d) THEN "info" ELSE bare) = severity
    BY <2>1
  <2> HIDE DEF severity
  <2> DEFINE g == Confident(Finding(id, severity, "risk"), pct)
  <2>3. Emitted(g, id, severity, "risk", "cluster", {})
    BY ConfidentEmits, Zenon
  <2>4. made(d, id, bare, pct) = Caveat(g, "managed", CloudProvider(d))
    BY <2>2, Zenon
  <2>5. made(c, id, bare, pct) = Caveat(g, "managed", CloudProvider(c))
    BY Zenon DEF severity
  <2> HIDE DEF g, made
  <2>6. Caveat(g, "managed", CloudProvider(d)) = Caveat(g, "managed", CloudProvider(c))
    BY <2>1 DEF Caveat, When
  <2>7. Caveat(g, "managed", CloudProvider(c)).id = id
    BY <2>3, CaveatMade DEF Emitted, Made
  <2> QED
    BY <2>4, <2>5, <2>6, <2>7
<1> HIDE DEF made
<1>3. CASE d.archiver = {}
  BY <1>1, <1>3 DEF Repeats
<1>4. CASE d.archiver # {}
  <2>1. c.archiver = d.archiver
    BY <1>4 DEF Lost
  <2>2. ArchiverFailedDelta(d) => ArchiverFailedDelta(c)
    BY DEF ArchiverFailedDelta, Lost
  <2>3. fails(d) => fails(c)
    BY <2>1, <2>2, Zenon
  <2>4. stalls(d) => stalls(c)
    <3> SUFFICES ASSUME stalls(d) PROVE stalls(c)
      OBVIOUS
    <3>1. d.settings = c.settings
      BY DEF Stalled, ArchivingOn, Setting, Lost
    <3>2. \A name : Setting(d, name) = Setting(c, name)
      BY <3>1 DEF Setting
    <3>3. WalFlowing(c)
      BY DEF Stalled, WalFlowing, Lost
    <3>4. ArchiveStallThreshold(d) = ArchiveStallThreshold(c)
      <4> DEFINE timeouts(r) == IF r.settings = {} THEN {} ELSE ParsePGDuration(Setting(r, "archiveTimeout"))
                 threshold(ts) == Max({3600} \union {3 * t : t \in ts})
      <4>1. timeouts(d) = timeouts(c)
        BY <3>1, <3>2
      <4>2. \A r : ArchiveStallThreshold(r) = threshold(timeouts(r))
        BY DEF ArchiveStallThreshold
      <4> HIDE DEF timeouts, threshold
      <4> QED
        BY <4>1, <4>2
    <3> QED
      BY <2>1, <3>2, <3>3, <3>4, Zenon DEF Stalled, ArchivingOn
  <2> HIDE DEF fails, stalls, off
  <2>5. ASSUME NEW f \in WalArchiving(d)
        PROVE  f.id \in ReadAbsence \/ f \in WalArchiving(c)
    <3>1. \/ fails(d) /\ f = made(c, "archiving_failing", "critical", 95)
          \/ stalls(d) /\ f = made(c, "archiving_stalled", "critical", 85)
          \/ f.id = "archiving_disabled"
      BY <1>1, <1>2, <1>4 DEF When
    <3> QED
      BY <1>1, <1>4, <2>1, <2>3, <2>4, <3>1 DEF When, ReadAbsence
  <2> QED
    BY <2>5, Zenon DEF Repeats
<1> QED
  BY <1>3, <1>4

LEMMA ChecksumsFade ==
  ASSUME NEW c, NEW d, Lost(d.checksums, c.checksums), Lost(d.settings, c.settings)
  PROVE  Repeats(ChecksumFindings(c), ChecksumFindings(d))
<1> DEFINE corrupt(failures) ==
             Prohibition(Prohibition([Finding("checksum_failures", "critical", "risk")
                                        EXCEPT !.objects = {<<"db", b>> : b \in failures}],
                                     "VACUUM FULL"), "REINDEX")
           ignored == SettingFinding("ignore_checksum_failure_on", "critical", "risk", "ignore_checksum_failure")
           disabled == SettingFinding("checksums_disabled", "info", "risk", "data_checksums")
<1>1. ASSUME NEW r
      PROVE  ChecksumFindings(r) =
               When(UNION r.checksums # {}, corrupt(UNION r.checksums))
               \union When(Setting(r, "ignoreChecksumFailure") = "on", ignored)
               \union When(Setting(r, "dataChecksums") = "off", disabled)
  BY DEF ChecksumFindings
<1> HIDE DEF corrupt, ignored, disabled
<1>2. UNION d.checksums = UNION c.checksums \/ UNION d.checksums = {}
  BY DEF Lost
<1>3. \A name : Setting(d, name) = Setting(c, name) \/ Setting(d, name) = ""
  BY DEF Setting, Lost
<1>4. \A f \in ChecksumFindings(d) : f \in ChecksumFindings(c)
  BY <1>1, <1>2, <1>3 DEF When
<1> QED
  BY <1>4, Zenon DEF Repeats

(* Without replication a synchronous standby is missing; a lag is not      *)
(* seen.                                                                   *)
LEMMA FailoverFades ==
  ASSUME NEW c, NEW d, NEW tun, Lost(d.replication, c.replication), Lost(d.wal, c.wal),
         Lost(d.standby, c.standby), Lost(d.deltas, c.deltas)
  PROVE  Repeats(FailoverReadiness(c, tun), FailoverReadiness(d, tun))
<1>1. ASSUME NEW f \in ReplicaLagTime(d, tun)
      PROVE  f \in ReplicaLagTime(c, tun)
  <2>1. WalFlowing(d) /\ Lagging(d, tun) # {}
    BY Zenon DEF ReplicaLagTime, When
  <2>2. WalFlowing(c)
    BY <2>1 DEF WalFlowing, Lost
  <2>3. Replicas(d) = Replicas(c)
    BY <2>1 DEF Lagging, Replicas, Lost
  <2>4. Lagging(d, tun) = Lagging(c, tun)
    BY <2>3 DEF Lagging
  <2> QED
    BY <2>2, <2>4, Zenon DEF ReplicaLagTime, When
<1>2. ASSUME NEW f \in SyncRepDegraded(d)
      PROVE  f.id \in ReadAbsence
  BY SyncRepDegradedEmits DEF Emitted, Made, ReadAbsence
<1>3. (\E s \in d.standby : s.conflicts > 0) => \E s \in c.standby : s.conflicts > 0
  BY DEF Lost
<1>4. (\E q \in UNION d.deltas : q.id = "replication.standby_gone")
        => \E q \in UNION c.deltas : q.id = "replication.standby_gone"
  BY DEF Lost
<1>5. ASSUME NEW f \in FailoverReadiness(d, tun)
      PROVE  f.id \in ReadAbsence \/ f \in FailoverReadiness(c, tun)
  <2> DEFINE conflicts == Finding("recovery_conflicts", "warn", "risk")
             gone == Confident(Finding("replica_disconnected", "warn", "risk"), 80)
  <2>1. ASSUME NEW r
        PROVE  FailoverReadiness(r, tun) =
                 SyncRepDegraded(r) \union ReplicaLagTime(r, tun)
                 \union When(\E s \in r.standby : s.conflicts > 0, conflicts)
                 \union When(\E q \in UNION r.deltas : q.id = "replication.standby_gone", gone)
    BY Zenon DEF FailoverReadiness, Gone
  <2> HIDE DEF conflicts, gone
  <2> QED
    BY <1>1, <1>2, <1>3, <1>4, <2>1, Zenon DEF When
<1> QED
  BY <1>5, Zenon DEF Repeats

(* Without settings no audit class is known.                               *)
LEMMA AuditFades ==
  ASSUME NEW c, NEW d, d.server = c.server, Lost(d.settings, c.settings)
  PROVE  Repeats(AuditPosture(c), AuditPosture(d))
<1> DEFINE silent == SettingFinding("pgaudit_silent", "warn", "risk", "pgaudit.log")
           parameters == SettingFinding("pgaudit_logs_parameters", "warn", "risk", "pgaudit.log_parameter")
           double == SettingFinding("pgaudit_double_logging", "info", "throughput", "log_statement")
           quiet(r) == Setting(r, "auditLog") \in {"", "none"}
<1>1. ASSUME NEW r
      PROVE  AuditPosture(r) =
               IF ~HasExtension(r, "pgaudit") THEN {} ELSE
               When(quiet(r), silent)
               \union When(Setting(r, "auditParameter") = "on", parameters)
               \union When(~quiet(r) /\ Setting(r, "logStatement") = "all", double)
  BY Zenon DEF AuditPosture
<1>2. silent.id \in ReadAbsence
  BY SettingFindingEmits DEF Emitted, Made, ReadAbsence
<1> HIDE DEF silent, parameters, double
<1>3. \A name : Setting(d, name) = Setting(c, name) \/ Setting(d, name) = ""
  BY DEF Setting, Lost
<1>4. HasExtension(d, "pgaudit") <=> HasExtension(c, "pgaudit")
  BY DEF HasExtension
<1>5. \A f \in AuditPosture(d) : f.id \in ReadAbsence \/ f \in AuditPosture(c)
  BY <1>1, <1>2, <1>3, <1>4 DEF When
<1> QED
  BY <1>5, Zenon DEF Repeats

LEMMA MissingPgssFades ==
  ASSUME NEW c, NEW d
  PROVE  Repeats(MissingPgss(c), MissingPgss(d))
  BY MissingPgssEmits DEF Repeats, Emitted, Made, ReadAbsence

LEMMA RuleRepeats ==
  ASSUME NEW c, NEW tun, NEW old, NEW new, old \subseteq ComputeWithTunables(c, tun), Repeats(old, new),
         NEW f \in new
  PROVE  f.id \in ReadAbsence \/ \E g \in ComputeWithTunables(c, tun) : g.id = f.id
  BY DEF Repeats

(* The rules together: no rule is left out.                                *)
LEMMA FadingIsQuiet ==
  ASSUME NEW c, NEW d, NEW tun, Fades(c, d), NEW f \in ComputeWithTunables(d, tun)
  PROVE  f.id \in ReadAbsence \/ \E g \in ComputeWithTunables(c, tun) : g.id = f.id
<1> DEFINE known == f.id \in ReadAbsence \/ \E g \in ComputeWithTunables(c, tun) : g.id = f.id
<1>0. \A g \in ComputeWithTunables(c, tun) : f = g => known
  OBVIOUS
<1> HIDE DEF known
<1>1. CASE f \in BlockingChains(d)
  <2>1. f \in BlockingChains(c)
    BY <1>1, BlockingChainsFades, Zenon DEF Fades
  <2> QED
    BY <1>0, <2>1, Zenon DEF ComputeWithTunables
<1>2. CASE f \in InvalidIndexes(d)
  <2>1. InvalidIndexes(c) \subseteq ComputeWithTunables(c, tun)
    BY DEF ComputeWithTunables
  <2>2. Repeats(InvalidIndexes(c), InvalidIndexes(d))
    BY InvalidIndexesFade DEF Fades
  <2> QED
    BY <1>2, <2>1, <2>2, RuleRepeats DEF known
<1>3. CASE f \in UnusedIndexes(d, tun)
  <2>1. UnusedIndexes(c, tun) \subseteq ComputeWithTunables(c, tun)
    BY DEF ComputeWithTunables
  <2>2. Repeats(UnusedIndexes(c, tun), UnusedIndexes(d, tun))
    BY UnusedIndexesFade DEF Fades
  <2> QED
    BY <1>3, <2>1, <2>2, RuleRepeats DEF known
<1>4. CASE f \in RedundantIndexes(d)
  <2>1. RedundantIndexes(c) \subseteq ComputeWithTunables(c, tun)
    BY DEF ComputeWithTunables
  <2>2. Repeats(RedundantIndexes(c), RedundantIndexes(d))
    BY RedundantIndexesFade DEF Fades
  <2> QED
    BY <1>4, <2>1, <2>2, RuleRepeats DEF known
<1>5. CASE f \in UnindexedForeignKeys(d)
  <2>1. f \in UnindexedForeignKeys(c)
    BY <1>5, UnindexedForeignKeysFades, Zenon DEF Fades
  <2> QED
    BY <1>0, <2>1, Zenon DEF ComputeWithTunables
<1>6. CASE f \in SeqScanHeavy(d)
  <2>1. f \in SeqScanHeavy(c)
    BY <1>6, SeqScanHeavyFades, Zenon DEF Fades
  <2> QED
    BY <1>0, <2>1, Zenon DEF ComputeWithTunables
<1>7. CASE f \in PartitionSeqScanHeavy(d)
  <2>1. f \in PartitionSeqScanHeavy(c)
    BY <1>7, PartitionSeqScanHeavyFades, Zenon DEF Fades
  <2> QED
    BY <1>0, <2>1, Zenon DEF ComputeWithTunables
<1>8. CASE f \in BloatedTables(d, tun)
  <2>1. BloatedTables(c, tun) \subseteq ComputeWithTunables(c, tun)
    BY DEF ComputeWithTunables
  <2>2. Repeats(BloatedTables(c, tun), BloatedTables(d, tun))
    BY BloatedTablesFade DEF Fades
  <2> QED
    BY <1>8, <2>1, <2>2, RuleRepeats DEF known
<1>9. CASE f \in StaleStatistics(d)
  <2>1. StaleStatistics(c) \subseteq ComputeWithTunables(c, tun)
    BY DEF ComputeWithTunables
  <2>2. Repeats(StaleStatistics(c), StaleStatistics(d))
    BY StatisticsFade DEF Fades
  <2> QED
    BY <1>9, <2>1, <2>2, RuleRepeats DEF known
<1>10. CASE f \in AutovacuumHealth(d)
  <2>1. AutovacuumHealth(c) \subseteq ComputeWithTunables(c, tun)
    BY DEF ComputeWithTunables
  <2>2. Repeats(AutovacuumHealth(c), AutovacuumHealth(d))
    BY AutovacuumFades DEF Fades
  <2> QED
    BY <1>10, <2>1, <2>2, RuleRepeats DEF known
<1>11. CASE f \in LowHotUpdateRatio(d)
  <2>1. f \in LowHotUpdateRatio(c)
    BY <1>11, LowHotUpdateRatioFades, Zenon DEF Fades
  <2> QED
    BY <1>0, <2>1, Zenon DEF ComputeWithTunables
<1>12. CASE f \in LowCacheHit(d)
  <2>1. f \in LowCacheHit(c)
    BY <1>12, LowCacheHitFades, Zenon DEF Fades
  <2> QED
    BY <1>0, <2>1, Zenon DEF ComputeWithTunables
<1>13. CASE f \in IdleInTransaction(d)
  <2>1. f \in IdleInTransaction(c)
    BY <1>13, IdleInTransactionFades, Zenon DEF Fades
  <2> QED
    BY <1>0, <2>1, Zenon DEF ComputeWithTunables
<1>14. CASE f \in LongRunningXact(d)
  <2>1. f \in LongRunningXact(c)
    BY <1>14, LongRunningXactFades, Zenon DEF Fades
  <2> QED
    BY <1>0, <2>1, Zenon DEF ComputeWithTunables
<1>15. CASE f \in ConnectionSaturation(d)
  <2>1. f \in ConnectionSaturation(c)
    BY <1>15, ConnectionSaturationFades, Zenon DEF Fades
  <2> QED
    BY <1>0, <2>1, Zenon DEF ComputeWithTunables
<1>16. CASE f \in TxidWraparound(d)
  <2>1. f \in TxidWraparound(c)
    BY <1>16, TxidWraparoundFades, Zenon DEF Fades
  <2> QED
    BY <1>0, <2>1, Zenon DEF ComputeWithTunables
<1>17. CASE f \in MxidWraparound(d)
  <2>1. f \in MxidWraparound(c)
    BY <1>17, MxidWraparoundFades, Zenon DEF Fades
  <2> QED
    BY <1>0, <2>1, Zenon DEF ComputeWithTunables
<1>18. CASE f \in SequenceExhaustion(d)
  <2>1. f \in SequenceExhaustion(c)
    BY <1>18, SequenceExhaustionFades, Zenon DEF Fades
  <2> QED
    BY <1>0, <2>1, Zenon DEF ComputeWithTunables
<1>19. CASE f \in Int4IdentityColumn(d)
  <2>1. f \in Int4IdentityColumn(c)
    BY <1>19, Int4IdentityColumnFades, Zenon DEF Fades
  <2> QED
    BY <1>0, <2>1, Zenon DEF ComputeWithTunables
<1>20. CASE f \in WalArchiving(d)
  <2>1. WalArchiving(c) \subseteq ComputeWithTunables(c, tun)
    BY DEF ComputeWithTunables
  <2>2. Repeats(WalArchiving(c), WalArchiving(d))
    BY ArchivingFades DEF Fades
  <2> QED
    BY <1>20, <2>1, <2>2, RuleRepeats DEF known
<1>21. CASE f \in ChecksumFindings(d)
  <2>1. ChecksumFindings(c) \subseteq ComputeWithTunables(c, tun)
    BY DEF ComputeWithTunables
  <2>2. Repeats(ChecksumFindings(c), ChecksumFindings(d))
    BY ChecksumsFade DEF Fades
  <2> QED
    BY <1>21, <2>1, <2>2, RuleRepeats DEF known
<1>22. CASE f \in CollationVersionMismatch(d)
  <2>1. f \in CollationVersionMismatch(c)
    BY <1>22, CollationVersionMismatchFades, Zenon DEF Fades
  <2> QED
    BY <1>0, <2>1, Zenon DEF ComputeWithTunables
<1>23. CASE f \in ReplicaIdentityMissing(d)
  <2>1. f \in ReplicaIdentityMissing(c)
    BY <1>23, ReplicaIdentityMissingFades, Zenon DEF Fades
  <2> QED
    BY <1>0, <2>1, Zenon DEF ComputeWithTunables
<1>24. CASE f \in FailoverReadiness(d, tun)
  <2>1. FailoverReadiness(c, tun) \subseteq ComputeWithTunables(c, tun)
    BY DEF ComputeWithTunables
  <2>2. Repeats(FailoverReadiness(c, tun), FailoverReadiness(d, tun))
    BY FailoverFades DEF Fades
  <2> QED
    BY <1>24, <2>1, <2>2, RuleRepeats DEF known
<1>25. CASE f \in ReplicationSlotRisk(d)
  <2>1. f \in ReplicationSlotRisk(c)
    BY <1>25, ReplicationSlotRiskFades, Zenon DEF Fades
  <2> QED
    BY <1>0, <2>1, Zenon DEF ComputeWithTunables
<1>26. CASE f \in SubscriptionDown(d)
  <2>1. f \in SubscriptionDown(c)
    BY <1>26, SubscriptionDownFades, Zenon DEF Fades
  <2> QED
    BY <1>0, <2>1, Zenon DEF ComputeWithTunables
<1>27. CASE f \in VacuumHorizonBlocked(d)
  <2>1. f \in VacuumHorizonBlocked(c)
    BY <1>27, VacuumHorizonBlockedFades, Zenon DEF Fades
  <2> QED
    BY <1>0, <2>1, Zenon DEF ComputeWithTunables
<1>28. CASE f \in PreparedXactAbandoned(d)
  <2>1. f \in PreparedXactAbandoned(c)
    BY <1>28, PreparedXactAbandonedFades, Zenon DEF Fades
  <2> QED
    BY <1>0, <2>1, Zenon DEF ComputeWithTunables
<1>29. CASE f \in QuerySlowdown(d)
  <2>1. QuerySlowdown(c) \subseteq ComputeWithTunables(c, tun)
    BY DEF ComputeWithTunables
  <2>2. Repeats(QuerySlowdown(c), QuerySlowdown(d))
    BY SlowdownsFade DEF Fades
  <2> QED
    BY <1>29, <2>1, <2>2, RuleRepeats DEF known
<1>30. CASE f \in WorkMemLow(d)
  <2>1. f \in WorkMemLow(c)
    BY <1>30, WorkMemLowFades, Zenon DEF Fades
  <2> QED
    BY <1>0, <2>1, Zenon DEF ComputeWithTunables
<1>31. CASE f \in CheckpointsForced(d)
  <2>1. f \in CheckpointsForced(c)
    BY <1>31, CheckpointsForcedFades, Zenon DEF Fades
  <2> QED
    BY <1>0, <2>1, Zenon DEF ComputeWithTunables
<1>32. CASE f \in ConnectionsOverprovisioned(d)
  <2>1. f \in ConnectionsOverprovisioned(c)
    BY <1>32, ConnectionsOverprovisionedFades, Zenon DEF Fades
  <2> QED
    BY <1>0, <2>1, Zenon DEF ComputeWithTunables
<1>33. CASE f \in IOTimingOff(d)
  <2>1. f \in IOTimingOff(c)
    BY <1>33, IOTimingOffFades, Zenon DEF Fades
  <2> QED
    BY <1>0, <2>1, Zenon DEF ComputeWithTunables
<1>34. CASE f \in ConfigSanity(d)
  <2>1. f \in ConfigSanity(c)
    BY <1>34, ConfigSanityFades, Zenon DEF Fades
  <2> QED
    BY <1>0, <2>1, Zenon DEF ComputeWithTunables
<1>35. CASE f \in AuditPosture(d)
  <2>1. AuditPosture(c) \subseteq ComputeWithTunables(c, tun)
    BY DEF ComputeWithTunables
  <2>2. Repeats(AuditPosture(c), AuditPosture(d))
    BY AuditFades DEF Fades
  <2> QED
    BY <1>35, <2>1, <2>2, RuleRepeats DEF known
<1>36. CASE f \in WaitFindings(d)
  <2>1. f \in WaitFindings(c)
    BY <1>36, WaitFindingsFades, Zenon DEF Fades
  <2> QED
    BY <1>0, <2>1, Zenon DEF ComputeWithTunables
<1>37. CASE f \in HighRollbacks(d)
  <2>1. f \in HighRollbacks(c)
    BY <1>37, HighRollbacksFades, Zenon DEF Fades
  <2> QED
    BY <1>0, <2>1, Zenon DEF ComputeWithTunables
<1>38. CASE f \in MissingPgss(d)
  <2>1. MissingPgss(c) \subseteq ComputeWithTunables(c, tun)
    BY DEF ComputeWithTunables
  <2>2. Repeats(MissingPgss(c), MissingPgss(d))
    BY MissingPgssFades DEF Fades
  <2> QED
    BY <1>38, <2>1, <2>2, RuleRepeats DEF known
<1>39. CASE f \in PgssEntriesEvicted(d)
  <2>1. f \in PgssEntriesEvicted(c)
    BY <1>39, PgssEntriesEvictedFades, Zenon DEF Fades
  <2> QED
    BY <1>0, <2>1, Zenon DEF ComputeWithTunables
<1>40. CASE f \in StaleStatsWindow(d)
  <2>1. f \in StaleStatsWindow(c)
    BY <1>40, Zenon DEF Fades, StaleStatsWindow
  <2> QED
    BY <1>0, <2>1, Zenon DEF ComputeWithTunables
<1> QED
  BY <1>1, <1>2, <1>3, <1>4, <1>5, <1>6, <1>7, <1>8, <1>9, <1>10, <1>11, <1>12, <1>13, <1>14,
     <1>15, <1>16, <1>17, <1>18, <1>19, <1>20, <1>21, <1>22, <1>23, <1>24, <1>25, <1>26,
     <1>27, <1>28, <1>29, <1>30, <1>31, <1>32, <1>33, <1>34, <1>35, <1>36, <1>37, <1>38,
     <1>39, <1>40, Zenon
     DEF ComputeWithTunables, known

(* A run that did not collect one section it had before.                   *)
LEMMA AbsenceStep ==
  FindingsInv /\ FindingsNext
    /\ (\E s \in Sections \ Mandatory : report[s] # Absent /\ report'[s] = Absent)
    => Ids(findings') \subseteq Ids(findings) \union ReadAbsence
<1> SUFFICES ASSUME FindingsInv, NEW section \in Sections, RunFinds(section),
                    NEW s \in Sections \ Mandatory, report[s] # Absent, report'[s] = Absent
             PROVE  Ids(findings') \subseteq Ids(findings) \union ReadAbsence
  BY DEF FindingsNext
<1>1. PICK v : report' = [report EXCEPT ![section] = v] /\ findings' = ComputeWithTunables(report', tunables)
  BY Zenon DEF RunFinds
<1>2. DOMAIN report = Sections /\ findings = ComputeWithTunables(report, tunables)
  BY DEF FindingsInv, Observable
<1>3. section = s /\ v = {}
  BY <1>1, <1>2 DEF Absent
<1>4. \A t \in Sections : report'[t] = report[t] \/ (t \notin Mandatory /\ report'[t] = {})
  BY <1>1, <1>2, <1>3
<1>5. Fades(report, report')
  BY <1>4, SectionNames DEF Fades, Lost, Mandatory
<1> QED
  BY <1>1, <1>2, <1>5, FadingIsQuiet DEF Ids

(* A section that could not be collected raises nothing, except by the     *)
(* rules that read absence itself and those with a default trigger.        *)
THEOREM AbsentSectionsAreQuiet == FindingsSpec => AbsenceIsQuiet
<1>1. FindingsInv /\ [FindingsNext]_findingsVars
        => [(\E s \in Sections \ Mandatory : report[s] # Absent /\ report'[s] = Absent)
              => Ids(findings') \subseteq Ids(findings) \union ReadAbsence]_findingsVars
  BY AbsenceStep
<1> QED
  BY <1>1, FindingsInvHolds, PTL DEF FindingsSpec, AbsenceIsQuiet
-----------------------------------------------------------------------------
(* The decisions.                                                           *)

Fields == {"id", "object", "objects", "severity", "cut", "remapped", "suppressed", "rule",
           "preexisting"}

(* A finding as a collector makes it, and the rows it stands for.           *)
Fresh(f) == /\ DOMAIN f = Fields
            /\ f.suppressed = FALSE /\ f.preexisting = FALSE /\ f.cut = {}
StandsFor(f, rows, profile) ==
    /\ ExpandKeys(f) # {} /\ ExpandKeys(f) \subseteq Present(rows, profile)
    /\ \A r \in ExpandKeys(f) :
          /\ r[1] = f.id
          /\ f.severity = IF r[1] \in Aggregates
                            THEN Worst(rows, r[1], Present(rows, profile)) ELSE rows[r]
-----------------------------------------------------------------------------
LEMMA RowsArePairs == \A r \in Rows : r = <<r[1], r[2]>> /\ r[1] \notin Hygiene
  BY DecisionsAssumption DEF Rows

(* NewFinding, field by field.                                              *)
LEMMA NewFindingFields ==
  ASSUME NEW id, NEW object, NEW objects, NEW severity,
         NEW f, f = NewFinding(id, object, objects, severity)
  PROVE  /\ Fresh(f) /\ f.id = id /\ f.object = object /\ f.objects = objects
         /\ f.severity = severity
  BY DEF NewFinding, Fresh, Fields

LEMMA KeysOfAggregate ==
  ASSUME NEW f, f.objects # {}
  PROVE  ExpandKeys(f) = {<<f.id, o>> : o \in f.objects}
  BY DEF ExpandKeys

LEMMA KeysOfOther ==
  ASSUME NEW f, f.objects = {}
  PROVE  ExpandKeys(f) = {<<f.id, f.object>>}
  BY DEF ExpandKeys

(* What computeFindings makes of the rows: every finding stands for rows    *)
(* that are there, and every row that is there has a finding.               *)
LEMMA ComputedFindings ==
  ASSUME NEW rows, NEW profile
  PROVE  /\ \A f \in Compute(rows, profile) : Fresh(f) /\ StandsFor(f, rows, profile)
         /\ \A r \in Present(rows, profile) : \E f \in Compute(rows, profile) : r \in ExpandKeys(f)
<1> DEFINE P == Present(rows, profile)
           ObjectsOf(id) == {r[2] : r \in {r \in P : r[1] = id}}
           Aggregate(id) == NewFinding(id, NoObject, ObjectsOf(id), Worst(rows, id, P))
           Other(r) == NewFinding(r[1], r[2], {}, rows[r])
           IDs == {r[1] : r \in P} \cap Aggregates
<1>1. Compute(rows, profile) = {Aggregate(id) : id \in IDs}
                                 \union {Other(r) : r \in {r \in P : r[1] \notin Aggregates}}
  BY DEF Compute
<1>2. P \subseteq Rows
  BY DEF Present
<1>3. \A r \in P : r = <<r[1], r[2]>>
  BY <1>2, RowsArePairs
<1>4. ASSUME NEW id \in IDs
      PROVE  /\ Fresh(Aggregate(id)) /\ StandsFor(Aggregate(id), rows, profile)
             /\ ExpandKeys(Aggregate(id)) = {<<id, o>> : o \in ObjectsOf(id)}
  <2>1. /\ Fresh(Aggregate(id)) /\ Aggregate(id).id = id
        /\ Aggregate(id).objects = ObjectsOf(id)
        /\ Aggregate(id).severity = Worst(rows, id, P)
    <3> DEFINE os == ObjectsOf(id)
               worst == Worst(rows, id, P)
               g == Aggregate(id)
    <3>1. g = NewFinding(id, NoObject, os, worst)
      OBVIOUS
    <3> HIDE DEF os, worst, g
    <3>2. Fresh(g) /\ g.id = id /\ g.objects = os /\ g.severity = worst
      BY <3>1, NewFindingFields
    <3> QED
      BY <3>2 DEF os, worst, g
  <2>2. ObjectsOf(id) # {}
    OBVIOUS
  <2>3. ExpandKeys(Aggregate(id)) = {<<id, o>> : o \in ObjectsOf(id)}
    <3> HIDE DEF ObjectsOf, Aggregate
    <3> QED
      BY <2>1, <2>2, KeysOfAggregate
  <2>4. {<<id, o>> : o \in ObjectsOf(id)} # {}
    BY <2>2
  <2>5. ASSUME NEW r \in {<<id, o>> : o \in ObjectsOf(id)}
        PROVE  r \in P /\ r[1] = id
    <3>1. PICK q \in P : q[1] = id /\ r = <<id, q[2]>>
      OBVIOUS
    <3>2. r = q
      BY <3>1, <1>3
    <3> QED
      BY <3>1, <3>2
  <2>6. id \in Aggregates
    OBVIOUS
  <2> HIDE DEF ObjectsOf, IDs, Aggregate
  <2> QED
    BY <2>1, <2>3, <2>4, <2>5, <2>6 DEF StandsFor
<1>5. ASSUME NEW r \in P, r[1] \notin Aggregates
      PROVE  /\ Fresh(Other(r)) /\ StandsFor(Other(r), rows, profile)
             /\ ExpandKeys(Other(r)) = {r}
  <2>1. /\ Fresh(Other(r)) /\ Other(r).id = r[1] /\ Other(r).object = r[2]
        /\ Other(r).objects = {} /\ Other(r).severity = rows[r]
    <3>1. Other(r) = NewFinding(r[1], r[2], {}, rows[r])
      OBVIOUS
    <3> HIDE DEF Other
    <3> QED
      BY <3>1, NewFindingFields
  <2>2. ExpandKeys(Other(r)) = {r}
    <3>1. r = <<r[1], r[2]>>
      BY <1>3
    <3> HIDE DEF Other
    <3> QED
      BY <2>1, <3>1, KeysOfOther
  <2> HIDE DEF Other
  <2> QED
    BY <2>1, <2>2, <1>5 DEF StandsFor
<1>6. ASSUME NEW r \in P
      PROVE  \E f \in Compute(rows, profile) : r \in ExpandKeys(f)
  <2>1. CASE r[1] \in Aggregates
    <3>1. r[1] \in IDs /\ r[2] \in ObjectsOf(r[1])
      BY <2>1
    <3>2. r \in ExpandKeys(Aggregate(r[1]))
      BY <3>1, <1>3, <1>4
    <3> HIDE DEF Aggregate
    <3> QED
      BY <3>1, <3>2, <1>1
  <2>2. CASE r[1] \notin Aggregates
    <3>1. r \in ExpandKeys(Other(r))
      BY <2>2, <1>5
    <3> HIDE DEF Other
    <3> QED
      BY <2>2, <3>1, <1>1
  <2> QED
    BY <2>1, <2>2
<1> HIDE DEF IDs, Aggregate, Other
<1> QED
  BY <1>1, <1>4, <1>5, <1>6
-----------------------------------------------------------------------------
(* Remap changes the severity, to that of the file if the file has one.     *)
LEMMA RemapFields ==
  ASSUME NEW cfg, NEW f, Fresh(f), NEW g, g = Remap(cfg, f)
  PROVE  /\ Fresh(g) /\ g.id = f.id /\ g.object = f.object /\ g.objects = f.objects
         /\ g.severity = IF f.id \in DOMAIN cfg.severity THEN cfg.severity[f.id] ELSE f.severity
  BY DEF Remap, Fresh, Fields

LEMMA RemapKeys ==
  ASSUME NEW cfg, NEW f, Fresh(f)
  PROVE  ExpandKeys(Remap(cfg, f)) = ExpandKeys(f)
<1> DEFINE g == Remap(cfg, f)
<1>1. g.id = f.id /\ g.object = f.object /\ g.objects = f.objects
  <2>1. g = Remap(cfg, f)
    OBVIOUS
  <2> HIDE DEF g
  <2> QED
    BY <2>1, RemapFields
<1> HIDE DEF g
<1>2. ExpandKeys(g) = ExpandKeys(f)
  BY <1>1 DEF ExpandKeys
<1> QED
  BY <1>2 DEF g

Silenced(g) == DOMAIN g = Fields /\ g.preexisting = FALSE /\ g.suppressed = TRUE
Audible(g) == DOMAIN g = Fields /\ g.preexisting = FALSE /\ g.suppressed = FALSE
LEMMA SuppressFields ==
  ASSUME NEW f, Fresh(f), NEW rule, NEW g, g = Suppress(f, rule)
  PROVE  /\ Silenced(g)
         /\ g.id = f.id /\ g.object = f.object /\ g.objects = f.objects
         /\ g.severity = f.severity
  BY DEF Suppress, Fresh, Fields, Silenced

(* What the rules do to a finding: g is f as far as the rules let it be.    *)
(* A row of g is muted exactly if a rule matches it, and a row of f that g  *)
(* has lost was cut out by a rule that matches it.                          *)
Hit(rules, r, day) == Matching(rules, r[1], r[2], day) # {}
RowsDecided(rules, f, g, day) ==
    /\ DOMAIN g = Fields /\ g.preexisting = FALSE /\ g.suppressed \in BOOLEAN
    /\ g.id = f.id /\ g.severity = f.severity
    /\ ExpandKeys(g) # {} /\ ExpandKeys(g) \subseteq ExpandKeys(f)
    /\ \A r \in ExpandKeys(g) : g.suppressed <=> Hit(rules, r, day)
    /\ \A r \in ExpandKeys(f) \ ExpandKeys(g) : Hit(rules, r, day) /\ r[2] \in g.cut

LEMMA SuppressDecides ==
  ASSUME NEW rules, NEW day, NEW f, Fresh(f), NEW rule, ExpandKeys(f) # {},
         \A r \in ExpandKeys(f) : Hit(rules, r, day)
  PROVE  RowsDecided(rules, f, Suppress(f, rule), day)
<1> DEFINE g == Suppress(f, rule)
<1>1. g = Suppress(f, rule)
  OBVIOUS
<1> HIDE DEF g
<1>2. /\ Silenced(g)
      /\ g.id = f.id /\ g.object = f.object /\ g.objects = f.objects
      /\ g.severity = f.severity
  BY <1>1, SuppressFields
<1>3. ExpandKeys(g) = ExpandKeys(f)
  BY <1>2 DEF ExpandKeys
<1>4. RowsDecided(rules, f, g, day)
  BY <1>2, <1>3 DEF RowsDecided, Silenced
<1> QED
  BY <1>1, <1>4

LEMMA KeepDecides ==
  ASSUME NEW rules, NEW day, NEW f, Fresh(f), ExpandKeys(f) # {},
         \A r \in ExpandKeys(f) : ~Hit(rules, r, day)
  PROVE  RowsDecided(rules, f, f, day)
  BY DEF RowsDecided, Fresh

(* A rule without object matches every object.                              *)
LEMMA WholesaleHits ==
  ASSUME NEW rules, NEW id, NEW day, Wholesale(rules, id, day) # {}, NEW o
  PROVE  Matching(rules, id, o, day) # {}
<1>1. PICK i \in Wholesale(rules, id, day) : TRUE
  OBVIOUS
<1>2. Specificity(NoObject, o) = 1
  BY DEF Specificity
<1>3. i \in Matching(rules, id, o, day)
  BY <1>1, <1>2 DEF Wholesale, Matching
<1> QED
  BY <1>3

LEMMA ApplyIgnoreDecides ==
  ASSUME NEW rules, NEW day, NEW f, Fresh(f)
  PROVE  RowsDecided(rules, f, ApplyIgnore(rules, f, day), day)
<1>1. CASE f.objects = {}
  <2>1. ExpandKeys(f) = {<<f.id, f.object>>}
    BY <1>1, KeysOfOther
  <2>2. \A r \in ExpandKeys(f) : Hit(rules, r, day) <=> Matching(rules, f.id, f.object, day) # {}
    BY <2>1 DEF Hit
  <2>3. CASE Matching(rules, f.id, f.object, day) = {}
    <3>1. ApplyIgnore(rules, f, day) = f
      BY <1>1, <2>3 DEF ApplyIgnore
    <3> QED
      BY <3>1, <2>1, <2>2, <2>3, KeepDecides
  <2>4. CASE Matching(rules, f.id, f.object, day) # {}
    <3>1. PICK rule : ApplyIgnore(rules, f, day) = Suppress(f, rule)
      BY <1>1, <2>4 DEF ApplyIgnore
    <3> QED
      BY <3>1, <2>1, <2>2, <2>4, SuppressDecides
  <2> QED
    BY <2>3, <2>4
<1>2. CASE f.objects # {}
  <2> DEFINE cut == Cut(rules, f, day)
  <2>1. ExpandKeys(f) = {<<f.id, o>> : o \in f.objects}
    BY <1>2, KeysOfAggregate
  <2>2. \A o \in f.objects : Hit(rules, <<f.id, o>>, day) <=> o \in cut
    BY DEF Hit, Cut
  <2>3. \A r \in ExpandKeys(f) : Hit(rules, r, day) <=> r[2] \in cut
    BY <2>1, <2>2
  <2>4. ApplyIgnore(rules, f, day) = SuppressRows(rules, f, day)
    BY <1>2 DEF ApplyIgnore
  <2>5. ExpandKeys(f) # {}
    BY <1>2, <2>1
  <2>6. CASE Wholesale(rules, f.id, day) # {}
    <3>1. \A r \in ExpandKeys(f) : Hit(rules, r, day)
      BY <2>1, <2>6, WholesaleHits DEF Hit
    <3>2. PICK rule : ApplyIgnore(rules, f, day) = Suppress(f, rule)
      BY <2>4, <2>6 DEF SuppressRows
    <3> QED
      BY <3>1, <3>2, <2>5, SuppressDecides
  <2>7. CASE Wholesale(rules, f.id, day) = {} /\ cut = {}
    <3>1. ApplyIgnore(rules, f, day) = f
      BY <2>4, <2>7 DEF SuppressRows
    <3> QED
      BY <3>1, <2>3, <2>5, <2>7, KeepDecides
  <2>8. CASE Wholesale(rules, f.id, day) = {} /\ cut # {} /\ cut = f.objects
    <3>1. \A r \in ExpandKeys(f) : Hit(rules, r, day)
      BY <2>1, <2>2, <2>8
    <3>2. PICK rule : ApplyIgnore(rules, f, day) = Suppress(f, rule)
      BY <2>4, <2>8 DEF SuppressRows
    <3> QED
      BY <3>1, <3>2, <2>5, SuppressDecides
  <2>9. CASE Wholesale(rules, f.id, day) = {} /\ cut # {} /\ cut # f.objects
    <3> DEFINE g == ApplyIgnore(rules, f, day)
    <3>1. g = [f EXCEPT !.objects = f.objects \ cut, !.cut = cut]
      BY <2>4, <2>9 DEF SuppressRows
    <3> HIDE DEF g, cut
    <3>2. /\ Audible(g) /\ g.id = f.id /\ g.objects = f.objects \ cut /\ g.cut = cut
          /\ g.severity = f.severity
      BY <3>1 DEF Fresh, Fields, Audible
    <3>3. cut \subseteq f.objects
      BY DEF Cut, cut
    <3>4. g.objects # {}
      BY <3>2, <3>3, <2>9
    <3>5. ExpandKeys(g) = {<<f.id, o>> : o \in f.objects \ cut}
      BY <3>2, <3>4, KeysOfAggregate
    <3>6. ExpandKeys(g) # {} /\ ExpandKeys(g) \subseteq ExpandKeys(f)
      <4>1. ExpandKeys(g) \subseteq ExpandKeys(f)
        BY <3>5, <2>1
      <4>2. PICK o \in g.objects : TRUE
        BY <3>4
      <4>3. <<f.id, o>> \in ExpandKeys(g)
        BY <4>2, <3>5, <3>2
      <4> QED
        BY <4>1, <4>3
    <3>7. \A r \in ExpandKeys(g) : ~Hit(rules, r, day)
      BY <3>5, <2>2
    <3>8. \A r \in ExpandKeys(f) \ ExpandKeys(g) : Hit(rules, r, day) /\ r[2] \in cut
      BY <3>5, <2>1, <2>2
    <3>9. RowsDecided(rules, f, g, day)
      BY <3>2, <3>6, <3>7, <3>8 DEF RowsDecided, Audible
    <3> QED
      BY <3>9 DEF g
  <2> QED
    BY <2>6, <2>7, <2>8, <2>9
<1> QED
  BY <1>1, <1>2
-----------------------------------------------------------------------------
(* What a report says: a finding is a note on the rules, or tells of rows   *)
(* that are there, at the severity they have, muted exactly if a rule       *)
(* matches each of them.                                                    *)
Note(f) == f.id \in Hygiene /\ f.severity = "info" /\ f.suppressed = FALSE
Tells(f, rows, cfg, profile, day) ==
    /\ f.suppressed \in BOOLEAN
    /\ ExpandKeys(f) # {} /\ ExpandKeys(f) \subseteq Present(rows, profile)
    /\ \A r \in ExpandKeys(f) :
          /\ f.suppressed <=> Hit(cfg.ignore, r, day)
          /\ f.id = r[1] /\ f.severity = Effective(rows, cfg.severity, r)
ToldOf(fs, rows, cfg, profile, day) ==
    \A r \in Present(rows, profile) : \E f \in fs :
        \/ r \in ExpandKeys(f)
        \/ Hit(cfg.ignore, r, day) /\ f.id = r[1] /\ r[2] \in f.cut

LEMMA WorstOfAll ==
  ASSUME NEW rows, NEW profile, NEW r \in Present(rows, profile)
  PROVE  Worst(rows, r[1], Present(rows, profile)) = Worst(rows, r[1], {q \in Rows : rows[q] # "none"})
<1>1. \A q \in Rows : q[1] = r[1] /\ rows[q] = "critical" =>
         (q \in Present(rows, profile) <=> rows[q] # "none")
  BY DEF Present
<1>2. Present(rows, profile) \subseteq {q \in Rows : rows[q] # "none"}
  BY DEF Present
<1> QED
  BY <1>1, <1>2 DEF Worst

LEMMA DecidedTells ==
  ASSUME NEW rows, NEW cfg, NEW profile, NEW day, NEW h \in Compute(rows, profile)
  PROVE  LET g == ApplyIgnore(cfg.ignore, Remap(cfg, h), day)
         IN  /\ DOMAIN g = Fields /\ g.preexisting = FALSE
             /\ Tells(g, rows, cfg, profile, day) /\ g.id = h.id
             /\ \A r \in ExpandKeys(h) :
                  \/ r \in ExpandKeys(g)
                  \/ Hit(cfg.ignore, r, day) /\ g.id = r[1] /\ r[2] \in g.cut
<1> DEFINE m == Remap(cfg, h)
           g == ApplyIgnore(cfg.ignore, m, day)
<1>1. Fresh(h) /\ StandsFor(h, rows, profile)
  BY ComputedFindings
<1>2. /\ Fresh(m) /\ m.id = h.id
      /\ m.severity = IF h.id \in DOMAIN cfg.severity THEN cfg.severity[h.id] ELSE h.severity
  <2>1. m = Remap(cfg, h)
    OBVIOUS
  <2> HIDE DEF m
  <2> QED
    BY <2>1, <1>1, RemapFields
<1>3. ExpandKeys(m) = ExpandKeys(h)
  BY <1>1, RemapKeys
<1> HIDE DEF m
<1>4. RowsDecided(cfg.ignore, m, g, day)
  BY <1>2, ApplyIgnoreDecides
<1> HIDE DEF g
<1>5. /\ DOMAIN g = Fields /\ g.preexisting = FALSE /\ g.id = h.id
      /\ g.suppressed \in BOOLEAN /\ g.severity = m.severity
      /\ ExpandKeys(g) # {} /\ ExpandKeys(g) \subseteq ExpandKeys(h)
  BY <1>4, <1>2, <1>3 DEF RowsDecided
<1>6. ASSUME NEW r \in ExpandKeys(h)
      PROVE  r \in Present(rows, profile) /\ r[1] = h.id
  BY <1>1 DEF StandsFor
<1>7. ASSUME NEW r \in ExpandKeys(h)
      PROVE  h.severity = IF r[1] \in Aggregates THEN Worst(rows, r[1], {q \in Rows : rows[q] # "none"})
                          ELSE rows[r]
  BY <1>1, <1>6, WorstOfAll DEF StandsFor
<1>8. ASSUME NEW r \in ExpandKeys(g)
      PROVE  /\ g.suppressed <=> Hit(cfg.ignore, r, day)
             /\ g.id = r[1] /\ g.severity = Effective(rows, cfg.severity, r)
  <2>1. r \in ExpandKeys(h)
    BY <1>5
  <2>2. g.suppressed <=> Hit(cfg.ignore, r, day)
    BY <1>4 DEF RowsDecided
  <2>3. g.severity = Effective(rows, cfg.severity, r)
    BY <2>1, <1>2, <1>5, <1>6, <1>7 DEF Effective
  <2> QED
    BY <2>1, <2>2, <2>3, <1>5, <1>6
<1>9. Tells(g, rows, cfg, profile, day)
  BY <1>5, <1>6, <1>8 DEF Tells
<1>10. ASSUME NEW r \in ExpandKeys(h)
       PROVE  r \in ExpandKeys(g) \/ (Hit(cfg.ignore, r, day) /\ g.id = r[1] /\ r[2] \in g.cut)
  BY <1>3, <1>4, <1>5, <1>6 DEF RowsDecided
<1>11. /\ DOMAIN g = Fields /\ g.preexisting = FALSE
       /\ Tells(g, rows, cfg, profile, day) /\ g.id = h.id
       /\ \A r \in ExpandKeys(h) :
            r \in ExpandKeys(g) \/ (Hit(cfg.ignore, r, day) /\ g.id = r[1] /\ r[2] \in g.cut)
  BY <1>5, <1>9, <1>10
<1> QED
  BY <1>11 DEF g, m

LEMMA ReportTells ==
  ASSUME NEW cfg, NEW profile, NEW unused, NEW listed, listed = Report(cfg, profile, unused)
  PROVE  /\ \A f \in listed : /\ DOMAIN f = Fields /\ f.preexisting = FALSE
                              /\ Note(f) \/ Tells(f, db, cfg, profile, today)
         /\ ToldOf(listed, db, cfg, profile, today)
<1> DEFINE Decided(h) == ApplyIgnore(cfg.ignore, Remap(cfg, h), today)
           Computed == Compute(db, profile)
           applied == {Decided(h) : h \in Computed}
           expired == ExpiredFindings(cfg.ignore, today)
           all == applied \union expired \union UnusedFindings(unused)
<1>1. applied = Apply(cfg, Computed, today)
  BY DEF Apply
<1>2. listed = IF profile = "schema" THEN {f \in all : f.id \in SchemaScoped} ELSE all
  BY <1>1 DEF Report
<1>3. ASSUME NEW h \in Computed
      PROVE  /\ DOMAIN Decided(h) = Fields /\ Decided(h).preexisting = FALSE
             /\ Tells(Decided(h), db, cfg, profile, today) /\ Decided(h).id = h.id
             /\ \A r \in ExpandKeys(h) :
                  \/ r \in ExpandKeys(Decided(h))
                  \/ Hit(cfg.ignore, r, today) /\ Decided(h).id = r[1] /\ r[2] \in Decided(h).cut
  BY DecidedTells
<1>4. ASSUME NEW f \in expired
      PROVE  DOMAIN f = Fields /\ f.preexisting = FALSE /\ Note(f)
  <2>1. PICK rule : f = [NewFinding("suppression_expired", NoObject, {}, "info") EXCEPT !.rule = rule]
    BY DEF ExpiredFindings
  <2> QED
    BY <2>1 DEF NewFinding, Note, Hygiene, Fields
<1>5. ASSUME NEW f \in UnusedFindings(unused)
      PROVE  DOMAIN f = Fields /\ f.preexisting = FALSE /\ Note(f)
  <2>1. f = NewFinding("suppression_unused", NoObject, {}, "info")
    BY DEF UnusedFindings
  <2> QED
    BY <2>1 DEF NewFinding, Note, Hygiene, Fields
<1> HIDE DEF Decided, Computed, expired
<1>6. ASSUME NEW f \in listed
      PROVE  /\ DOMAIN f = Fields /\ f.preexisting = FALSE
             /\ Note(f) \/ Tells(f, db, cfg, profile, today)
  <2>1. f \in all
    BY <1>2
  <2> QED
    BY <2>1, <1>3, <1>4, <1>5
<1>7. ASSUME NEW r \in Present(db, profile)
      PROVE  \E f \in listed : \/ r \in ExpandKeys(f)
                               \/ Hit(cfg.ignore, r, today) /\ f.id = r[1] /\ r[2] \in f.cut
  <2>1. PICK h \in Computed : r \in ExpandKeys(h)
    BY ComputedFindings DEF Computed
  <2>2. r[1] = h.id
    BY <2>1, ComputedFindings DEF Computed, StandsFor
  <2>3. Decided(h) \in listed
    <3>1. profile = "schema" => h.id \in SchemaScoped
      BY <2>2 DEF Present
    <3> QED
      BY <3>1, <1>2, <1>3
  <2> QED
    BY <2>1, <2>3, <1>3
<1> QED
  BY <1>6, <1>7 DEF ToldOf
-----------------------------------------------------------------------------
(* The rules and severities of a run.                                       *)
RowValues == [Rows -> Severities \union {"none"}]
Settled(cfg) ==
    /\ IsFiniteSet(DOMAIN cfg.ignore)
    /\ \A i \in DOMAIN cfg.ignore : cfg.ignore[i].expires \subseteq Int
    /\ \A id \in DOMAIN cfg.severity : cfg.severity[id] \in Severities

LEMMA ValidatedSeverities ==
  ASSUME NEW f
  PROVE  \A id \in DOMAIN Validated(f).severity : Validated(f).severity[id] \in Severities
  BY DEF Validated, Restrict

LEMMA ListedFinitely ==
  ASSUME NEW rules, rules \in Seq(Range(rules)), NEW added, added \in Seq(Range(added))
  PROVE  IsFiniteSet(DOMAIN (rules \o added))
<1> DEFINE S == Range(rules) \union Range(added)
<1>1. rules \in Seq(S) /\ added \in Seq(S)
  OBVIOUS
<1> HIDE DEF S
<1>2. rules \o added \in Seq(S)
  BY <1>1, ConcatProperties
<1>3. DOMAIN (rules \o added) = 1 .. Len(rules \o added) /\ Len(rules \o added) \in Nat
  BY <1>2
<1> QED
  BY <1>3, FS_Interval

LEMMA ConfigIsSettled ==
  ASSUME NEW f \in Files, NEW call \in Invocations,
         NEW cfg, cfg = AddInlineIgnores(Validated(f), call.inline)
  PROVE  Settled(cfg)
<1> DEFINE loaded == Validated(f)
           rules == loaded.ignore
           Inline(i) == [finding |-> call.inline[i][1], object |-> call.inline[i][2], expires |-> {}]
           added == [i \in DOMAIN call.inline |-> Inline(i)]
<1>1. rules \in Seq(Range(rules)) /\ \A i \in DOMAIN rules : rules[i].expires \subseteq Int
  BY DecisionsAssumption
<1>2. DOMAIN loaded = {"severity", "ignore"}
  BY DEF Validated
<1>3. cfg = [loaded EXCEPT !.ignore = rules \o added]
  BY DEF AddInlineIgnores
<1>4. \A i \in DOMAIN added : added[i].expires = {}
  OBVIOUS
<1>5. DOMAIN call.inline = 1 .. Len(call.inline) /\ Len(call.inline) \in Nat
  BY DecisionsAssumption
<1>6. added \in Seq(Range(added))
  <2>1. added = [i \in DOMAIN added |-> added[i]] /\ DOMAIN added = 1 .. Len(call.inline)
    BY <1>5
  <2> HIDE DEF added
  <2>2. \A i \in DOMAIN added : added[i] \in Range(added)
    BY DEF Range
  <2>3. added \in [1 .. Len(call.inline) -> Range(added)]
    BY <2>1, <2>2
  <2> QED
    BY <2>3, <1>5
<1>7. \A id \in DOMAIN loaded.severity : loaded.severity[id] \in Severities
  BY ValidatedSeverities
<1> HIDE DEF loaded, added, rules
<1>8. cfg.ignore = rules \o added /\ cfg.severity = loaded.severity
  BY <1>2, <1>3
<1>9. \A i \in DOMAIN (rules \o added) : (rules \o added)[i].expires \subseteq Int
  <2> DEFINE S == Range(rules) \union Range(added)
  <2>1. rules \in Seq(S) /\ added \in Seq(S)
    BY <1>1, <1>6
  <2>2. /\ rules \o added \in Seq(S) /\ Len(rules \o added) = Len(rules) + Len(added)
        /\ \A i \in 1 .. Len(rules) + Len(added) :
             (rules \o added)[i] = IF i <= Len(rules) THEN rules[i] ELSE added[i - Len(rules)]
    <3> HIDE DEF S
    <3> QED
      BY <2>1, ConcatProperties
  <2>3. DOMAIN rules = 1 .. Len(rules) /\ DOMAIN added = 1 .. Len(added)
        /\ Len(rules) \in Nat /\ Len(added) \in Nat
    BY <2>1
  <2>4. DOMAIN (rules \o added) = 1 .. Len(rules) + Len(added)
    BY <2>2
  <2> TAKE i \in DOMAIN (rules \o added)
  <2>5. CASE i <= Len(rules)
    BY <2>2, <2>3, <2>4, <2>5, <1>1
  <2>6. CASE ~(i <= Len(rules))
    <3>1. i - Len(rules) \in DOMAIN added
      BY <2>3, <2>4, <2>6
    <3>2. (rules \o added)[i].expires = {}
      BY <2>2, <2>4, <2>6, <3>1, <1>4
    <3> QED
      BY <3>2
  <2> QED
    BY <2>5, <2>6
<1>10. IsFiniteSet(DOMAIN (rules \o added))
  BY <1>1, <1>6, ListedFinitely
<1> QED
  BY <1>7, <1>8, <1>9, <1>10 DEF Settled

(* A rule covers a row exactly when the matching of the code hits it.       *)
LEMMA CoveringIsMatching ==
  ASSUME NEW rules, \A i \in DOMAIN rules : rules[i].expires \subseteq Int, today \in Nat, NEW r
  PROVE  (\E i \in DOMAIN rules : Covers(rules[i], r)) <=> Hit(rules, r, today)
<1>1. ASSUME NEW i \in DOMAIN rules
      PROVE  (\A day \in rules[i].expires : today <= day) <=> ~Expired(rules[i], today)
  BY DEF Expired
<1>2. ASSUME NEW pattern
      PROVE  (Specificity(pattern, r[2]) > 0) <=>
               (pattern \in {NoObject, r[2]}
                  \/ (pattern \in DOMAIN GlobMatches /\ r[2] \in GlobMatches[pattern]))
  BY DEF Specificity
<1>3. ASSUME NEW i \in DOMAIN rules
      PROVE  Covers(rules[i], r) <=> i \in Matching(rules, r[1], r[2], today)
  BY <1>1, <1>2 DEF Covers, Matching
<1> QED
  BY <1>3 DEF Hit, Matching

LEMMA EffectiveType ==
  ASSUME NEW rows \in RowValues, NEW severity,
         \A id \in DOMAIN severity : severity[id] \in Severities,
         NEW profile, NEW r \in Present(rows, profile)
  PROVE  Effective(rows, severity, r) \in Severities
  BY DEF RowValues, Present, Effective, Worst, Severities

LEMMA Ranks == /\ \A s : SeverityRank(s) \in 0 .. 3
               /\ \A s \in Severities : SeverityRank(s) \in 1 .. 3
  BY DEF SeverityRank, Severities
-----------------------------------------------------------------------------
(* A report is finite, marked or not.                                       *)
LEMMA ImageIsFinite ==
  ASSUME NEW S, IsFiniteSet(S), NEW e, DOMAIN e = S
  PROVE  IsFiniteSet({e[x] : x \in S})
<1> DEFINE T == {e[x] : x \in S}
           g == [x \in S |-> e[x]]
<1>1. g \in [S -> T] /\ \A t \in T : \E x \in S : g[x] = t
  OBVIOUS
<1>2. g \in Surjection(S, T)
  BY <1>1 DEF Surjection
<1> HIDE DEF T, g
<1>3. IsFiniteSet(T)
  BY <1>2, FS_Surjection
<1> QED
  BY <1>3 DEF T

LEMMA ComputeIsFinite ==
  ASSUME NEW rows, NEW profile
  PROVE  IsFiniteSet(Compute(rows, profile))
<1> DEFINE P == Present(rows, profile)
           Aggregate(id) == NewFinding(id, NoObject, {r[2] : r \in {r \in P : r[1] = id}},
                                       Worst(rows, id, P))
           Other(r) == NewFinding(r[1], r[2], {}, rows[r])
           firsts == [r \in P |-> r[1]]
           IDs == {firsts[r] : r \in P} \cap Aggregates
           Q == {r \in P : r[1] \notin Aggregates}
           aggregate == [id \in IDs |-> Aggregate(id)]
           other == [r \in Q |-> Other(r)]
<1>1. IsFiniteSet(P)
  BY DecisionsAssumption, FS_Subset DEF Present, Rows
<1>2. IsFiniteSet({firsts[r] : r \in P})
  <2>1. DOMAIN firsts = P
    OBVIOUS
  <2> HIDE DEF firsts, P
  <2> QED
    BY <1>1, <2>1, ImageIsFinite
<1>3. IsFiniteSet(IDs) /\ IsFiniteSet(Q)
  <2>1. IDs \in SUBSET {firsts[r] : r \in P} /\ Q \in SUBSET P
    OBVIOUS
  <2> HIDE DEF firsts, P, IDs, Q
  <2> QED
    BY <1>1, <1>2, <2>1, FS_Subset
<1>4. DOMAIN aggregate = IDs /\ DOMAIN other = Q
  OBVIOUS
<1>5. Compute(rows, profile) = {aggregate[id] : id \in IDs} \union {other[r] : r \in Q}
  <2>1. {r[1] : r \in P} = {firsts[r] : r \in P}
    OBVIOUS
  <2>2. Compute(rows, profile) = {Aggregate(id) : id \in IDs} \union {Other(r) : r \in Q}
    BY <2>1 DEF Compute
  <2> HIDE DEF IDs, Q, Aggregate, Other
  <2> QED
    BY <2>2
<1> HIDE DEF aggregate, other, IDs, Q
<1>6. IsFiniteSet({aggregate[id] : id \in IDs}) /\ IsFiniteSet({other[r] : r \in Q})
  BY <1>3, <1>4, ImageIsFinite
<1> QED
  BY <1>5, <1>6, FS_Union

LEMMA ReportIsFinite ==
  ASSUME NEW cfg, Settled(cfg), NEW profile, NEW unused
  PROVE  IsFiniteSet(Report(cfg, profile, unused))
<1> DEFINE fs == Compute(db, profile)
           decided == [h \in fs |-> ApplyIgnore(cfg.ignore, Remap(cfg, h), today)]
           D == {i \in DOMAIN cfg.ignore : Expired(cfg.ignore[i], today)}
           Expiry(i) == [NewFinding("suppression_expired", NoObject, {}, "info")
                           EXCEPT !.rule = RuleString(cfg.ignore[i])]
           expiry == [i \in D |-> Expiry(i)]
           applied == Apply(cfg, fs, today)
           expired == ExpiredFindings(cfg.ignore, today)
           dead == UnusedFindings(unused)
<1>1. IsFiniteSet(applied)
  <2>1. IsFiniteSet(fs)
    BY ComputeIsFinite
  <2>2. applied = {decided[h] : h \in fs} /\ DOMAIN decided = fs
    <3> HIDE DEF fs
    <3> QED
      BY DEF Apply
  <2> HIDE DEF decided, applied, fs
  <2> QED
    BY <2>1, <2>2, ImageIsFinite
<1>2. IsFiniteSet(expired)
  <2>1. IsFiniteSet(D)
    BY FS_Subset DEF Settled
  <2>2. DOMAIN expiry = D
    OBVIOUS
  <2>3. expired = {Expiry(i) : i \in D}
    BY DEF ExpiredFindings
  <2>4. expired = {expiry[i] : i \in D}
    <3> HIDE DEF D, Expiry, expired
    <3> QED
      BY <2>3
  <2> HIDE DEF expiry, D, expired
  <2> QED
    BY <2>1, <2>2, <2>4, ImageIsFinite
<1>3. IsFiniteSet(dead)
  <2> DEFINE d == NewFinding("suppression_unused", NoObject, {}, "info")
  <2>1. dead \in SUBSET {d}
    BY DEF UnusedFindings
  <2> HIDE DEF d, dead
  <2> QED
    BY <2>1, FS_Singleton, FS_Subset
<1>4. Report(cfg, profile, unused) \in SUBSET (applied \union expired \union dead)
  BY DEF Report
<1> HIDE DEF applied, expired, dead
<1>5. IsFiniteSet(applied \union expired \union dead)
  BY <1>1, <1>2, <1>3, FS_Union
<1> QED
  BY <1>4, <1>5, FS_Subset
-----------------------------------------------------------------------------
(* --fail-on-new changes what is preexisting, and nothing else.             *)
Known(f, bs) ==
    \A k \in ExpandKeys(f) : BaseRank(bs, k) > 0 /\ SeverityRank(f.severity) <= BaseRank(bs, k)
Counterpart(g, f, old) ==
    /\ g.id = f.id /\ g.severity = f.severity /\ g.suppressed = f.suppressed
    /\ ExpandKeys(g) = ExpandKeys(f) /\ g.preexisting = old
Judged(listed, bs, against) == IF against THEN MarkPreexisting(listed, bs) ELSE listed

LEMMA MarkedFields ==
  ASSUME NEW f, DOMAIN f = Fields, NEW old \in BOOLEAN
  PROVE  Counterpart([f EXCEPT !.preexisting = old], f, old)
<1> DEFINE g == [f EXCEPT !.preexisting = old]
<1>1. /\ g.id = f.id /\ g.severity = f.severity /\ g.suppressed = f.suppressed
      /\ g.preexisting = old /\ g.objects = f.objects /\ g.object = f.object
  BY DEF Fields
<1> HIDE DEF g
<1>2. ExpandKeys(g) = ExpandKeys(f)
  BY <1>1 DEF ExpandKeys
<1>3. Counterpart(g, f, old)
  BY <1>1, <1>2 DEF Counterpart
<1> QED
  BY <1>3 DEF g

LEMMA JudgedFindings ==
  ASSUME NEW listed, \A f \in listed : DOMAIN f = Fields /\ f.preexisting = FALSE,
         NEW bs, NEW against \in BOOLEAN
  PROVE  /\ \A g \in Judged(listed, bs, against) :
               \E f \in listed : Counterpart(g, f, against /\ Known(f, bs))
         /\ \A f \in listed :
               \E g \in Judged(listed, bs, against) : Counterpart(g, f, against /\ Known(f, bs))
         /\ IsFiniteSet(listed) => IsFiniteSet(Judged(listed, bs, against))
<1>1. CASE ~against
  <2>1. Judged(listed, bs, against) = listed
    BY <1>1 DEF Judged
  <2>2. \A f \in listed : Counterpart(f, f, FALSE)
    BY DEF Counterpart
  <2>3. \A f \in listed : (against /\ Known(f, bs)) = FALSE
    BY <1>1
  <2> QED
    BY <2>1, <2>2, <2>3
<1>2. CASE against
  <2> DEFINE Mark(f) == [f EXCEPT !.preexisting = Known(f, bs)]
             mark == [f \in listed |-> Mark(f)]
  <2>1. Judged(listed, bs, against) = {Mark(f) : f \in listed}
    BY <1>2 DEF Judged, MarkPreexisting, Known
  <2>2. \A f \in listed : Counterpart(Mark(f), f, Known(f, bs))
    <3> TAKE f \in listed
    <3>1. Known(f, bs) \in BOOLEAN
      BY DEF Known
    <3> QED
      BY <3>1, MarkedFields
  <2>3. \A f \in listed : (against /\ Known(f, bs)) = Known(f, bs)
    BY <1>2 DEF Known
  <2>4. IsFiniteSet(listed) => IsFiniteSet(Judged(listed, bs, against))
    <3>1. Judged(listed, bs, against) = {mark[f] : f \in listed} /\ DOMAIN mark = listed
      <4> HIDE DEF Mark
      <4> QED
        BY <2>1
    <3> HIDE DEF mark
    <3> QED
      BY <3>1, ImageIsFinite
  <2> HIDE DEF Mark
  <2> QED
    BY <2>1, <2>2, <2>3, <2>4
<1> QED
  BY <1>1, <1>2
-----------------------------------------------------------------------------
(* The findings of a run, marked or not: the notes stand for no row.        *)
LEMMA KeysHaveTheId == \A f : \A k \in ExpandKeys(f) : k[1] = f.id
  BY DEF ExpandKeys

LEMMA JudgedTell ==
  ASSUME NEW cfg, NEW profile, NEW unused, NEW listed, listed = Report(cfg, profile, unused),
         NEW bs, NEW against \in BOOLEAN, NEW fs, fs = Judged(listed, bs, against)
  PROVE  /\ \A g \in fs : \E f \in listed :
               /\ Counterpart(g, f, against /\ Known(f, bs))
               /\ Note(f) \/ Tells(f, db, cfg, profile, today)
         /\ \A r \in Present(db, profile) : ~Hit(cfg.ignore, r, today) =>
               \E f \in listed, g \in fs : /\ Counterpart(g, f, against /\ Known(f, bs))
                                           /\ r \in ExpandKeys(f)
                                           /\ Tells(f, db, cfg, profile, today)
<1>1. /\ \A f \in listed : /\ DOMAIN f = Fields /\ f.preexisting = FALSE
                           /\ Note(f) \/ Tells(f, db, cfg, profile, today)
      /\ ToldOf(listed, db, cfg, profile, today)
  BY ReportTells
<1>2. /\ \A g \in fs : \E f \in listed : Counterpart(g, f, against /\ Known(f, bs))
      /\ \A f \in listed : \E g \in fs : Counterpart(g, f, against /\ Known(f, bs))
  <2>1. \A f \in listed : DOMAIN f = Fields /\ f.preexisting = FALSE
    BY <1>1
  <2> QED
    BY <2>1, JudgedFindings
<1>3. ASSUME NEW r \in Present(db, profile), ~Hit(cfg.ignore, r, today)
      PROVE  \E f \in listed, g \in fs : /\ Counterpart(g, f, against /\ Known(f, bs))
                                         /\ r \in ExpandKeys(f)
                                         /\ Tells(f, db, cfg, profile, today)
  <2>1. PICK f \in listed : r \in ExpandKeys(f)
    BY <1>1, <1>3 DEF ToldOf
  <2>2. r[1] \notin Hygiene
    BY RowsArePairs DEF Present
  <2>3. Tells(f, db, cfg, profile, today)
    BY <2>1, <2>2, <1>1, KeysHaveTheId DEF Note
  <2>4. PICK g \in fs : Counterpart(g, f, against /\ Known(f, bs))
    BY <1>2
  <2> QED
    BY <2>1, <2>3, <2>4
<1> QED
  BY <1>1, <1>2, <1>3

(* The rows shown are the rows that are there and that no rule matches.     *)
LEMMA ShownRows ==
  ASSUME NEW cfg, NEW profile, NEW unused, NEW bs, NEW against \in BOOLEAN,
         NEW fs, fs = Judged(Report(cfg, profile, unused), bs, against)
  PROVE  {r \in Rows : \E g \in fs : ~g.suppressed /\ r \in ExpandKeys(g)}
           = {r \in Present(db, profile) : ~Hit(cfg.ignore, r, today)}
<1> DEFINE listed == Report(cfg, profile, unused)
<1>1. ASSUME NEW r \in Rows, NEW g \in fs, ~g.suppressed, r \in ExpandKeys(g)
      PROVE  r \in Present(db, profile) /\ ~Hit(cfg.ignore, r, today)
  <2>1. PICK f \in listed : /\ Counterpart(g, f, against /\ Known(f, bs))
                            /\ Note(f) \/ Tells(f, db, cfg, profile, today)
    BY JudgedTell
  <2> HIDE DEF listed
  <2>2. r \in ExpandKeys(f) /\ ~f.suppressed
    BY <2>1, <1>1 DEF Counterpart
  <2>3. r[1] \notin Hygiene
    BY RowsArePairs
  <2>4. Tells(f, db, cfg, profile, today)
    BY <2>1, <2>2, <2>3, KeysHaveTheId DEF Note
  <2> QED
    BY <2>2, <2>4 DEF Tells
<1>2. ASSUME NEW r \in Present(db, profile), ~Hit(cfg.ignore, r, today)
      PROVE  r \in Rows /\ \E g \in fs : ~g.suppressed /\ r \in ExpandKeys(g)
  <2>1. PICK f \in listed, g \in fs : /\ Counterpart(g, f, against /\ Known(f, bs))
                                      /\ r \in ExpandKeys(f)
                                      /\ Tells(f, db, cfg, profile, today)
    BY <1>2, JudgedTell
  <2> HIDE DEF listed
  <2>2. ~f.suppressed
    BY <2>1, <1>2 DEF Tells
  <2>3. r \in Rows
    BY DEF Present
  <2> QED
    BY <2>1, <2>2, <2>3 DEF Counterpart
<1> QED
  BY <1>1, <1>2

(* The severities of a run are severities.                                  *)
LEMMA JudgedSeverities ==
  ASSUME NEW cfg, Settled(cfg), NEW profile, NEW unused, NEW bs, NEW against \in BOOLEAN,
         db \in RowValues, NEW fs, fs = Judged(Report(cfg, profile, unused), bs, against)
  PROVE  IsFiniteSet(fs) /\ \A g \in fs : g.severity \in Severities
<1> DEFINE listed == Report(cfg, profile, unused)
<1>1. IsFiniteSet(fs)
  <2>1. \A f \in listed : DOMAIN f = Fields /\ f.preexisting = FALSE
    BY ReportTells
  <2>2. IsFiniteSet(listed)
    BY ReportIsFinite
  <2>3. fs = Judged(listed, bs, against)
    OBVIOUS
  <2> HIDE DEF listed
  <2> QED
    BY <2>1, <2>2, <2>3, JudgedFindings
<1>2. ASSUME NEW g \in fs
      PROVE  g.severity \in Severities
  <2>1. PICK f \in listed : /\ Counterpart(g, f, against /\ Known(f, bs))
                            /\ Note(f) \/ Tells(f, db, cfg, profile, today)
    BY JudgedTell
  <2> HIDE DEF listed
  <2>2. g.severity = f.severity
    BY <2>1 DEF Counterpart
  <2>3. CASE Note(f)
    BY <2>2, <2>3 DEF Note, Severities
  <2>4. CASE Tells(f, db, cfg, profile, today)
    <3>1. PICK r \in ExpandKeys(f) : TRUE
      BY <2>4 DEF Tells
    <3>2. r \in Present(db, profile) /\ f.severity = Effective(db, cfg.severity, r)
      BY <2>4 DEF Tells
    <3> QED
      BY <3>2, <2>2, EffectiveType DEF Settled
  <2> QED
    BY <2>1, <2>3, <2>4
<1> QED
  BY <1>1, <1>2
-----------------------------------------------------------------------------
(* A base keeps what its run told of the rows that run found.               *)
Reported(fs, rows, severity, profile) ==
    /\ \A f \in fs : \A r \in Rows \cap ExpandKeys(f) :
          r \in Present(rows, profile) /\ f.severity = Effective(rows, severity, r)
    /\ \A r \in Present(rows, profile) :
          \E f \in fs : r \in ExpandKeys(f) \/ (f.id = r[1] /\ r[2] \in f.cut)
Kept(fs, rows, severity, profile) ==
    /\ Reported(fs, rows, severity, profile)
    /\ rows \in RowValues
    /\ \A id \in DOMAIN severity : severity[id] \in Severities
LevelIn(rows, severity, r) ==
    IF rows[r] = "none" THEN 0 ELSE SeverityRank(Effective(rows, severity, r))

LEMMA ReportIsReported ==
  ASSUME NEW cfg, NEW profile, NEW unused, NEW listed, listed = Report(cfg, profile, unused)
  PROVE  Reported(listed, db, cfg.severity, profile)
<1>1. /\ \A f \in listed : Note(f) \/ Tells(f, db, cfg, profile, today)
      /\ ToldOf(listed, db, cfg, profile, today)
  BY ReportTells
<1>2. ASSUME NEW f \in listed, NEW r \in Rows \cap ExpandKeys(f)
      PROVE  r \in Present(db, profile) /\ f.severity = Effective(db, cfg.severity, r)
  <2>1. Tells(f, db, cfg, profile, today)
    BY <1>1, RowsArePairs, KeysHaveTheId DEF Note
  <2> QED
    BY <2>1 DEF Tells
<1> QED
  BY <1>1, <1>2 DEF Reported, ToldOf

(* The rank of a row in a base: its level there, unless the base's report   *)
(* does not show the row.                                                   *)
LEMMA BaseRankOfRow ==
  ASSUME NEW fs, NEW rows, NEW severity, NEW profile, Reported(fs, rows, severity, profile),
         NEW r \in Rows
  PROVE  /\ BaseRank(fs, r) \in Nat /\ BaseRank(fs, r) <= LevelIn(rows, severity, r)
         /\ (\E f \in fs : r \in ExpandKeys(f)) => BaseRank(fs, r) = LevelIn(rows, severity, r)
<1> DEFINE L == LevelIn(rows, severity, r)
           Of == {f \in fs : r \in ExpandKeys(f)}
           M == {0} \union {SeverityRank(f.severity) : f \in Of}
<1>1. L \in Nat
  BY Ranks DEF LevelIn
<1>2. \A f \in Of : SeverityRank(f.severity) = L
  BY DEF Reported, LevelIn, Present
<1>3. BaseRank(fs, r) = Max(M)
  BY DEF BaseRank
<1> HIDE DEF L
<1>4. CASE Of = {}
  <2>1. M = {0}
    BY <1>4
  <2>2. Max(M) = 0
    BY <2>1 DEF Max
  <2> QED
    BY <2>2, <1>1, <1>3, <1>4 DEF L
<1>5. CASE Of # {}
  <2>1. M = {0, L}
    BY <1>2, <1>5
  <2> HIDE DEF M
  <2>2. L \in M /\ \A y \in M : L >= y
    BY <2>1, <1>1
  <2>3. \A x \in M : (\A y \in M : x >= y) => x = L
    BY <2>1, <1>1
  <2>4. Max(M) = L
    BY <2>2, <2>3 DEF Max
  <2> QED
    BY <2>4, <1>1, <1>3 DEF L
<1> QED
  BY <1>4, <1>5
-----------------------------------------------------------------------------
(* The exit code: a row no rule matches fails a run against a base when it  *)
(* is worse than in the base; and a run fails for nothing else.             *)
LEMMA NewRowsFail ==
  ASSUME NEW cfg, NEW profile, NEW unused,
         NEW bs, NEW rows, NEW severity, NEW before, Reported(bs, rows, severity, before),
         NEW fs, fs = Judged(Report(cfg, profile, unused), bs, TRUE),
         NEW r \in Present(db, profile), NEW failOn \in FailOns \ {"none"},
         ~Hit(cfg.ignore, r, today),
         SeverityRank(Effective(db, cfg.severity, r)) >= SeverityRank(failOn),
         LevelIn(rows, severity, r) < SeverityRank(Effective(db, cfg.severity, r))
  PROVE  ExitCode(fs, failOn) # "clean"
<1> DEFINE listed == Report(cfg, profile, unused)
<1>1. PICK f \in listed, g \in fs : /\ Counterpart(g, f, TRUE /\ Known(f, bs))
                                    /\ r \in ExpandKeys(f)
                                    /\ Tells(f, db, cfg, profile, today)
  BY JudgedTell
<1> HIDE DEF listed
<1>2. f.severity = Effective(db, cfg.severity, r) /\ ~f.suppressed
  BY <1>1 DEF Tells
<1>3. r \in Rows
  BY DEF Present
<1>4. BaseRank(bs, r) \in Nat /\ BaseRank(bs, r) <= LevelIn(rows, severity, r)
  BY <1>3, BaseRankOfRow
<1>5. LevelIn(rows, severity, r) \in Nat /\ SeverityRank(f.severity) \in Nat
  BY Ranks DEF LevelIn
<1>6. ~(SeverityRank(f.severity) <= BaseRank(bs, r))
  BY <1>2, <1>4, <1>5
<1>7. ~Known(f, bs)
  BY <1>1, <1>6 DEF Known
<1>8. Live(g) /\ g.severity = f.severity
  BY <1>1, <1>2, <1>7 DEF Counterpart, Live
<1>9. g \in Counted(fs, failOn)
  BY <1>2, <1>8 DEF Counted
<1> QED
  BY <1>9 DEF ExitCode

KeptIf(against, fs, rows, severity, profile) == against => Kept(fs, rows, severity, profile)
FailedByARow(cfg, profile, against, bs, rows, severity, failOn) ==
    \E r \in Present(db, profile) :
        /\ ~Hit(cfg.ignore, r, today)
        /\ SeverityRank(Effective(db, cfg.severity, r)) >= SeverityRank(failOn)
        /\ against =>
              \/ LevelIn(rows, severity, r) < SeverityRank(Effective(db, cfg.severity, r))
              \/ \E f \in bs : f.id = r[1] /\ r[2] \in f.cut
HasNotes(fs) == Hygiene \cap {f.id : f \in fs} # {}

LEMMA FailsForARow ==
  ASSUME NEW cfg, NEW profile, NEW unused,
         NEW against \in BOOLEAN, NEW bs, NEW rows, NEW severity,
         KeptIf(against, bs, rows, severity, profile),
         NEW fs, fs = Judged(Report(cfg, profile, unused), bs, against),
         db \in RowValues, Settled(cfg),
         NEW failOn \in FailOns \ {"none"}, ExitCode(fs, failOn) # "clean"
  PROVE  \/ FailedByARow(cfg, profile, against, bs, rows, severity, failOn)
         \/ failOn = "info" /\ HasNotes(fs)
<1> USE DEF FailedByARow, KeptIf, Kept, HasNotes
<1> DEFINE listed == Report(cfg, profile, unused)
<1>1. PICK g \in fs : Live(g) /\ SeverityRank(g.severity) >= SeverityRank(failOn)
  BY DEF ExitCode, Counted
<1>2. PICK f \in listed : /\ Counterpart(g, f, against /\ Known(f, bs))
                          /\ Note(f) \/ Tells(f, db, cfg, profile, today)
  BY JudgedTell
<1> HIDE DEF listed
<1>3. ~f.suppressed /\ ~(against /\ Known(f, bs)) /\ g.id = f.id /\ g.severity = f.severity
  BY <1>1, <1>2 DEF Counterpart, Live
<1>4. CASE Note(f)
  <2>1. SeverityRank(failOn) <= 1 /\ failOn \in {"info", "warn", "critical"}
    BY <1>1, <1>3, <1>4 DEF Note, SeverityRank, FailOns
  <2>2. failOn = "info"
    BY <2>1 DEF SeverityRank
  <2>3. g.id \in Hygiene
    BY <1>3, <1>4 DEF Note
  <2> QED
    BY <2>2, <2>3
<1>5. CASE Tells(f, db, cfg, profile, today)
  <2>1. \A r \in ExpandKeys(f) : /\ r \in Present(db, profile) /\ ~Hit(cfg.ignore, r, today)
                                 /\ f.severity = Effective(db, cfg.severity, r)
    BY <1>3, <1>5 DEF Tells
  <2>2. ExpandKeys(f) # {}
    BY <1>5 DEF Tells
  <2>3. CASE ~against
    BY <2>1, <2>2, <2>3, <1>1, <1>3
  <2>4. CASE against
    <3>1. PICK r \in ExpandKeys(f) :
            ~(BaseRank(bs, r) > 0 /\ SeverityRank(f.severity) <= BaseRank(bs, r))
      BY <2>4, <1>3 DEF Known
    <3>2. r \in Rows /\ r \in Present(db, profile)
      BY <2>1 DEF Present
    <3>3. SeverityRank(f.severity) \in 1 .. 3
      BY <2>1, <3>2, EffectiveType, Ranks DEF Settled
    <3>4. LevelIn(rows, severity, r) < SeverityRank(f.severity)
             \/ \E b \in bs : b.id = r[1] /\ r[2] \in b.cut
      <4>1. CASE rows[r] = "none"
        BY <4>1, <3>3 DEF LevelIn
      <4>2. CASE rows[r] # "none"
        <5>1. r \in Present(rows, profile)
          BY <4>2, <3>2 DEF Present
        <5>2. LevelIn(rows, severity, r) \in 1 .. 3
          BY <5>1, <4>2, <2>4, EffectiveType, Ranks DEF LevelIn
        <5>3. PICK b \in bs : r \in ExpandKeys(b) \/ (b.id = r[1] /\ r[2] \in b.cut)
          BY <5>1, <2>4 DEF Reported
        <5>4. CASE r \in ExpandKeys(b)
          <6>1. BaseRank(bs, r) = LevelIn(rows, severity, r)
            BY <5>4, <3>2, <2>4, BaseRankOfRow
          <6> QED
            BY <6>1, <5>2, <3>1, <3>3
        <5> QED
          BY <5>3, <5>4
      <4> QED
        BY <4>1, <4>2
    <3> QED
      BY <3>1, <3>4, <2>1, <1>1, <1>3
  <2> QED
    BY <2>3, <2>4
<1> QED
  BY <1>2, <1>4, <1>5
-----------------------------------------------------------------------------
(* The views of any finite list of findings agree.                          *)
LEMMA ViewsOfFindings ==
  ASSUME NEW fs, IsFiniteSet(fs), \A f \in fs : f.severity \in Severities,
         NEW failOn \in FailOns
  PROVE  LET failing == Counted(fs, failOn)
         IN  /\ JUnitFailures(fs, failOn) = failing
             /\ JUnitSkipped(fs) \cap failing = {}
             /\ failing \subseteq DashboardListed(fs) \cap TerminalHeadline(fs) \cap SARIFResults(fs)
             /\ failOn # "none" => (failing # {} <=>
                  \E sev \in Severities : /\ SeverityRank(sev) >= SeverityRank(failOn)
                                          /\ PrometheusTotal(fs, sev) > 0)
<1> DEFINE failing == Counted(fs, failOn)
           Total(sev) == {f \in fs : ~f.suppressed /\ ~f.preexisting /\ f.severity = sev}
<1>1. JUnitFailures(fs, failOn) = failing
  BY DEF JUnitFailures, Counted, Live
<1>2. JUnitSkipped(fs) \cap failing = {}
  BY DEF JUnitSkipped, Counted, Live
<1>3. failing \subseteq DashboardListed(fs) \cap TerminalHeadline(fs) \cap SARIFResults(fs)
  BY DEF DashboardListed, TerminalHeadline, TerminalVisible, SARIFResults, Counted, Live
<1>4. ASSUME NEW sev
      PROVE  PrometheusTotal(fs, sev) > 0 <=> Total(sev) # {}
  <2>1. IsFiniteSet(Total(sev))
    <3>1. Total(sev) \in SUBSET fs
      OBVIOUS
    <3> HIDE DEF Total
    <3> QED
      BY <3>1, FS_Subset
  <2>2. PrometheusTotal(fs, sev) = Cardinality(Total(sev))
    BY DEF PrometheusTotal
  <2> HIDE DEF Total
  <2>3. Cardinality(Total(sev)) \in Nat /\ (Cardinality(Total(sev)) = 0 <=> Total(sev) = {})
    BY <2>1, FS_CardinalityType, FS_EmptySet
  <2> QED
    BY <2>2, <2>3
<1>5. failOn # "none" => (failing # {} <=>
         \E sev \in Severities : SeverityRank(sev) >= SeverityRank(failOn) /\ Total(sev) # {})
  BY DEF Counted, Live
<1> HIDE DEF Total
<1> QED
  BY <1>1, <1>2, <1>3, <1>4, <1>5
-----------------------------------------------------------------------------
(* The inductive invariant.  The base keeps what its run told of the rows   *)
(* of that day; the misses of a rule are the runs since it last matched or  *)
(* last was not in the file; the last run's unused rules are those whose    *)
(* misses reached the limit.                                                *)
TypeInv ==
    /\ db \in RowValues /\ file \in Files /\ today \in Nat
    /\ uses \in Seq(Range(uses))
BaseKept == base # None => Kept(base.findings, base.rows, base.severity, base.profile)
(* The runs of a history from the k-th on whose file had rules; the row of  *)
(* misses of a rule begins after the last of them that did not miss it.     *)
Since(us, k) == {i \in k .. Len(us) : HasRules(us[i])}
Streak(us, m, r) ==
    \E k \in 1 .. Len(us) + 1 :
        /\ IsFiniteSet(Since(us, k)) /\ Cardinality(Since(us, k)) = m
        /\ \A i \in Since(us, k) : MissedIn(us[i], r)
        /\ k > 1 => HasRules(us[k - 1]) /\ ~MissedIn(us[k - 1], r)
OnceIn(us, r) == \A i \in DOMAIN us : Listed(us[i].active, r) <= 1
LastWithRules(us, counts) ==
    \E k \in 1 .. Len(us) + 1 :
        /\ Since(us, k) = {}
        /\ k > 1 => HasRules(us[k - 1]) /\ DOMAIN counts = Range(us[k - 1].active)
        /\ k = 1 => DOMAIN counts = {}
Counts(us, counts) ==
    /\ LastWithRules(us, counts)
    /\ \A r \in DOMAIN counts :
          counts[r] \in Nat /\ (OnceIn(us, r) => Streak(us, counts[r], r))
Counting == Counts(uses, misses)
LastUse ==
    Ran /\ out.store =>
        LET last == uses[Len(uses)]
        IN  /\ uses # <<>>
            /\ out.unused = IF HasRules(last) THEN Unused(misses, last.active, last.matched) ELSE {}
IInv == TypeInv /\ BaseKept /\ Counting /\ LastUse

LEMMA ListedAtLeastOnce ==
  ASSUME NEW active, IsFiniteSet(DOMAIN active), NEW r \in Range(active)
  PROVE  Listed(active, r) \in Nat /\ Listed(active, r) >= 1
<1> DEFINE places == {i \in DOMAIN active : active[i] = r}
<1>1. places \in SUBSET DOMAIN active /\ places # {}
  BY DEF Range
<1>2. Listed(active, r) = Cardinality(places)
  BY DEF Listed
<1> HIDE DEF places
<1>3. IsFiniteSet(places)
  BY <1>1, FS_Subset
<1>4. Cardinality(places) \in Nat /\ Cardinality(places) # 0
  BY <1>1, <1>3, FS_CardinalityType, FS_EmptySet
<1> QED
  BY <1>2, <1>4

LEMMA Recording ==
  ASSUME NEW s, s \in Seq(Range(s)), NEW e, NEW t, t = Append(s, e)
  PROVE  /\ t \in Seq(Range(t)) /\ t # <<>> /\ Len(t) = Len(s) + 1 /\ Len(s) \in Nat
         /\ DOMAIN s = 1 .. Len(s) /\ DOMAIN t = 1 .. Len(s) + 1
         /\ \A i \in 1 .. Len(s) : t[i] = s[i]
         /\ t[Len(s) + 1] = e
<1> DEFINE S == Range(s) \union {e}
<1>1. s \in Seq(S) /\ e \in S
  OBVIOUS
<1> HIDE DEF S
<1>2. /\ t \in Seq(S) /\ t # <<>> /\ Len(t) = Len(s) + 1
      /\ \A i \in 1 .. Len(s) : t[i] = s[i]
      /\ t[Len(s) + 1] = e
  BY <1>1, AppendProperties
<1>3. Len(s) \in Nat /\ DOMAIN s = 1 .. Len(s) /\ DOMAIN t = 1 .. Len(t)
  BY <1>1, <1>2
<1>4. t \in Seq(Range(t))
  BY <1>2, SeqOfRange
<1> QED
  BY <1>2, <1>3, <1>4

LEMMA ListFacts ==
  ASSUME NEW s, s \in Seq(Range(s))
  PROVE  DOMAIN s = 1 .. Len(s) /\ Len(s) \in Nat /\ IsFiniteSet(DOMAIN s)
<1>1. DOMAIN s = 1 .. Len(s) /\ Len(s) \in Nat
  OBVIOUS
<1> QED
  BY <1>1, FS_Interval

LEMMA EmptyCounts == Counts(<<>>, <<>>)
<1>1. Since(<<>>, 1) = {} /\ Len(<<>>) = 0 /\ DOMAIN <<>> = {}
  BY DEF Since
<1> QED
  BY <1>1 DEF Counts, LastWithRules

(* One more run: those with rules since the k-th are the same and it.       *)
LEMMA OneMore ==
  ASSUME NEW us, us \in Seq(Range(us)), NEW entry, NEW k \in 1 .. Len(us) + 1,
         NEW then, then = Append(us, entry)
  PROVE  /\ HasRules(entry) => Since(then, k) = Since(us, k) \union {Len(us) + 1}
         /\ ~HasRules(entry) => Since(then, k) = Since(us, k)
         /\ Len(us) + 1 \notin Since(us, k)
         /\ \A i \in Since(us, k) : i \in 1 .. Len(us) /\ then[i] = us[i]
<1>1. /\ Len(then) = Len(us) + 1 /\ Len(us) \in Nat
      /\ \A i \in 1 .. Len(us) : then[i] = us[i]
      /\ then[Len(us) + 1] = entry
  BY Recording
<1> DEFINE n == Len(us)
<1>2. n \in Nat /\ Len(then) = n + 1 /\ k \in 1 .. n + 1 /\ then[n + 1] = entry
  BY <1>1
<1>3. \A i \in 1 .. n : then[i] = us[i]
  BY <1>1
<1>4. Since(us, k) = {i \in k .. n : HasRules(us[i])}
  BY DEF Since
<1>5. Since(then, k) = {i \in k .. n + 1 : HasRules(then[i])}
  BY <1>2 DEF Since
<1>6. \A i : i \in k .. n + 1 <=> i \in k .. n \/ i = n + 1
  BY <1>2
<1>7. \A i \in k .. n : i \in 1 .. n
  BY <1>2
<1>8. n + 1 \notin k .. n
  BY <1>2
<1> HIDE DEF n
<1>9. HasRules(entry) => Since(then, k) = Since(us, k) \union {n + 1}
  BY <1>2, <1>3, <1>4, <1>5, <1>6, <1>7
<1>10. ~HasRules(entry) => Since(then, k) = Since(us, k)
  BY <1>2, <1>3, <1>4, <1>5, <1>6, <1>7
<1>11. /\ n + 1 \notin Since(us, k)
       /\ \A i \in Since(us, k) : i \in 1 .. n /\ then[i] = us[i]
  BY <1>3, <1>4, <1>7, <1>8
<1> QED
  BY <1>9, <1>10, <1>11 DEF n

(* A run that leaves the store alone is none to the count.                  *)
LEMMA CountingIsKeptWithoutRules ==
  ASSUME NEW us, us \in Seq(Range(us)), NEW counts, Counts(us, counts),
         NEW entry, ~HasRules(entry)
  PROVE  Counts(Append(us, entry), counts)
<1> DEFINE n == Len(us)
           then == Append(us, entry)
<1>1. /\ then = Append(us, entry) /\ Len(then) = n + 1 /\ n \in Nat
      /\ DOMAIN us = 1 .. n /\ DOMAIN then = 1 .. n + 1
      /\ \A i \in 1 .. n : then[i] = us[i]
  BY Recording
<1> HIDE DEF then
<1>2. ASSUME NEW k \in 1 .. n + 1
      PROVE  /\ k \in 1 .. Len(then) + 1
             /\ Since(then, k) = Since(us, k)
             /\ \A i \in Since(us, k) : then[i] = us[i]
             /\ k > 1 => then[k - 1] = us[k - 1]
  <2>1. k \in 1 .. Len(then) + 1 /\ (k > 1 => k - 1 \in 1 .. n)
    BY <1>1
  <2>2. Since(then, k) = Since(us, k) /\ \A i \in Since(us, k) : then[i] = us[i]
    <3> HIDE DEF n
    <3>1. k \in 1 .. Len(us) + 1 /\ then = Append(us, entry) /\ us \in Seq(Range(us))
      BY <1>1 DEF n
    <3>2. ~HasRules(entry) => Since(then, k) = Since(us, k)
      BY <3>1, OneMore
    <3>3. \A i \in Since(us, k) : then[i] = us[i]
      BY <3>1, OneMore
    <3> QED
      BY <3>2, <3>3
  <2> QED
    BY <1>1, <2>1, <2>2
<1>3. LastWithRules(then, counts)
  BY <1>2 DEF Counts, LastWithRules
<1>4. ASSUME NEW r \in DOMAIN counts, OnceIn(then, r)
      PROVE  Streak(then, counts[r], r)
  <2>1. OnceIn(us, r)
    BY <1>1, <1>4 DEF OnceIn
  <2>2. Streak(us, counts[r], r)
    BY <2>1 DEF Counts
  <2> QED
    BY <2>2, <1>2 DEF Streak
<1> QED
  BY <1>3, <1>4 DEF Counts, then

(* RecordUsage keeps the count.                                             *)
LEMMA CountingIsKept ==
  ASSUME NEW us, us \in Seq(Range(us)), NEW counts, Counts(us, counts),
         NEW entry, HasRules(entry), IsFiniteSet(DOMAIN entry.active),
         NEW after, after = RecordUsage(counts, entry.active, entry.matched)
  PROVE  Counts(Append(us, entry), after)
<1> DEFINE n == Len(us)
           active == entry.active
           matched == entry.matched
           then == Append(us, entry)
<1>3. /\ then = Append(us, entry) /\ Len(then) = n + 1 /\ n \in Nat
      /\ DOMAIN us = 1 .. n /\ DOMAIN then = 1 .. n + 1
      /\ \A i \in 1 .. n : then[i] = us[i]
      /\ then[n + 1] = entry
  BY Recording
<1> HIDE DEF then
<1>4. DOMAIN after = Range(active)
  BY DEF RecordUsage
<1>6. \A r : MissedIn(then[n + 1], r) <=> r \in Range(active) \ matched
  BY <1>3 DEF MissedIn
<1>n. n + 2 \in 1 .. Len(then) + 1 /\ (n + 2) - 1 = n + 1 /\ n + 2 > 1 /\ n + 2 # 1
  BY <1>3
<1>e. Since(then, n + 2) = {} /\ IsFiniteSet(Since(then, n + 2)) /\ Cardinality(Since(then, n + 2)) = 0
  <2>1. n + 2 .. n + 1 = {}
    BY <1>3
  <2>2. Since(then, n + 2) = {}
    BY <1>3, <2>1 DEF Since
  <2> QED
    BY <2>2, FS_EmptySet
<1> HIDE DEF n
<1>l. LastWithRules(then, after)
  BY <1>3, <1>4, <1>n, <1>e DEF LastWithRules
<1>7. ASSUME NEW r \in Range(active)
      PROVE  after[r] \in Nat /\ (OnceIn(then, r) => Streak(then, after[r], r))
  <2> DEFINE before == IF r \in DOMAIN counts THEN counts[r] ELSE 0
  <2>1. before \in Nat
    BY DEF Counts
  <2>2. Listed(active, r) \in Nat /\ Listed(active, r) >= 1
    BY ListedAtLeastOnce
  <2>3. after[r] = IF r \in matched THEN 0 ELSE before + Listed(active, r)
    BY DEF RecordUsage
  <2>4. r \in DOMAIN counts => before = counts[r]
    OBVIOUS
  <2>5. r \notin DOMAIN counts => before = 0
    OBVIOUS
  <2> HIDE DEF before
  <2>6. CASE r \in matched
    <3>1. after[r] = 0
      BY <2>3, <2>6
    <3>2. ~MissedIn(then[n + 1], r)
      BY <1>6, <2>6
    <3>3. Streak(then, 0, r)
      BY <3>2, <1>3, <1>n, <1>e DEF Streak
    <3> QED
      BY <3>1, <3>3
  <2>7. CASE r \notin matched
    <3>1. after[r] = before + Listed(active, r)
      BY <2>3, <2>7
    <3>2. after[r] \in Nat
      BY <3>1, <2>1, <2>2
    <3>3. ASSUME OnceIn(then, r)
          PROVE  Streak(then, after[r], r)
      <4>1. Listed(active, r) <= 1
        BY <3>3, <1>3 DEF OnceIn
      <4>2. OnceIn(us, r)
        BY <3>3, <1>3 DEF OnceIn
      <4>3. after[r] = before + 1
        BY <3>1, <4>1, <2>1, <2>2
      <4>4. MissedIn(then[n + 1], r)
        BY <1>6, <2>7
      <4>5. Streak(us, before, r)
        <5>1. CASE r \in DOMAIN counts
          BY <4>2, <5>1, <2>4 DEF Counts
        <5>2. CASE r \notin DOMAIN counts
          <6>1. PICK k \in 1 .. Len(us) + 1 :
                  /\ Since(us, k) = {}
                  /\ k > 1 => HasRules(us[k - 1]) /\ DOMAIN counts = Range(us[k - 1].active)
            BY DEF Counts, LastWithRules
          <6>2. k > 1 => HasRules(us[k - 1]) /\ ~MissedIn(us[k - 1], r)
            BY <5>2, <6>1 DEF MissedIn
          <6> QED
            BY <6>1, <6>2, <5>2, <2>5, FS_EmptySet DEF Streak
        <5> QED
          BY <5>1, <5>2
      <4>6. PICK k \in 1 .. n + 1 :
              /\ IsFiniteSet(Since(us, k)) /\ Cardinality(Since(us, k)) = before
              /\ \A i \in Since(us, k) : MissedIn(us[i], r)
              /\ k > 1 => HasRules(us[k - 1]) /\ ~MissedIn(us[k - 1], r)
        BY <4>5 DEF Streak, n
      <4>7. /\ Since(then, k) = Since(us, k) \union {n + 1} /\ n + 1 \notin Since(us, k)
            /\ \A i \in Since(us, k) : then[i] = us[i]
        <5>1. k \in 1 .. Len(us) + 1 /\ then = Append(us, entry) /\ us \in Seq(Range(us))
          BY <1>3 DEF n
        <5>2. HasRules(entry) => Since(then, k) = Since(us, k) \union {Len(us) + 1}
          BY <5>1, OneMore
        <5>3. Len(us) + 1 \notin Since(us, k) /\ \A i \in Since(us, k) : then[i] = us[i]
          BY <5>1, OneMore
        <5> QED
          BY <5>2, <5>3 DEF n
      <4>8. IsFiniteSet(Since(then, k)) /\ Cardinality(Since(then, k)) = before + 1
        BY <4>6, <4>7, FS_AddElement
      <4>9. \A i \in Since(then, k) : MissedIn(then[i], r)
        BY <4>4, <4>6, <4>7
      <4>10. k \in 1 .. Len(then) + 1 /\ (k > 1 => k - 1 \in 1 .. n)
        BY <1>3
      <4>11. k > 1 => HasRules(then[k - 1]) /\ ~MissedIn(then[k - 1], r)
        BY <4>6, <4>10, <1>3
      <4>12. Streak(then, before + 1, r)
        BY <4>8, <4>9, <4>10, <4>11 DEF Streak
      <4> QED
        BY <4>3, <4>12
    <3> QED
      BY <3>2, <3>3
  <2> QED
    BY <2>6, <2>7
<1>9. Counts(then, after)
  BY <1>4, <1>7, <1>l DEF Counts
<1> QED
  BY <1>9 DEF then
-----------------------------------------------------------------------------
(* What a run does: it judges the report of the settings it loaded, and a   *)
(* base it saves is that report.                                            *)
LEMMA RunJudges ==
  ASSUME IInv, NEW call \in Invocations,
         Run(call.profile, call.inline, call.store, call.against, call.save)
  PROVE  \E cfg, unused :
           /\ Settled(cfg)
           /\ db' = db /\ file' = file /\ today' = today
           /\ out'.findings \in {{}, Judged(Report(cfg, call.profile, unused), base.findings,
                                            call.against)}
           /\ Ran' => /\ out'.findings = Judged(Report(cfg, call.profile, unused), base.findings,
                                                call.against)
                      /\ out'.rules = cfg.ignore /\ out'.severity = cfg.severity
                      /\ out'.profile = call.profile /\ out'.against = call.against
           /\ Ran' /\ call.against =>
                base # None /\ base.profile = call.profile /\ base' = base
           /\ base' \in {base, [profile |-> call.profile, rows |-> db, severity |-> cfg.severity,
                                findings |-> Report(cfg, call.profile, unused)]}
<1>1. PICK loaded \in Load(file, "") :
        LET cfg == AddInlineIgnores(loaded, call.inline)
            active == [i \in DOMAIN loaded.ignore |-> RuleString(loaded.ignore[i])]
            matched == Matched(cfg, Compute(db, call.profile), today)
            records == call.store /\ active # <<>>
            unused == IF records THEN Unused(misses', active, matched) ELSE {}
            listed == Report(cfg, call.profile, unused)
            refused == call.against /\ ~Comparable(base, call.profile)
        IN  /\ out' = [profile |-> IF refused THEN "none" ELSE call.profile,
                       findings |-> IF refused THEN {}
                                    ELSE IF call.against THEN MarkPreexisting(listed, base.findings)
                                    ELSE listed,
                       rules |-> cfg.ignore, severity |-> cfg.severity, unused |-> unused,
                       store |-> call.store, against |-> call.against]
            /\ base' = IF call.save THEN [profile |-> call.profile, findings |-> listed, rows |-> db,
                                          severity |-> cfg.severity]
                       ELSE base
  BY DEF Run
<1> DEFINE cfg == AddInlineIgnores(loaded, call.inline)
           active == [i \in DOMAIN loaded.ignore |-> RuleString(loaded.ignore[i])]
           matched == Matched(cfg, Compute(db, call.profile), today)
           records == call.store /\ active # <<>>
           unused == IF records THEN Unused(misses', active, matched) ELSE {}
           listed == Report(cfg, call.profile, unused)
           refused == call.against /\ ~Comparable(base, call.profile)
           judged == Judged(listed, base.findings, call.against)
<1>2. Settled(cfg)
  <2>1. loaded = Validated(file) /\ file \in Files
    BY DEF Load, IInv, TypeInv
  <2> QED
    BY <2>1, ConfigIsSettled
<1>3. db' = db /\ file' = file /\ today' = today
  BY DEF Run
<1>4. call.against => base # None /\ ~call.save
  BY DEF Run
<1>5. /\ out'.profile = (IF refused THEN "none" ELSE call.profile)
      /\ out'.findings = (IF refused THEN {} ELSE judged)
      /\ out'.rules = cfg.ignore /\ out'.severity = cfg.severity /\ out'.against = call.against
  <2>1. out' = [profile |-> IF refused THEN "none" ELSE call.profile,
                findings |-> IF refused THEN {} ELSE judged,
                rules |-> cfg.ignore, severity |-> cfg.severity, unused |-> unused,
                store |-> call.store, against |-> call.against]
    <3> HIDE DEF cfg, active, matched
    <3> QED
      BY <1>1 DEF Judged, cfg, active, matched
  <2> HIDE DEF cfg, active, matched, records, unused, listed, refused, judged
  <2> QED
    BY <2>1
<1>6. base' = IF call.save THEN [profile |-> call.profile, findings |-> listed, rows |-> db,
                                 severity |-> cfg.severity]
              ELSE base
  BY <1>1
<1> HIDE DEF cfg, active, matched, records, unused
<1>7. Ran' => ~refused
  <2> HIDE DEF refused, judged, listed
  <2> QED
    BY <1>5 DEF Ran
<1>8. Ran' /\ call.against => base # None /\ base.profile = call.profile /\ base' = base
  BY <1>4, <1>6, <1>7 DEF Comparable
<1> HIDE DEF refused
<1>9. base' \in {base, [profile |-> call.profile, rows |-> db, severity |-> cfg.severity,
                        findings |-> listed]}
  BY <1>6
<1> QED
  BY <1>2, <1>3, <1>5, <1>7, <1>8, <1>9

(* And what it records.                                                     *)
LEMMA RunRecords ==
  ASSUME IInv, NEW call \in Invocations,
         Run(call.profile, call.inline, call.store, call.against, call.save)
  PROVE  Counting' /\ LastUse' /\ uses' \in Seq(Range(uses'))
<1>1. PICK loaded \in Load(file, "") :
        LET cfg == AddInlineIgnores(loaded, call.inline)
            active == [i \in DOMAIN loaded.ignore |-> RuleString(loaded.ignore[i])]
            matched == Matched(cfg, Compute(db, call.profile), today)
            records == call.store /\ active # <<>>
            unused == IF records THEN Unused(misses', active, matched) ELSE {}
            listed == Report(cfg, call.profile, unused)
            refused == call.against /\ ~Comparable(base, call.profile)
        IN  /\ misses' = IF records THEN RecordUsage(misses, active, matched) ELSE misses
            /\ uses' = IF call.store
                 THEN Append(uses, [active |-> active, matched |-> matched]) ELSE uses
            /\ out' = [profile |-> IF refused THEN "none" ELSE call.profile,
                       findings |-> IF refused THEN {}
                                    ELSE IF call.against THEN MarkPreexisting(listed, base.findings)
                                    ELSE listed,
                       rules |-> cfg.ignore, severity |-> cfg.severity, unused |-> unused,
                       store |-> call.store, against |-> call.against]
  BY DEF Run
<1> DEFINE cfg == AddInlineIgnores(loaded, call.inline)
           active == [i \in DOMAIN loaded.ignore |-> RuleString(loaded.ignore[i])]
           matched == Matched(cfg, Compute(db, call.profile), today)
           records == call.store /\ active # <<>>
           unused == IF records THEN Unused(misses', active, matched) ELSE {}
<1>2. IsFiniteSet(DOMAIN active)
  <2>1. loaded = Validated(file) /\ file \in Files
    BY DEF Load, IInv, TypeInv
  <2>2. loaded.ignore \in Seq(Range(loaded.ignore))
    BY <2>1, DecisionsAssumption
  <2>3. IsFiniteSet(DOMAIN loaded.ignore)
    BY <2>2, ListFacts
  <2>4. DOMAIN active = DOMAIN loaded.ignore
    OBVIOUS
  <2> HIDE DEF active
  <2> QED
    BY <2>3, <2>4
<1>3. Counting /\ uses \in Seq(Range(uses))
  BY DEF IInv, TypeInv
<1>4. out'.unused = unused /\ out'.store = call.store
  <2> DEFINE listed == Report(cfg, call.profile, unused)
             refused == call.against /\ ~Comparable(base, call.profile)
             profile == IF refused THEN "none" ELSE call.profile
             assessed == IF refused THEN {}
                         ELSE IF call.against THEN MarkPreexisting(listed, base.findings) ELSE listed
             rules == cfg.ignore
             severity == cfg.severity
  <2>1. out' = [profile |-> profile, findings |-> assessed, rules |-> rules, severity |-> severity,
                unused |-> unused, store |-> call.store, against |-> call.against]
    BY <1>1
  <2> HIDE DEF profile, assessed, rules, severity, unused, records
  <2> QED
    BY <2>1
<1>5. /\ misses' = IF records THEN RecordUsage(misses, active, matched) ELSE misses
      /\ uses' = IF call.store
           THEN Append(uses, [active |-> active, matched |-> matched]) ELSE uses
  BY <1>1
<1> DEFINE entry == [active |-> active, matched |-> matched]
<1>6. entry.active = active /\ entry.matched = matched /\ (HasRules(entry) <=> active # <<>>)
  BY DEF HasRules
<1> HIDE DEF cfg, active, matched
<1>7. CASE call.store
  <2>1. /\ misses' = IF HasRules(entry) THEN RecordUsage(misses, entry.active, entry.matched) ELSE misses
        /\ uses' = Append(uses, entry)
        /\ out'.unused = IF HasRules(entry) THEN Unused(misses', entry.active, entry.matched) ELSE {}
    BY <1>4, <1>5, <1>6, <1>7
  <2>2. IsFiniteSet(DOMAIN entry.active)
    BY <1>2, <1>6
  <2> HIDE DEF entry
  <2>3. Counts(uses', misses')
    <3>1. CASE HasRules(entry)
      BY <1>3, <2>1, <2>2, <3>1, CountingIsKept DEF Counting
    <3>2. CASE ~HasRules(entry)
      BY <1>3, <2>1, <3>2, CountingIsKeptWithoutRules DEF Counting
    <3> QED
      BY <3>1, <3>2
  <2>4. uses' \in Seq(Range(uses')) /\ uses' # <<>> /\ uses'[Len(uses')] = entry
    <3>1. PICK then : then = uses'
      OBVIOUS
    <3>2. uses \in Seq(Range(uses)) /\ then = Append(uses, entry)
      BY <1>3, <2>1, <3>1
    <3>3. /\ then \in Seq(Range(then)) /\ then # <<>> /\ Len(then) = Len(uses) + 1
          /\ then[Len(uses) + 1] = entry
      BY <3>2, Recording
    <3> QED
      BY <3>1, <3>3
  <2> QED
    BY <2>1, <2>3, <2>4 DEF Counting, LastUse
<1>8. CASE ~call.store
  <2>1. misses' = misses /\ uses' = uses /\ ~out'.store
    BY <1>4, <1>5, <1>8
  <2> QED
    BY <2>1, <1>3 DEF Counting, LastUse
<1> QED
  BY <1>7, <1>8
-----------------------------------------------------------------------------
(* The steps that are no run of a report leave no run to judge.             *)
AnyRun == \E call \in Invocations :
             Run(call.profile, call.inline, call.store, call.against, call.save)

LEMMA NoRunByDefault == out = None => ~Ran /\ out.findings = {}
  BY DEF None, Ran

LEMMA Steps ==
  ASSUME [Next]_vars
  PROVE  AnyRun \/ out' = None \/ UNCHANGED vars
<1>1. CASE UNCHANGED vars
  BY <1>1
<1>2. CASE Next
  BY <1>2 DEF Next, AnyRun, DatabaseChanges, EditConfig, NextDay, RunFails, Changed
<1> QED
  BY <1>1, <1>2

(* The invariant is inductive: it holds in every state the program reaches. *)
THEOREM Invariance == Spec => []IInv
<1>1. Init => IInv
  <2> SUFFICES ASSUME Init PROVE IInv
    OBVIOUS
  <2>1. TypeInv
    BY DecisionsAssumption DEF Init, TypeInv, RowValues, Rows
  <2>2. BaseKept
    BY DEF Init, BaseKept
  <2>3. Counting
    BY EmptyCounts DEF Init, Counting
  <2>4. LastUse
    BY NoRunByDefault DEF Init, LastUse
  <2> QED
    BY <2>1, <2>2, <2>3, <2>4 DEF IInv
<1>2. IInv /\ [Next]_vars => IInv'
  <2> SUFFICES ASSUME IInv, [Next]_vars PROVE IInv'
    OBVIOUS
  <2>1. CASE AnyRun
    <3>1. PICK call \in Invocations :
            Run(call.profile, call.inline, call.store, call.against, call.save)
      BY <2>1 DEF AnyRun
    <3>2. PICK cfg, unused :
            /\ Settled(cfg)
            /\ db' = db /\ file' = file /\ today' = today
            /\ base' \in {base, [profile |-> call.profile, rows |-> db, severity |-> cfg.severity,
                                 findings |-> Report(cfg, call.profile, unused)]}
      BY <3>1, RunJudges
    <3>3. Counting' /\ LastUse' /\ uses' \in Seq(Range(uses'))
      BY <3>1, RunRecords
    <3>4. TypeInv'
      BY <3>2, <3>3 DEF IInv, TypeInv
    <3>5. BaseKept'
      <4>1. CASE base' = base
        BY <4>1 DEF IInv, BaseKept
      <4>2. CASE base' = [profile |-> call.profile, rows |-> db, severity |-> cfg.severity,
                          findings |-> Report(cfg, call.profile, unused)]
        <5>1. /\ base'.profile = call.profile /\ base'.rows = db /\ base'.severity = cfg.severity
              /\ base'.findings = Report(cfg, call.profile, unused)
          BY <4>2
        <5>2. Reported(base'.findings, db, cfg.severity, call.profile)
          BY <5>1, ReportIsReported
        <5> QED
          BY <5>1, <5>2, <3>2 DEF IInv, TypeInv, BaseKept, Settled, Kept
      <4> QED
        BY <3>2, <4>1, <4>2
    <3> QED
      BY <3>3, <3>4, <3>5 DEF IInv
  <2>2. CASE DatabaseChanges
    <3>1. PICK r \in Rows : \E level \in Levels[r] \union {"none"} : db' = [db EXCEPT ![r] = level]
      BY <2>2 DEF DatabaseChanges
    <3>2. Levels[r] \subseteq Severities
      BY DecisionsAssumption DEF Rows
    <3>3. db' \in RowValues
      BY <3>1, <3>2 DEF IInv, TypeInv, RowValues
    <3>4. UNCHANGED <<file, today, misses, base, uses>> /\ ~Ran'
      BY <2>2 DEF DatabaseChanges, Changed, None, Ran
    <3> QED
      BY <3>3, <3>4 DEF IInv, TypeInv, BaseKept, Counting, LastUse
  <2>3. CASE EditConfig
    <3>1. file' \in Files /\ UNCHANGED <<db, today, misses, base, uses>> /\ ~Ran'
      BY <2>3 DEF EditConfig, Changed, None, Ran
    <3> QED
      BY <3>1 DEF IInv, TypeInv, BaseKept, Counting, LastUse
  <2>4. CASE NextDay
    <3>1. today' = today + 1 /\ UNCHANGED <<db, file, misses, base, uses>> /\ ~Ran'
      BY <2>4 DEF NextDay, Changed, None, Ran
    <3> QED
      BY <3>1 DEF IInv, TypeInv, BaseKept, Counting, LastUse
  <2>5. ASSUME NEW explicit \in {"", "unreadable"}, RunFails(explicit)
        PROVE  IInv'
    <3>1. UNCHANGED <<db, file, today, misses, base, uses>> /\ ~Ran'
      BY <2>5 DEF RunFails, None, Ran
    <3> QED
      BY <3>1 DEF IInv, TypeInv, BaseKept, Counting, LastUse
  <2>6. CASE UNCHANGED vars
    BY <2>6 DEF vars, IInv, TypeInv, BaseKept, Counting, LastUse, Ran
  <2> QED
    BY <2>1, <2>2, <2>3, <2>4, <2>5, <2>6 DEF Next, AnyRun
<1> QED
  BY <1>1, <1>2, PTL DEF Spec

(* A rule mutes the rows it covers through its last day, and no other row:  *)
(* the rows a report shows are those that are there and that no rule covers *)
(* (suppressRows, matchIgnore).                                             *)
THEOREM MutingFollowsTheRules == Spec => []MutingIsExact
<1>1. Init => MutingIsExact
  BY NoRunByDefault DEF Init, MutingIsExact
<1>2. IInv /\ MutingIsExact /\ [Next]_vars => MutingIsExact'
  <2> SUFFICES ASSUME IInv, MutingIsExact, [Next]_vars PROVE MutingIsExact'
    OBVIOUS
  <2>1. CASE AnyRun
    <3> SUFFICES ASSUME Ran'
                 PROVE  Shown' = {r \in Present(db', out'.profile) : ~Muted(r)'}
      BY DEF MutingIsExact
    <3>1. PICK call \in Invocations :
            Run(call.profile, call.inline, call.store, call.against, call.save)
      BY <2>1 DEF AnyRun
    <3>2. PICK cfg, unused :
            /\ Settled(cfg) /\ db' = db /\ today' = today
            /\ out'.findings = Judged(Report(cfg, call.profile, unused), base.findings, call.against)
            /\ out'.rules = cfg.ignore /\ out'.profile = call.profile
      BY <3>1, RunJudges
    <3>3. \A r : Muted(r)' <=> Hit(cfg.ignore, r, today)
      <4> TAKE r
      <4>1. Muted(r)' <=> \E i \in DOMAIN cfg.ignore : Covers(cfg.ignore[i], r)
        BY <3>2 DEF Muted, Covers
      <4> QED
        BY <4>1, <3>2, CoveringIsMatching DEF IInv, TypeInv, Settled
    <3>4. Shown' = {r \in Rows : \E g \in out'.findings : ~g.suppressed /\ r \in ExpandKeys(g)}
      BY DEF Shown
    <3>5. Shown' = {r \in Present(db, call.profile) : ~Hit(cfg.ignore, r, today)}
      <4>1. call.against \in BOOLEAN
        BY DecisionsAssumption
      <4> QED
        BY <3>2, <3>4, <4>1, ShownRows
    <3> QED
      BY <3>2, <3>3, <3>5
  <2>2. CASE out' = None
    BY <2>2 DEF MutingIsExact, Ran, None
  <2>3. CASE UNCHANGED vars
    BY <2>3 DEF vars, MutingIsExact, Ran, Shown, Muted, Covers
  <2> QED
    BY <2>1, <2>2, <2>3, Steps
<1> QED
  BY <1>1, <1>2, Invariance, PTL DEF Spec
-----------------------------------------------------------------------------
(* The levels of a base, as the properties speak of them.                   *)
LEMMA LevelOfBase == \A r : LevelInBase(r) = LevelIn(base.rows, base.severity, r)
  BY DEF LevelInBase, LevelIn

(* Under --fail-on-new the exit code fails the run for a row that is new or *)
(* worse, and for nothing else (MarkPreexisting, ExitCode).                 *)
THEOREM ExitFollowsTheRows == Spec => []ExitIsExact
<1>1. Init => ExitIsExact
  BY NoRunByDefault DEF Init, ExitIsExact, NewRowFails, ExitIsJustified
<1>2. IInv /\ ExitIsExact /\ [Next]_vars => ExitIsExact'
  <2> SUFFICES ASSUME IInv, ExitIsExact, [Next]_vars PROVE ExitIsExact'
    OBVIOUS
  <2>1. CASE AnyRun
    <3> SUFFICES ASSUME Ran' PROVE NewRowFails' /\ ExitIsJustified'
      BY DEF ExitIsExact, NewRowFails, ExitIsJustified
    <3>1. PICK call \in Invocations :
            Run(call.profile, call.inline, call.store, call.against, call.save)
      BY <2>1 DEF AnyRun
    <3>2. PICK cfg, unused :
            /\ Settled(cfg) /\ db' = db /\ today' = today
            /\ out'.findings = Judged(Report(cfg, call.profile, unused), base.findings, call.against)
            /\ out'.rules = cfg.ignore /\ out'.severity = cfg.severity
            /\ out'.profile = call.profile /\ out'.against = call.against
            /\ call.against => base # None /\ base.profile = call.profile /\ base' = base
      BY <3>1, RunJudges
    <3>3. \A r : Muted(r)' <=> Hit(cfg.ignore, r, today)
      <4> TAKE r
      <4>1. Muted(r)' <=> \E i \in DOMAIN cfg.ignore : Covers(cfg.ignore[i], r)
        BY <3>2 DEF Muted, Covers
      <4> QED
        BY <4>1, <3>2, CoveringIsMatching DEF IInv, TypeInv, Settled
    <3>4. \A r : LevelNow(r)' = SeverityRank(Effective(db, cfg.severity, r))
      BY <3>2 DEF LevelNow
    <3>5. call.against => Kept(base.findings, base.rows, base.severity, call.profile)
      BY <3>2 DEF IInv, BaseKept
    <3>6. call.against => \A r : LevelInBase(r)' = LevelIn(base.rows, base.severity, r)
      BY <3>2, LevelOfBase DEF LevelInBase
    <3>7. NewRowFails'
      <4> SUFFICES ASSUME call.against, NEW r \in Present(db, call.profile),
                          NEW failOn \in FailOns \ {"none"},
                          ~Muted(r)', LevelNow(r)' >= SeverityRank(failOn),
                          LevelInBase(r)' < LevelNow(r)'
                   PROVE  ExitCode(out'.findings, failOn) # "clean"
        BY <3>2 DEF NewRowFails
      <4>1. out'.findings = Judged(Report(cfg, call.profile, unused), base.findings, TRUE)
        BY <3>2 DEF Judged
      <4>2. ~Hit(cfg.ignore, r, today)
        BY <3>3
      <4>3. SeverityRank(Effective(db, cfg.severity, r)) >= SeverityRank(failOn)
        BY <3>4
      <4>4. LevelIn(base.rows, base.severity, r) < SeverityRank(Effective(db, cfg.severity, r))
        BY <3>4, <3>6
      <4> QED
        BY <3>5, <4>1, <4>2, <4>3, <4>4, NewRowsFail DEF Kept
    <3>8. ExitIsJustified'
      <4> SUFFICES ASSUME NEW failOn \in FailOns \ {"none"},
                          ExitCode(out'.findings, failOn) # "clean"
                   PROVE  \/ \E r \in Present(db, call.profile) :
                               /\ ~Muted(r)' /\ LevelNow(r)' >= SeverityRank(failOn)
                               /\ call.against =>
                                     \/ LevelInBase(r)' < LevelNow(r)'
                                     \/ \E f \in base'.findings : f.id = r[1] /\ r[2] \in f.cut
                          \/ failOn = "info" /\ Hygiene \cap {f.id : f \in out'.findings} # {}
        BY <3>2 DEF ExitIsJustified
      <4>1. call.against \in BOOLEAN /\ db \in RowValues
        BY DecisionsAssumption DEF IInv, TypeInv
      <4>2. \/ FailedByARow(cfg, call.profile, call.against, base.findings, base.rows,
                            base.severity, failOn)
            \/ failOn = "info" /\ Hygiene \cap {f.id : f \in out'.findings} # {}
        <5>1. \/ FailedByARow(cfg, call.profile, call.against, base.findings, base.rows,
                              base.severity, failOn)
              \/ failOn = "info" /\ HasNotes(out'.findings)
          <6>1. KeptIf(call.against, base.findings, base.rows, base.severity, call.profile)
            BY <3>5 DEF KeptIf
          <6> QED
            BY <3>2, <4>1, <6>1, FailsForARow
        <5> QED
          BY <5>1 DEF HasNotes
      <4> QED
        BY <3>2, <3>3, <3>4, <3>6, <4>2 DEF FailedByARow
    <3> QED
      BY <3>7, <3>8
  <2>2. CASE out' = None
    BY <2>2 DEF ExitIsExact, NewRowFails, ExitIsJustified, Ran, None
  <2>3. CASE UNCHANGED vars
    BY <2>3 DEF vars, ExitIsExact, NewRowFails, ExitIsJustified, Ran, Muted, Covers, LevelNow,
                LevelInBase
  <2> QED
    BY <2>1, <2>2, <2>3, Steps
<1> QED
  BY <1>1, <1>2, Invariance, PTL DEF Spec

(* The test pane, the counts of the metrics, the annotations and the two    *)
(* terminal views tell of a failure exactly when the exit code does         *)
(* (junit.go, prometheus.go, sarif.go, terminal.go).                        *)
THEOREM ViewsTellTheSame == Spec => []ViewsAgree
<1> DEFINE Sound == IsFiniteSet(out.findings) /\ \A f \in out.findings : f.severity \in Severities
<1>1. Init => Sound
  BY NoRunByDefault, FS_EmptySet DEF Init
<1>2. IInv /\ Sound /\ [Next]_vars => Sound'
  <2> SUFFICES ASSUME IInv, Sound, [Next]_vars PROVE Sound'
    OBVIOUS
  <2>1. CASE AnyRun
    <3>1. PICK call \in Invocations :
            Run(call.profile, call.inline, call.store, call.against, call.save)
      BY <2>1 DEF AnyRun
    <3>2. PICK cfg, unused :
            /\ Settled(cfg)
            /\ out'.findings \in {{}, Judged(Report(cfg, call.profile, unused), base.findings,
                                             call.against)}
      BY <3>1, RunJudges
    <3>3. call.against \in BOOLEAN /\ db \in RowValues
      BY DecisionsAssumption DEF IInv, TypeInv
    <3>4. CASE out'.findings = {}
      BY <3>4, FS_EmptySet
    <3>5. CASE out'.findings = Judged(Report(cfg, call.profile, unused), base.findings, call.against)
      BY <3>2, <3>3, <3>5, JudgedSeverities
    <3> QED
      BY <3>2, <3>4, <3>5
  <2>2. CASE out' = None
    BY <2>2, FS_EmptySet DEF None
  <2>3. CASE UNCHANGED vars
    BY <2>3 DEF vars
  <2> QED
    BY <2>1, <2>2, <2>3, Steps
<1>3. Sound => ViewsAgree
  BY ViewsOfFindings DEF ViewsAgree
<1> QED
  BY <1>1, <1>2, <1>3, Invariance, PTL DEF Spec

(* After a run with a store, a rule no run lists twice is called unused     *)
(* exactly when SuppressionUnusedAfter runs, the last one among them, had   *)
(* it in their file and did not see it match, and no run since the first of *)
(* them saw it match or had only other rules in its file: a run whose file  *)
(* had no rules neither counts nor ends the row (RecordSuppressionUsage,    *)
(* and the guard of computeFindings).                                       *)
THEOREM UnusedRulesAreDead == Spec => []UnusedIsDead
<1>1. IInv => UnusedIsDead
  <2> DEFINE n == Len(uses)
             last == uses[n]
             limit == SuppressionUnusedAfter
             active == Range(last.active)
             Dead(r) == \E k \in DOMAIN uses :
                            /\ Cardinality(RunsSince(k)) >= limit
                            /\ \A i \in RunsSince(k) : MissedIn(uses[i], r)
  <2> SUFFICES ASSUME IInv, Ran, out.store
               PROVE  /\ out.unused \subseteq active
                      /\ \A r \in active : ListedOnce(r) => (r \in out.unused <=> Dead(r))
    BY DEF UnusedIsDead
  <2>1. /\ uses # <<>> /\ uses \in Seq(Range(uses)) /\ limit \in Nat \ {0}
        /\ out.unused = IF HasRules(last) THEN Unused(misses, last.active, last.matched) ELSE {}
    BY SuppressionsAssumption DEF IInv, TypeInv, LastUse
  <2>2. n \in Nat /\ n > 0 /\ DOMAIN uses = 1 .. n
    BY <2>1
  <2>3. \A k : RunsSince(k) = Since(uses, k)
    BY DEF RunsSince, Since
  <2> HIDE DEF n
  <2>4. CASE ~HasRules(last)
    <3>1. active = {}
      BY <2>4 DEF HasRules, Range
    <3> QED
      BY <3>1, <2>1, <2>4
  <2>5. CASE HasRules(last)
    <3>1. out.unused = {r \in active : r \notin last.matched /\ misses[r] >= limit}
      BY <2>1, <2>5 DEF Unused
    <3>2. DOMAIN misses = active
      <4>1. PICK k \in 1 .. n + 1 :
              /\ Since(uses, k) = {}
              /\ k > 1 => DOMAIN misses = Range(uses[k - 1].active)
        BY DEF IInv, Counting, Counts, LastWithRules, n
      <4>2. n \in k .. n => n \in Since(uses, k)
        BY <2>5 DEF Since, n
      <4>3. k = n + 1 /\ k > 1 /\ k - 1 = n
        BY <4>1, <4>2, <2>2
      <4> QED
        BY <4>1, <4>3
    <3> HIDE DEF last
    <3>3. ASSUME NEW r \in active, ListedOnce(r)
          PROVE  r \in out.unused <=> Dead(r)
      <4>1. misses[r] \in Nat /\ Streak(uses, misses[r], r)
        BY <3>2, <3>3 DEF IInv, Counting, Counts, ListedOnce, OnceIn
      <4>2. PICK k \in 1 .. n + 1 :
              /\ IsFiniteSet(Since(uses, k)) /\ Cardinality(Since(uses, k)) = misses[r]
              /\ \A i \in Since(uses, k) : MissedIn(uses[i], r)
              /\ k > 1 => HasRules(uses[k - 1]) /\ ~MissedIn(uses[k - 1], r)
        BY <4>1 DEF Streak, n
      <4>3. \A q \in 1 .. n : n \in Since(uses, q)
        BY <2>2, <2>5 DEF Since, n, last
      <4>4. ASSUME r \in out.unused
            PROVE  Dead(r)
        <5>1. misses[r] >= limit
          BY <3>1, <4>4
        <5>2. k \in DOMAIN uses
          <6>1. CASE k = n + 1
            <7>1. Since(uses, n + 1) = {}
              BY <2>2 DEF Since, n
            <7>2. misses[r] = 0
              BY <4>2, <6>1, <7>1, FS_EmptySet
            <7> QED
              BY <5>1, <7>2, <2>1
          <6>2. CASE k # n + 1
            BY <6>2, <2>2
          <6> QED
            BY <6>1, <6>2
        <5> QED
          BY <5>1, <5>2, <4>2, <2>3
      <4>5. ASSUME Dead(r)
            PROVE  r \in out.unused
        <5>1. PICK q \in 1 .. n :
                /\ Cardinality(Since(uses, q)) >= limit
                /\ \A i \in Since(uses, q) : MissedIn(uses[i], r)
          BY <4>5, <2>2, <2>3
        <5>2. MissedIn(last, r)
          BY <5>1, <4>3 DEF last
        <5>3. q >= k
          <6> SUFFICES ASSUME q < k
                       PROVE  FALSE
            BY <2>2
          <6>1. k > 1 /\ k - 1 \in q .. n
            BY <2>2
          <6>2. k - 1 \in Since(uses, q)
            BY <6>1, <4>2 DEF Since, n
          <6> QED
            BY <6>1, <6>2, <5>1, <4>2
        <5>4. Since(uses, q) \subseteq Since(uses, k)
          <6>1. \A i \in q .. n : i \in k .. n
            BY <5>3, <2>2
          <6> QED
            BY <6>1 DEF Since, n
        <5>5. /\ Cardinality(Since(uses, q)) <= Cardinality(Since(uses, k))
              /\ Cardinality(Since(uses, q)) \in Nat
          BY <5>4, <4>2, FS_Subset, FS_CardinalityType
        <5>6. misses[r] >= limit
          BY <5>1, <5>5, <4>1, <4>2, <2>1
        <5> QED
          BY <3>1, <3>3, <5>2, <5>6 DEF MissedIn
      <4> QED
        BY <4>4, <4>5
    <3>4. out.unused \subseteq active
      BY <3>1
    <3> QED
      BY <3>3, <3>4
  <2> QED
    BY <2>4, <2>5
<1> QED
  BY <1>1, Invariance, PTL
=============================================================================
