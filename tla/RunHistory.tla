------------------------------ MODULE RunHistory ------------------------------
(***************************************************************************)
(* What one `pgbot inspect` run does with the baseline store (withStore,   *)
(* cmd/pgbot/inspect.go) for one target: read the previous run, derive the *)
(* events since it, compare with a baseline, then save the snapshot, the   *)
(* schema fingerprint and the events.  Each store call is a transaction of *)
(* its own; runs overlap, store calls fail and processes die between them. *)
(*                                                                         *)
(* The retention of BaselineStore appears here as Forget: any snapshots    *)
(* may be gone at any time.  A run reads the server piece by piece: the     *)
(* start time as it connects, then settings, schema and counters in any    *)
(* order, stats_reset after the sample window, and only then the clock     *)
(* that dates it.  Any reading but the first may fail.  The catalog always *)
(* holds more objects than those named here (pg_toast indexes, plpgsql),   *)
(* so a stored schema fingerprint always has rows.                         *)
(***************************************************************************)
EXTENDS Integers, Sequences, FiniteSets

CONSTANTS
    Runs,        \* concurrent pgbot processes inspecting the target
    Objects,     \* catalog objects that may change
    Defs,        \* definitions an object can have
    Absent,      \* the object is not in the catalog
    None,        \* no snapshot, no schema fingerprint, no settings, no baseline
    MinAge,      \* the preferred age of a delta baseline (15 minutes)
    MaxClock,    \* bound on the clock
    MaxId,       \* bound on the snapshots ever saved
    MaxRuns,     \* bound on the runs saved or in progress
    MaxChanges   \* bound on the changes made to the server

ASSUME HistoryAssumption ==
    /\ Absent \notin Defs /\ None \notin [Objects -> Defs \cup {Absent}]
    /\ Objects \cap {"config", "stats.reset", "server.restarted"} = {}
    /\ MinAge \in Nat /\ MaxClock \in Nat /\ MaxId \in Nat
    /\ MaxRuns \in Nat /\ MaxChanges \in Nat

VARIABLES
    clock,    \* the time, for the server and for pgbot
    server,   \* what a Context can observe
    snaps,    \* the snapshots of the target
    nextId,   \* the AUTOINCREMENT sequence of snapshots.id
    stored,   \* schema_objects: the fingerprints kept, by snapshot id
    log,      \* the events table
    run,      \* the progress of each run
    changes   \* history: the changes made to the server, in their order

vars == <<clock, server, snaps, nextId, stored, log, run, changes>>

Schemas == [Objects -> Defs \cup {Absent}]
Never == -1                     \* stats_reset is NULL
Times == Nat \cup {Never}

(* The server's catalog, overridden settings, stats_reset and start time.   *)
Server == [schema : Schemas, config : Nat, reset : Times, start : Nat]

(* What a run reads in its first phase, concurrently.                       *)
Sections == {"settings", "schema"}

Topics == Objects \cup {"config", "stats.reset", "server.restarted"}

(* A stored snapshot holds the Context without its schema fingerprint.  Two *)
(* fields are history, which no guard reads: "schema", the fingerprint the  *)
(* run had, and "seen", how many changes had been made when it connected.   *)
Snapshot == [id : Nat, seen : Nat, at : Nat, config : Nat \cup {None},
             reset : Times, start : Nat, schema : Schemas \cup {None}]

(* Two fields are history.  "exact": what the event was derived from is     *)
(* what the run opening the window had read.  "early": the changes (their   *)
(* numbers) made before that run was dated, but after it, or the run that   *)
(* derives the event, had connected: a reading may or may not show them.    *)
Event == [topic : Topics, after : Nat, before : Nat, exact : BOOLEAN, early : SUBSET Nat]

(* "seen" is history, as in Snapshot.                                       *)
Idle == [pc |-> "idle", todo |-> {}, seen |-> 0, at |-> 0,
         ctx |-> None, schema |-> None, last |-> None, events |-> {},
         base |-> None, id |-> 0]

-----------------------------------------------------------------------------
(* Previous: the latest snapshot at or before t; ties go either way.        *)
Previous(t) ==
    LET old == {s \in snaps : s.at <= t}
    IN  IF old = {} THEN {None}
        ELSE {s \in old : \A o \in old : o.at <= s.at}

(* LoadLatestSchema: the fingerprint with the greatest snapshot id.         *)
LatestSchema ==
    IF stored = {} THEN {None}
    ELSE {r \in stored : \A q \in stored : q.id <= r.id}

(* The rows SaveSchema keeps: those of the two greatest ids.                *)
KeepTwo(rows) ==
    {r \in rows : Cardinality({q.id : q \in {q \in rows : q.id > r.id}}) < 2}

(* A slip of File: the fingerprint replaces the others.                     *)
FileAlone(id, schema) == {[id |-> id, schema |-> schema]}
(* SaveSchema: the fingerprints stored after the run of snapshot id.        *)
File(id, schema) == KeepTwo(stored \cup {[id |-> id, schema |-> schema]})

(* The id the INSERT of Save gets: AUTOINCREMENT never reuses one.          *)
NewId == nextId

(* StatsResetBetween: stats_reset moved (or appeared), or a later start.    *)
ResetMoved(prev, cur) == cur # Never /\ (prev = Never \/ cur > prev)
StatsResetBetween(prev, cur) ==
    ResetMoved(prev.reset, cur.reset) \/ cur.start > prev.start

(* A slip of Compute: withStore's check of the previous run is relied on.   *)
ComputeUnchecked(ctx, base) == base
(* Compute: no comparison across a reset, whoever chose the baseline.       *)
Compute(ctx, base) == IF StatsResetBetween(base, ctx) THEN None ELSE base

(* The changes made while the two runs were reading, before the first was   *)
(* dated.                                                                   *)
Early(r) ==
    {i \in DOMAIN changes :
        (i > r.last.seen \/ i > r.seen) /\ changes[i].at < r.last.at}

(* A slip of ConfigEvents: a window that is only its end.                   *)
ConfigEventsAtEnd(r) ==
    IF None \in {r.last.config, r.ctx.config} \/ r.last.config = r.ctx.config THEN {}
    ELSE {[topic |-> "config", after |-> r.at, before |-> r.at, exact |-> TRUE,
           early |-> Early(r)]}

(* Derive: lifecycle events carry their own time; a schema or config change *)
(* is dated between the previous run and this one.                          *)
LifecycleEvents(r) ==
    {e \in {[topic |-> "stats.reset", after |-> r.ctx.reset, before |-> r.ctx.reset,
             exact |-> TRUE, early |-> {}],
            [topic |-> "server.restarted", after |-> r.ctx.start, before |-> r.ctx.start,
             exact |-> TRUE, early |-> {}]} :
        e.after # Never /\ e.after > r.last.at}

SchemaEvents(r, prev) ==
    IF prev = None \/ r.schema = None THEN {}
    ELSE {[topic |-> o, after |-> r.last.at, before |-> r.at,
           exact |-> prev.id = r.last.id, early |-> Early(r)] :
              o \in {o \in Objects : prev.schema[o] # r.schema[o]}}

ConfigEvents(r) ==
    IF None \in {r.last.config, r.ctx.config} \/ r.last.config = r.ctx.config THEN {}
    ELSE {[topic |-> "config", after |-> r.last.at, before |-> r.at, exact |-> TRUE,
           early |-> Early(r)]}

Derive(r, prev) == LifecycleEvents(r) \cup SchemaEvents(r, prev) \cup ConfigEvents(r)

-----------------------------------------------------------------------------
Init ==
    /\ clock = 0
    /\ server = [schema |-> [o \in Objects |-> Absent], config |-> 0,
                 reset |-> Never, start |-> 0]
    /\ snaps = {} /\ nextId = 1
    /\ stored = {} /\ log = {}
    /\ run = [h \in Runs |-> Idle]
    /\ changes = <<>>

Store == <<snaps, nextId, stored, log>>

Tick ==
    /\ clock < MaxClock
    /\ clock' = clock + 1
    /\ UNCHANGED <<server, Store, run, changes>>

(* Somebody changes the server: DDL, a setting, pg_stat_reset, a restart.   *)
Change(topic, new) ==
    /\ Len(changes) < MaxChanges
    /\ server' = new
    /\ changes' = Append(changes, [topic |-> topic, at |-> clock])
    /\ UNCHANGED <<clock, Store, run>>

ServerChanges ==
    \/ \E o \in Objects, d \in Defs \cup {Absent} :
        /\ server.schema[o] # d
        /\ Change(o, [server EXCEPT !.schema[o] = d])
    \/ Change("config", [server EXCEPT !.config = 1 - @])
    \/ server.reset < clock /\ Change("stats.reset", [server EXCEPT !.reset = clock])
    \/ server.start < clock /\ Change("server.restarted", [server EXCEPT !.start = clock])

(* The connection's probe reads the start time; then Run starts sampling.   *)
Connect(h) ==
    /\ run[h].pc = "idle"
    /\ nextId + Cardinality({g \in Runs : run[g].pc # "idle"}) <= MaxRuns
    /\ run' = [run EXCEPT ![h] = [Idle EXCEPT
                   !.pc = "sample", !.todo = Sections, !.seen = Len(changes),
                   !.ctx = [config |-> None, reset |-> Never, start |-> server.start]]]
    /\ UNCHANGED <<clock, server, Store, changes>>

(* One query of phase 1; a failed one leaves its section out.               *)
Sample(h, s) ==
    /\ run[h].pc = "sample" /\ s \in run[h].todo
    /\ LET r == [run[h] EXCEPT !.todo = @ \ {s}]
       IN  \/ /\ s = "settings"
              /\ \E config \in {server.config, None} :
                  run' = [run EXCEPT ![h] = [r EXCEPT !.ctx.config = config]]
           \/ /\ s = "schema"
              /\ \E schema \in {server.schema, None} :
                  run' = [run EXCEPT ![h] = [r EXCEPT !.schema = schema]]
    /\ UNCHANGED <<clock, server, Store, changes>>

(* Health's sample after the window, where stats_reset comes from; a failed *)
(* one (of the two) or a profile without health leaves it unknown, which    *)
(* reads as "never reset".                                                  *)
ReadHealth(h) ==
    /\ run[h].pc = "sample" /\ run[h].todo = {}
    /\ \E reset \in {server.reset, Never} :
        run' = [run EXCEPT ![h].ctx.reset = reset, ![h].pc = "date"]
    /\ UNCHANGED <<clock, server, Store, changes>>

(* tB, which becomes CollectedAt.                                           *)
DateRun(h) ==
    /\ run[h].pc = "date"
    /\ run' = [run EXCEPT ![h].at = clock, ![h].pc = "readLast"]
    /\ UNCHANGED <<clock, server, Store, changes>>

(* last, _ = Previous(now, 0): an error reads as "no previous run".         *)
ReadLast(h) ==
    /\ run[h].pc = "readLast"
    /\ \E last \in Previous(run[h].at) \cup {None} :
        run' = [run EXCEPT ![h].last = last,
                           ![h].pc = IF last = None THEN "save" ELSE "derive"]
    /\ UNCHANGED <<clock, server, Store, changes>>

(* LoadLatestSchema (an error reads as "none yet"), Derive, and the reset   *)
(* check against the previous run.                                          *)
DeriveEvents(h) ==
    /\ run[h].pc = "derive"
    /\ \E prev \in LatestSchema \cup {None} :
        LET cut == StatsResetBetween(run[h].last, run[h].ctx)
        IN  run' = [run EXCEPT ![h].events = Derive(run[h], prev),
                               ![h].pc = IF cut THEN "save" ELSE "compare"]
    /\ UNCHANGED <<clock, server, Store, changes>>

(* The delta baseline: a run at least MinAge old, else the previous one.    *)
Compare(h) ==
    /\ run[h].pc = "compare"
    /\ \E aged \in Previous(run[h].at - MinAge) \cup {None} :
        run' = [run EXCEPT
            ![h].base = Compute(run[h].ctx, IF aged = None THEN run[h].last ELSE aged),
            ![h].last = None, ![h].pc = "save"]
    /\ UNCHANGED <<clock, server, Store, changes>>

(* Save: on an error nothing else is written.  Its retention is Forget.     *)
Save(h) ==
    /\ run[h].pc = "save"
    /\ \/ /\ nextId <= MaxId
          /\ snaps' = snaps \cup {[id |-> NewId, seen |-> run[h].seen, at |-> run[h].at,
                                   config |-> run[h].ctx.config,
                                   reset |-> run[h].ctx.reset,
                                   start |-> run[h].ctx.start,
                                   schema |-> run[h].schema]}
          /\ nextId' = nextId + 1
          /\ run' = [run EXCEPT ![h] = [Idle EXCEPT
                         !.pc = "saveSchema", !.id = NewId,
                         !.schema = run[h].schema, !.events = run[h].events]]
       \/ /\ run' = [run EXCEPT ![h] = Idle]
          /\ UNCHANGED <<snaps, nextId>>
    /\ UNCHANGED <<clock, server, stored, log, changes>>

(* SaveSchema: one transaction; its error does not stop the next call.      *)
SaveSchema(h) ==
    /\ run[h].pc = "saveSchema"
    /\ run' = [run EXCEPT ![h] = [Idle EXCEPT !.pc = "appendEvents", !.events = run[h].events]]
    /\ IF run[h].schema = None
         THEN UNCHANGED stored
         ELSE stored' \in {stored, File(run[h].id, run[h].schema)}
    /\ UNCHANGED <<clock, server, snaps, nextId, log, changes>>

(* AppendEvents: one transaction; then the run ends.                        *)
AppendEvents(h) ==
    /\ run[h].pc = "appendEvents"
    /\ run' = [run EXCEPT ![h] = Idle]
    /\ log' \in {log, log \cup run[h].events}
    /\ UNCHANGED <<clock, server, snaps, nextId, stored, changes>>

(* The process dies; what its transactions committed stays.                 *)
Crash(h) ==
    /\ run[h].pc # "idle"
    /\ run' = [run EXCEPT ![h] = Idle]
    /\ UNCHANGED <<clock, server, Store, changes>>

(* Retention, the size cap or `baselines prune` took a snapshot; the schema *)
(* fingerprints and the events stay.                                        *)
Forget ==
    /\ \E s \in snaps : snaps' = snaps \ {s}
    /\ UNCHANGED <<clock, server, nextId, stored, log, run, changes>>

Next ==
    \/ Tick \/ ServerChanges \/ Forget
    \/ \E h \in Runs :
        \/ Connect(h) \/ (\E s \in Sections : Sample(h, s)) \/ ReadHealth(h)
        \/ DateRun(h) \/ ReadLast(h) \/ DeriveEvents(h) \/ Compare(h)
        \/ Save(h) \/ SaveSchema(h) \/ AppendEvents(h) \/ Crash(h)

Spec == Init /\ [][Next]_vars

-----------------------------------------------------------------------------
(* A change of that topic really was made in the event's window, or before  *)
(* it while the run that opens the window had not been dated.               *)
Happened(e) ==
    \E i \in DOMAIN changes :
        /\ changes[i].topic = e.topic /\ changes[i].at <= e.before
        /\ e.after <= changes[i].at \/ i \in e.early

(* What holds of the code, however runs overlap, fail and die, whatever they *)
(* read piece by piece and whatever retention removes: an event whose        *)
(* comparison is with the very run that opens its window (settings always    *)
(* are, the schema when the stored fingerprint is that run's) tells of a     *)
(* change that was made, and made before the window ends.  It is in the      *)
(* window, or it was made after one of the two runs had connected and before *)
(* the first was dated: the date is taken after the sample window, so Derive *)
(* gives such a change the next window.  Lifecycle events carry their own    *)
(* time, which is exact.                                                     *)
ExactEventsHappened == \A e \in log : e.exact => Happened(e)

(* The changes that make a delta fiction, as far as a run can know of them:  *)
(* without stats_reset (health failed, or the schema profile) it sees none.  *)
Breaks(r) ==
    IF r.ctx.reset = Never THEN {"server.restarted"}
    ELSE {"server.restarted", "stats.reset"}

(* No delta is computed over a restart or a statistics reset made between    *)
(* the date of the base and the start of the run, although withStore checks  *)
(* the previous run and then compares with an older one.                     *)
NoDeltaAcrossReset ==
    \A h \in Runs :
        run[h].base # None =>
            \A i \in 1..run[h].seen :
                changes[i].topic \in Breaks(run[h]) => changes[i].at <= run[h].base.at

(* A fingerprint is filed under the snapshot of its own run: an id that     *)
(* retention freed never comes back to file two runs under one id.          *)
FingerprintOfItsSnapshot ==
    \A r \in stored, s \in snaps : r.id = s.id => r.schema = s.schema

(* What runs compare against never goes back to an older run: a slow run    *)
(* that stores its fingerprint after a later run did does not displace it.  *)
LatestNeverRegresses ==
    [][\A r \in stored : \E q \in stored' : q.id >= r.id]_vars

(* The schema a run compares with is that of the run it is filed under, and *)
(* never an older one than before.                                          *)
FingerprintsStayFiled == []FingerprintOfItsSnapshot /\ LatestNeverRegresses

=============================================================================
