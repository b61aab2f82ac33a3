---------------------------- MODULE BaselineStore ----------------------------
(***************************************************************************)
(* The snapshots table of pgbot's baseline store (internal/store) and the  *)
(* retention that every Save runs.  One SQLite file is shared by several   *)
(* handles: parallel `pgbot` processes, and the goroutines of              *)
(* --all-databases, each of which opens a Store of its own.  Every SQL     *)
(* statement is one autocommit transaction, so it is one action; between   *)
(* two statements of a handle any other handle may run, and a handle may   *)
(* be killed.                                                              *)
(*                                                                         *)
(* Time is counted in abstract ticks, the file in pages.                   *)
(***************************************************************************)
EXTENDS Integers, FiniteSets

CONSTANTS
    Handles,      \* open Store handles, one per run
    Fps,          \* target fingerprints
    NoFp,         \* stands for no target
    KeepAll,      \* keepAllFor
    KeepRollup,   \* keepRollupFor
    Hour,         \* the width of a thinning bucket
    RowPages,     \* pages one snapshot takes
    Cap,          \* maxBytes, in pages
    MaxClock,     \* bound on the clock
    MaxId,        \* bound on the number of snapshots ever inserted
    MaxOther      \* bound on the pages of the tables retention does not touch

ASSUME StoreAssumption ==
    /\ NoFp \notin Fps
    /\ KeepAll \in Nat /\ KeepRollup \in Nat /\ KeepAll <= KeepRollup
    /\ Hour \in Nat \ {0}
    /\ RowPages \in Nat \ {0} /\ Cap \in Nat \ {0}
    /\ MaxClock \in Nat /\ MaxId \in Nat /\ MaxOther \in Nat

VARIABLES
    clock,   \* time.Now()
    snaps,   \* the snapshots table
    nextId,  \* the AUTOINCREMENT sequence of snapshots.id
    other,   \* live pages of events, wait_rollups and the other tables
    free,    \* pages on the file's free list
    run      \* the progress of each handle

vars == <<clock, snaps, nextId, other, free, run>>

PCs == {"idle", "insert", "dropOld", "thin", "measure", "vacuum", "remeasure",
        "count", "evict", "vacuumAfter", "reclaim"}

Snapshot == [id : Nat, fp : Fps, at : Nat]

(* A run's local state; a field is meaningful only between its first and    *)
(* its last use.                                                            *)
At(pc, fp) == [pc |-> pc, fp |-> fp, at |-> 0, now |-> 0, rows |-> 0, size |-> 0]
Idle == At("idle", NoFp)

-----------------------------------------------------------------------------
(* fileSize: PRAGMA page_count covers the free list as well as live pages. *)
Live == RowPages * Cardinality(snaps) + other
FileSize == Live + free

(* maxBytes * 9 / 10 *)
Target == (Cap * 9) \div 10

(* Slips of EvictCount: no clamp to rows - 1; rounding down.                *)
EvictCountUnclamped(rows, size) == (rows * (size - Target) + size - 1) \div size
EvictCountFloor(rows, size) ==
    LET share == (rows * (size - Target)) \div size
    IN  IF share < 1 THEN 1 ELSE IF share > rows - 1 THEN rows - 1 ELSE share

(* The number of rows one sized pass evicts: ceil(rows * (size - target) /  *)
(* size), clamped to 1 .. rows - 1.                                        *)
EvictCount(rows, size) ==
    LET share == (rows * (size - Target) + size - 1) \div size
    IN  IF share < 1 THEN 1 ELSE IF share > rows - 1 THEN rows - 1 ELSE share

(* ORDER BY collected_at ASC LIMIT k: ties are broken any way SQLite likes. *)
Oldest(S, k) ==
    {E \in SUBSET S :
        /\ Cardinality(E) = IF k < Cardinality(S) THEN k ELSE Cardinality(S)
        /\ \A e \in E, s \in S \ E : e.at <= s.at}

Expired(fp, now) == {s \in snaps : s.fp = fp /\ s.at < now - KeepRollup}

(* Rows of fp past the keep-all window, and the newest id of their hour.    *)
Rollup(fp, now) == {s \in snaps : s.fp = fp /\ s.at < now - KeepAll}
Bucket(s) == s.at \div Hour

(* A slip of HourKeepers: the subquery without its fingerprint condition.   *)
HourKeepersOfAny(fp, now) ==
    LET old == {s \in snaps : s.at < now - KeepAll}
    IN  {s \in old : \A t \in old : Bucket(t) = Bucket(s) => t.id <= s.id}

HourKeepers(fp, now) ==
    {s \in Rollup(fp, now) :
        \A t \in Rollup(fp, now) : Bucket(t) = Bucket(s) => t.id <= s.id}

(* Deleting rows moves their pages to the free list.                        *)
Delete(D) ==
    /\ snaps' = snaps \ D
    /\ free' = free + RowPages * Cardinality(D)

(* New rows take free pages before the file grows.                          *)
Take(n) == free' = IF free > n THEN free - n ELSE 0

Become(h, r) == run' = [run EXCEPT ![h] = r]
Finish(h) == Become(h, Idle)

-----------------------------------------------------------------------------
Init ==
    /\ clock = 0
    /\ snaps = {}
    /\ nextId = 1
    /\ other \in 0 .. MaxOther
    /\ free = 0
    /\ run = [h \in Handles |-> Idle]

(* Wall-clock time passes between any two steps.                            *)
Tick ==
    /\ clock < MaxClock
    /\ clock' = clock + 1
    /\ UNCHANGED <<snaps, nextId, other, free, run>>

(* AppendEvents and SaveWaitProfile grow the tables retention leaves alone. *)
Append ==
    /\ other < MaxOther
    /\ other' = other + 1
    /\ Take(1)
    /\ UNCHANGED <<clock, snaps, nextId, run>>

(* A run collects a Context of fp; CollectedAt is the clock of this moment. *)
Collect(h, fp) ==
    /\ run[h].pc = "idle"
    /\ Become(h, [At("insert", fp) EXCEPT !.at = clock])
    /\ UNCHANGED <<clock, snaps, nextId, other, free>>

(* Save: the INSERT.  The new id comes from the AUTOINCREMENT sequence.     *)
Insert(h) ==
    /\ run[h].pc = "insert"
    /\ nextId <= MaxId
    /\ snaps' = snaps \cup {[id |-> nextId, fp |-> run[h].fp, at |-> run[h].at]}
    /\ nextId' = nextId + 1
    /\ Take(RowPages)
    /\ Become(h, At("dropOld", run[h].fp))
    /\ UNCHANGED <<clock, other>>

(* prune, statement 1; prune reads time.Now() once, for both statements.    *)
DropOld(h) ==
    /\ run[h].pc = "dropOld"
    /\ Delete(Expired(run[h].fp, clock))
    /\ Become(h, [At("thin", run[h].fp) EXCEPT !.now = clock])
    /\ UNCHANGED <<clock, nextId, other>>

(* prune, statement 2.                                                      *)
Thin(h) ==
    /\ run[h].pc = "thin"
    /\ LET fp == run[h].fp
           now == run[h].now
       IN  Delete(Rollup(fp, now) \ HourKeepers(fp, now))
    /\ Become(h, At("measure", NoFp))
    /\ UNCHANGED <<clock, nextId, other>>

(* enforceSizeCap: nothing to do unless the file is over the cap.           *)
Measure(h) ==
    /\ run[h].pc = "measure"
    /\ Become(h, IF FileSize <= Cap THEN Idle ELSE At("vacuum", NoFp))
    /\ UNCHANGED <<clock, snaps, nextId, other, free>>

(* The first VACUUM; SQLITE_BUSY and SQLITE_FULL end the pass quietly.      *)
Vacuum(h) ==
    /\ run[h].pc = "vacuum"
    /\ \/ free' = 0 /\ Become(h, At("remeasure", NoFp))
       \/ free' = free /\ Finish(h)
    /\ UNCHANGED <<clock, snaps, nextId, other>>

Remeasure(h) ==
    /\ run[h].pc = "remeasure"
    /\ IF FileSize <= Cap
         THEN Finish(h)
         ELSE Become(h, [At("count", NoFp) EXCEPT !.size = FileSize])
    /\ UNCHANGED <<clock, snaps, nextId, other, free>>

(* SELECT count-star: the lone row is never evicted.                        *)
Count(h) ==
    /\ run[h].pc = "count"
    /\ IF Cardinality(snaps) <= 1
         THEN Finish(h)
         ELSE Become(h, [pc |-> "evict", fp |-> NoFp, at |-> 0, now |-> 0,
                         rows |-> Cardinality(snaps), size |-> run[h].size])
    /\ UNCHANGED <<clock, snaps, nextId, other, free>>

(* The eviction, over the rows of every fingerprint, by the count read      *)
(* before it.                                                               *)
Evict(h) ==
    /\ run[h].pc = "evict"
    /\ \E E \in Oldest(snaps, EvictCount(run[h].rows, run[h].size)) : Delete(E)
    /\ Become(h, At("vacuumAfter", NoFp))
    /\ UNCHANGED <<clock, nextId, other>>

(* The best-effort VACUUM after an eviction or after `baselines prune`.     *)
VacuumAfter(h) ==
    /\ run[h].pc \in {"vacuumAfter", "reclaim"}
    /\ free' \in {0, free}
    /\ Finish(h)
    /\ UNCHANGED <<clock, snaps, nextId, other>>

(* `pgbot baselines prune <fp>`: Prune deletes every snapshot of fp.        *)
Prune(h, fp) ==
    /\ run[h].pc = "idle"
    /\ Delete({s \in snaps : s.fp = fp})
    /\ Become(h, At("reclaim", fp))
    /\ UNCHANGED <<clock, nextId, other>>

(* A statement of Save fails (busy for 5s, disk full) or the process dies:  *)
(* what is committed stays, what follows is skipped.                        *)
Abort(h) ==
    /\ run[h].pc # "idle"
    /\ Finish(h)
    /\ UNCHANGED <<clock, snaps, nextId, other, free>>

Save(h) ==
    \/ Insert(h) \/ DropOld(h) \/ Thin(h)
    \/ Measure(h) \/ Vacuum(h) \/ Remeasure(h) \/ Count(h) \/ Evict(h)
    \/ VacuumAfter(h)

Next ==
    \/ Tick
    \/ Append
    \/ \E h \in Handles :
        \/ \E fp \in Fps : Collect(h, fp) \/ Prune(h, fp)
        \/ Save(h)
        \/ Abort(h)

Spec == Init /\ [][Next]_vars

-----------------------------------------------------------------------------
(* The types of the store and of the handles' progress.                     *)
TypeOK ==
    /\ clock \in Nat
    /\ snaps \in SUBSET Snapshot /\ IsFiniteSet(snaps)
    /\ nextId \in Nat \ {0}
    /\ other \in Nat
    /\ free \in Nat
    /\ run \in [Handles -> [pc : PCs, fp : Fps \cup {NoFp}, at : Nat, now : Nat,
                            rows : Nat, size : Nat]]

(* The step of the handle that is the size cap's eviction.                  *)
Evicts(h) == run[h].pc = "evict" /\ run'[h].pc = "vacuumAfter"

(* The step of the handle that is a user's prune of fp.                     *)
Prunes(h, fp) == run[h].pc = "idle" /\ run'[h].pc = "reclaim" /\ run'[h].fp = fp

(* An id names one row: two snapshots never share one, and the sequence is  *)
(* ahead of every id still stored (schema_objects refers to rows by id even *)
(* after retention removed them).                                           *)
IdsIdentify ==
    /\ \A s, t \in snaps : s.id = t.id => s = t
    /\ \A s \in snaps : s.id < nextId

(* The retention policy, whatever other handles do between the statements   *)
(* of prune: unless the size cap or the user took it, a row that disappears *)
(* is past the 90-day horizon, or it is past the 7-day window and a newer   *)
(* snapshot of the SAME target stands for its hour.                         *)
RetentionPolicy ==
    [][\A s \in snaps \ snaps' :
          \/ \E h \in Handles : Evicts(h) \/ Prunes(h, s.fp)
          \/ clock - s.at > KeepRollup
          \/ /\ clock - s.at > KeepAll
             /\ \E t \in snaps' : t.fp = s.fp /\ Bucket(t) = Bucket(s) /\ t.id > s.id]_vars

(* Some row of the latest collected_at is still there after the step.       *)
NewestSurvives ==
    \E s \in snaps : s \in snaps' /\ \A t \in snaps : t.at <= s.at

(* What the code does ensure: if no row went away between this handle's     *)
(* count and its DELETE, the newest row survives the DELETE.                *)
SoleEvictionKeepsNewest ==
    [][\A h \in Handles :
          Evicts(h) /\ Cardinality(snaps) >= run[h].rows => NewestSurvives]_vars

(* One sized pass is enough: when snapshots are all that is in the file and *)
(* nobody changed it since it was measured, the pages left after the DELETE *)
(* are within the 90% target, or a single row is left.                      *)
OneSizedPassSuffices ==
    [][\A h \in Handles :
          /\ Evicts(h)
          /\ other = 0 /\ free = 0
          /\ Cardinality(snaps) = run[h].rows /\ FileSize = run[h].size
          => \/ RowPages * Cardinality(snaps') <= Target
             \/ Cardinality(snaps') = 1]_vars
=============================================================================
