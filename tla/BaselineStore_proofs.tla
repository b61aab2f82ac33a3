------------------------ MODULE BaselineStore_proofs ------------------------
(***************************************************************************)
(* What holds of the baseline store for any number of handles, targets,    *)
(* rows and any retention constants: its types, that ids identify rows,    *)
(* the retention policy, and when an eviction spares the newest row.       *)
(***************************************************************************)
EXTENDS BaselineStore, FiniteSetTheorems, WellFoundedInduction, TLAPS

(* The inductive invariant: what a handle's fields are worth while it uses  *)
(* them.  Without it a row could be inserted for no target, thinned by a    *)
(* clock reading of the future, or the last row evicted.                    *)
Progress ==
    /\ \A s \in snaps : s.at <= clock
    /\ \A h \in Handles :
        /\ run[h].pc \in {"insert", "dropOld", "thin"} => run[h].fp \in Fps
        /\ run[h].pc = "insert" => run[h].at <= clock
        /\ run[h].pc = "thin" => run[h].now <= clock
        /\ run[h].pc \in {"count", "evict"} => run[h].size > 0
        /\ run[h].pc = "evict" => run[h].rows > 1

IInv == TypeOK /\ IdsIdentify /\ Progress

RunType == [pc : PCs, fp : Fps \cup {NoFp}, at : Nat, now : Nat, rows : Nat, size : Nat]
-----------------------------------------------------------------------------
(* Snapshots fill a whole number of pages.                                  *)
LEMMA PagesOfRows ==
    ASSUME NEW S, IsFiniteSet(S)
    PROVE  RowPages * Cardinality(S) \in Nat
<1>1. Cardinality(S) \in Nat
  BY FS_CardinalityType
<1>2. \A a, b \in Nat : a * b \in Nat
  OBVIOUS
<1> QED BY <1>1, <1>2, StoreAssumption

(* So fileSize is a natural number.                                         *)
LEMMA FileSizeType ==
    ASSUME TypeOK
    PROVE  FileSize \in Nat
BY PagesOfRows DEF TypeOK, FileSize, Live

(* A delete keeps the table finite and the free list a number.              *)
LEMMA DeleteType ==
    ASSUME TypeOK, NEW D \in SUBSET snaps, Delete(D)
    PROVE  /\ snaps' \in SUBSET Snapshot /\ IsFiniteSet(snaps')
           /\ snaps' \subseteq snaps
           /\ free' \in Nat
<1>1. IsFiniteSet(D) /\ IsFiniteSet(snaps \ D)
  BY FS_Subset DEF TypeOK
<1>2. RowPages * Cardinality(D) \in Nat
  BY <1>1, PagesOfRows
<1> QED BY <1>1, <1>2 DEF Delete, TypeOK

(* Taking pages off the free list never makes it negative.                  *)
LEMMA TakeType ==
    ASSUME TypeOK, NEW n \in Nat, Take(n)
    PROVE  free' \in Nat
BY DEF TypeOK, Take

(* The record a handle starts a statement with.                             *)
LEMMA AtType ==
    ASSUME NEW pc \in PCs, NEW fp \in Fps \cup {NoFp}
    PROVE  At(pc, fp) \in RunType
BY DEF At, RunType

(* Only the handle that moves changes its record.                           *)
LEMMA BecomeEffect ==
    ASSUME TypeOK, NEW h \in Handles, NEW r \in RunType, Become(h, r)
    PROVE  /\ run' \in [Handles -> RunType]
           /\ run'[h] = r
           /\ \A g \in Handles : g # h => run'[g] = run[g]
BY DEF TypeOK, Become, RunType

(* The eviction takes rows of the table.                                    *)
LEMMA OldestType ==
    ASSUME NEW S, NEW k, NEW E \in Oldest(S, k)
    PROVE  E \in SUBSET S
BY DEF Oldest
-----------------------------------------------------------------------------
(* Types, step by step: an inserted row has a target and a time.            *)
LEMMA TypeStep ==
    ASSUME IInv, Next
    PROVE  TypeOK'
<1> USE StoreAssumption
<1> USE DEF IInv
<1>0. /\ run \in [Handles -> RunType]
      /\ \A pc \in PCs, h \in Handles : At(pc, run[h].fp) \in RunType
      /\ \A pc \in PCs : At(pc, NoFp) \in RunType
      /\ Idle \in RunType
  <2>1. run \in [Handles -> RunType]
    BY DEF TypeOK, RunType
  <2>2. \A h \in Handles : run[h].fp \in Fps \cup {NoFp}
    BY DEF TypeOK
  <2> QED BY <2>1, <2>2, AtType DEF Idle, PCs
<1>1. CASE Tick
  BY <1>1 DEF Tick, TypeOK
<1>2. CASE Append
  BY <1>2, TakeType DEF Append, TypeOK
<1>3. ASSUME NEW h \in Handles, NEW fp \in Fps, Collect(h, fp)
      PROVE  TypeOK'
  <2>1. [At("insert", fp) EXCEPT !.at = clock] \in RunType
    BY DEF At, RunType, PCs, TypeOK
  <2> QED BY <1>3, <2>1, BecomeEffect DEF Collect, TypeOK, RunType
<1>4. ASSUME NEW h \in Handles, Insert(h)
      PROVE  TypeOK'
  <2>1. [id |-> nextId, fp |-> run[h].fp, at |-> run[h].at] \in Snapshot
    BY <1>4 DEF Insert, TypeOK, Progress, Snapshot
  <2>2. snaps' \in SUBSET Snapshot /\ IsFiniteSet(snaps')
    BY <1>4, <2>1, FS_AddElement DEF Insert, TypeOK
  <2>3. run' \in [Handles -> RunType] /\ free' \in Nat
    BY <1>0, <1>4, BecomeEffect, TakeType DEF Insert, PCs
  <2> QED BY <1>4, <2>2, <2>3 DEF Insert, TypeOK, RunType
<1>5. ASSUME NEW h \in Handles, DropOld(h)
      PROVE  TypeOK'
  <2>1. [At("thin", run[h].fp) EXCEPT !.now = clock] \in RunType
    BY DEF At, RunType, PCs, TypeOK
  <2>2. Expired(run[h].fp, clock) \in SUBSET snaps
    BY DEF Expired
  <2> QED BY <1>5, <2>1, <2>2, BecomeEffect, DeleteType DEF DropOld, TypeOK, RunType
<1>6. ASSUME NEW h \in Handles, Thin(h)
      PROVE  TypeOK'
  <2>1. Rollup(run[h].fp, run[h].now) \ HourKeepers(run[h].fp, run[h].now) \in SUBSET snaps
    BY DEF Rollup
  <2>2. At("measure", NoFp) \in RunType
    BY <1>0 DEF PCs
  <2> QED BY <1>6, <2>1, <2>2, BecomeEffect, DeleteType DEF Thin, TypeOK, RunType
<1>7. ASSUME NEW h \in Handles, Measure(h)
      PROVE  TypeOK'
  <2>1. (IF FileSize <= Cap THEN Idle ELSE At("vacuum", NoFp)) \in RunType
    BY <1>0 DEF PCs
  <2> QED BY <1>7, <2>1, BecomeEffect DEF Measure, TypeOK, RunType
<1>8. ASSUME NEW h \in Handles, Vacuum(h)
      PROVE  TypeOK'
  <2>1. At("remeasure", NoFp) \in RunType
    BY <1>0 DEF PCs
  <2> QED BY <1>0, <1>8, <2>1, BecomeEffect DEF Vacuum, Finish, TypeOK, RunType
<1>9. ASSUME NEW h \in Handles, Remeasure(h)
      PROVE  TypeOK'
  <2>1. [At("count", NoFp) EXCEPT !.size = FileSize] \in RunType
    BY FileSizeType DEF At, RunType, PCs
  <2> QED BY <1>0, <1>9, <2>1, BecomeEffect DEF Remeasure, Finish, TypeOK, RunType
<1>10. ASSUME NEW h \in Handles, Count(h)
       PROVE  TypeOK'
  <2>1. Cardinality(snaps) \in Nat
    BY FS_CardinalityType DEF TypeOK
  <2>2. [pc |-> "evict", fp |-> NoFp, at |-> 0, now |-> 0,
         rows |-> Cardinality(snaps), size |-> run[h].size] \in RunType
    BY <1>0, <2>1 DEF RunType, PCs
  <2> QED BY <1>0, <1>10, <2>2, BecomeEffect DEF Count, Finish, TypeOK, RunType
<1>11. ASSUME NEW h \in Handles, Evict(h)
       PROVE  TypeOK'
  <2>1. PICK E \in Oldest(snaps, EvictCount(run[h].rows, run[h].size)) : Delete(E)
    BY <1>11 DEF Evict
  <2>2. At("vacuumAfter", NoFp) \in RunType
    BY <1>0 DEF PCs
  <2> QED BY <1>11, <2>1, <2>2, OldestType, BecomeEffect, DeleteType DEF Evict, TypeOK, RunType
<1>12. ASSUME NEW h \in Handles, VacuumAfter(h)
       PROVE  TypeOK'
  BY <1>0, <1>12, BecomeEffect DEF VacuumAfter, Finish, TypeOK, RunType
<1>13. ASSUME NEW h \in Handles, NEW fp \in Fps, Prune(h, fp)
       PROVE  TypeOK'
  <2>1. At("reclaim", fp) \in RunType
    BY AtType DEF PCs
  <2>2. {s \in snaps : s.fp = fp} \in SUBSET snaps
    OBVIOUS
  <2> QED BY <1>13, <2>1, <2>2, BecomeEffect, DeleteType DEF Prune, TypeOK, RunType
<1>14. ASSUME NEW h \in Handles, Abort(h)
       PROVE  TypeOK'
  BY <1>0, <1>14, BecomeEffect DEF Abort, Finish, TypeOK, RunType
<1> QED
  BY <1>1, <1>2, <1>3, <1>4, <1>5, <1>6, <1>7, <1>8, <1>9, <1>10, <1>11, <1>12, <1>13, <1>14
  DEF Next, Save
-----------------------------------------------------------------------------
(* Ids, step by step: rows only go, except for the one under the next id.   *)
LEMMA IdsStep ==
    ASSUME IInv, Next
    PROVE  IdsIdentify'
<1> USE DEF IInv
<1>1. CASE \E h \in Handles : Insert(h)
  <2>1. PICK h \in Handles : Insert(h)
    BY <1>1
  <2>2. \A s \in snaps : s.id \in Nat /\ s.id < nextId
    BY DEF IdsIdentify, TypeOK, Snapshot
  <2>3. \A s \in snaps' : s \in snaps \/ (s.id = nextId /\ s = [id |-> nextId, fp |-> run[h].fp, at |-> run[h].at])
    BY <2>1 DEF Insert
  <2>4. nextId' = nextId + 1 /\ nextId \in Nat
    BY <2>1 DEF Insert, TypeOK
  <2> QED BY <2>2, <2>3, <2>4 DEF IdsIdentify
<1>2. CASE snaps' \subseteq snaps /\ nextId' = nextId
  BY <1>2 DEF IdsIdentify
<1>3. ASSUME ~ \E h \in Handles : Insert(h)
      PROVE  snaps' \subseteq snaps /\ nextId' = nextId
  BY <1>3 DEF Next, Save, Tick, Append, Collect, DropOld, Thin, Measure, Vacuum, Remeasure,
     Count, Evict, VacuumAfter, Prune, Abort, Delete
<1> QED BY <1>1, <1>2, <1>3

(* What one handle's step leaves of the others' progress.                   *)
LEMMA OthersProgress ==
    ASSUME IInv, NEW h \in Handles, NEW r \in RunType, Become(h, r), clock' = clock,
           \A s \in snaps' : s.at <= clock,
           r.pc \in {"insert", "dropOld", "thin"} => r.fp \in Fps,
           r.pc = "insert" => r.at <= clock,
           r.pc = "thin" => r.now <= clock,
           r.pc \in {"count", "evict"} => r.size > 0,
           r.pc = "evict" => r.rows > 1
    PROVE  Progress'
<1>1. /\ run'[h] = r
      /\ \A g \in Handles : g # h => run'[g] = run[g]
  BY BecomeEffect DEF IInv
<1> QED BY <1>1 DEF Progress, IInv

(* A handle that starts a statement with nothing remembered.                *)
LEMMA RestartProgress ==
    ASSUME IInv, NEW h \in Handles, NEW pc \in PCs, NEW fp \in Fps \cup {NoFp},
           Become(h, At(pc, fp)), clock' = clock, snaps' \subseteq snaps,
           pc \notin {"insert", "thin", "count", "evict"},
           pc = "dropOld" => fp \in Fps
    PROVE  Progress'
<1>1. At(pc, fp) \in RunType /\ At(pc, fp).pc = pc /\ At(pc, fp).fp = fp
  BY AtType DEF At
<1>2. \A s \in snaps' : s.at <= clock
  BY DEF IInv, Progress
<1> QED BY <1>1, <1>2, OthersProgress

(* Progress, step by step: the clock is read before the statement that uses *)
(* the reading, and an eviction follows a size over the cap and two rows.   *)
LEMMA ProgressStep ==
    ASSUME IInv, Next
    PROVE  Progress'
<1> USE StoreAssumption DEF IInv
<1>0. \A h \in Handles : run[h].fp \in Fps \cup {NoFp}
  BY DEF TypeOK
<1>1. CASE Tick
  <2>1. \A s \in snaps : s.at \in Nat
    BY DEF TypeOK, Snapshot
  <2>2. \A h \in Handles : run[h].at \in Nat /\ run[h].now \in Nat
    BY DEF TypeOK
  <2>3. clock' = clock + 1 /\ clock \in Nat /\ snaps' = snaps /\ run' = run
    BY <1>1 DEF Tick, TypeOK
  <2> QED BY <2>1, <2>2, <2>3 DEF Progress
<1>2. CASE Append
  BY <1>2 DEF Append, Progress
<1>3. ASSUME NEW h \in Handles, NEW fp \in Fps, Collect(h, fp)
      PROVE  Progress'
  <2> DEFINE r == [At("insert", fp) EXCEPT !.at = clock]
  <2>1. r \in RunType /\ r.pc = "insert" /\ r.fp = fp /\ r.at = clock
    BY DEF At, RunType, PCs, TypeOK
  <2>2. clock <= clock
    BY DEF TypeOK
  <2>3. Become(h, r) /\ clock' = clock /\ \A s \in snaps' : s.at <= clock
    BY <1>3 DEF Collect, Progress
  <2> QED BY <2>1, <2>2, <2>3, OthersProgress
<1>4. ASSUME NEW h \in Handles, Insert(h)
      PROVE  Progress'
  <2> DEFINE r == At("dropOld", run[h].fp)
  <2>1. run[h].fp \in Fps /\ run[h].at <= clock
    BY <1>4 DEF Insert, Progress
  <2>2. r \in RunType /\ r.pc = "dropOld" /\ r.fp = run[h].fp
    BY <1>0, AtType DEF At, PCs
  <2>3. \A s \in snaps' : s.at <= clock
    BY <1>4, <2>1 DEF Insert, Progress
  <2>4. Become(h, r) /\ clock' = clock
    BY <1>4 DEF Insert
  <2> QED BY <2>1, <2>2, <2>3, <2>4, OthersProgress
<1>5. ASSUME NEW h \in Handles, DropOld(h)
      PROVE  Progress'
  <2> DEFINE r == [At("thin", run[h].fp) EXCEPT !.now = clock]
  <2>1. run[h].fp \in Fps
    BY <1>5 DEF DropOld, Progress
  <2>2. r \in RunType /\ r.pc = "thin" /\ r.fp = run[h].fp /\ r.now = clock
    BY <1>0 DEF At, RunType, PCs, TypeOK
  <2>3. clock <= clock
    BY DEF TypeOK
  <2>4. Become(h, r) /\ clock' = clock /\ \A s \in snaps' : s.at <= clock
    BY <1>5 DEF DropOld, Delete, Progress
  <2> QED BY <2>1, <2>2, <2>3, <2>4, OthersProgress
<1>6. ASSUME NEW h \in Handles, Thin(h)
      PROVE  Progress'
  <2>1. Become(h, At("measure", NoFp)) /\ clock' = clock /\ snaps' \subseteq snaps
    BY <1>6 DEF Thin, Delete
  <2> QED BY <2>1, RestartProgress DEF PCs
<1>7. ASSUME NEW h \in Handles, Measure(h)
      PROVE  Progress'
  <2>1. /\ Become(h, At("idle", NoFp)) \/ Become(h, At("vacuum", NoFp))
        /\ clock' = clock /\ snaps' \subseteq snaps
    BY <1>7 DEF Measure, Idle
  <2> QED BY <2>1, RestartProgress DEF PCs
<1>8. ASSUME NEW h \in Handles, Vacuum(h)
      PROVE  Progress'
  <2>1. /\ Become(h, At("idle", NoFp)) \/ Become(h, At("remeasure", NoFp))
        /\ clock' = clock /\ snaps' \subseteq snaps
    BY <1>8 DEF Vacuum, Finish, Idle
  <2> QED BY <2>1, RestartProgress DEF PCs
<1>9. ASSUME NEW h \in Handles, Remeasure(h)
      PROVE  Progress'
  <2>1. CASE FileSize <= Cap
    <3>1. Become(h, At("idle", NoFp)) /\ clock' = clock /\ snaps' \subseteq snaps
      BY <1>9, <2>1 DEF Remeasure, Finish, Idle
    <3> QED BY <3>1, RestartProgress DEF PCs
  <2>2. CASE ~ (FileSize <= Cap)
    <3> DEFINE r == [At("count", NoFp) EXCEPT !.size = FileSize]
    <3>1. r \in RunType /\ r.pc = "count" /\ r.size = FileSize
      BY FileSizeType DEF At, RunType, PCs
    <3>2. FileSize > 0
      BY <2>2, FileSizeType
    <3>3. Become(h, r) /\ clock' = clock /\ \A s \in snaps' : s.at <= clock
      BY <1>9, <2>2 DEF Remeasure, Progress
    <3> HIDE DEF r
    <3> QED BY <3>1, <3>2, <3>3, OthersProgress
  <2> QED BY <2>1, <2>2
<1>10. ASSUME NEW h \in Handles, Count(h)
       PROVE  Progress'
  <2>1. CASE Cardinality(snaps) <= 1
    <3>1. Become(h, At("idle", NoFp)) /\ clock' = clock /\ snaps' \subseteq snaps
      BY <1>10, <2>1 DEF Count, Finish, Idle
    <3> QED BY <3>1, RestartProgress DEF PCs
  <2>2. CASE ~ (Cardinality(snaps) <= 1)
    <3> DEFINE r == [pc |-> "evict", fp |-> NoFp, at |-> 0, now |-> 0,
                     rows |-> Cardinality(snaps), size |-> run[h].size]
    <3>1. Cardinality(snaps) \in Nat
      BY FS_CardinalityType DEF TypeOK
    <3>2. r \in RunType /\ r.pc = "evict" /\ r.size = run[h].size /\ r.rows > 1
      BY <2>2, <3>1 DEF RunType, PCs, TypeOK
    <3>3. run[h].size > 0
      BY <1>10 DEF Count, Progress
    <3>4. Become(h, r) /\ clock' = clock /\ \A s \in snaps' : s.at <= clock
      BY <1>10, <2>2 DEF Count, Progress
    <3> HIDE DEF r
    <3> QED BY <3>2, <3>3, <3>4, OthersProgress
  <2> QED BY <2>1, <2>2
<1>11. ASSUME NEW h \in Handles, Evict(h)
       PROVE  Progress'
  <2>1. Become(h, At("vacuumAfter", NoFp)) /\ clock' = clock /\ snaps' \subseteq snaps
    BY <1>11 DEF Evict, Delete
  <2> QED BY <2>1, RestartProgress DEF PCs
<1>12. ASSUME NEW h \in Handles, VacuumAfter(h)
       PROVE  Progress'
  <2>1. Become(h, At("idle", NoFp)) /\ clock' = clock /\ snaps' \subseteq snaps
    BY <1>12 DEF VacuumAfter, Finish, Idle
  <2> QED BY <2>1, RestartProgress DEF PCs
<1>13. ASSUME NEW h \in Handles, NEW fp \in Fps, Prune(h, fp)
       PROVE  Progress'
  <2>1. Become(h, At("reclaim", fp)) /\ clock' = clock /\ snaps' \subseteq snaps
    BY <1>13 DEF Prune, Delete
  <2> QED BY <2>1, RestartProgress DEF PCs
<1>14. ASSUME NEW h \in Handles, Abort(h)
       PROVE  Progress'
  <2>1. Become(h, At("idle", NoFp)) /\ clock' = clock /\ snaps' \subseteq snaps
    BY <1>14 DEF Abort, Finish, Idle
  <2> QED BY <2>1, RestartProgress DEF PCs
<1> QED
  BY <1>1, <1>2, <1>3, <1>4, <1>5, <1>6, <1>7, <1>8, <1>9, <1>10, <1>11, <1>12, <1>13, <1>14
  DEF Next, Save
-----------------------------------------------------------------------------
(* The strengthened invariant holds of every behaviour.                     *)
THEOREM Inductive == Spec => []IInv
<1>1. Init => IInv
  BY StoreAssumption, FS_EmptySet
  DEF Init, IInv, TypeOK, IdsIdentify, Progress, Idle, At, PCs
<1>2. IInv /\ [Next]_vars => IInv'
  <2>1. ASSUME IInv, Next PROVE IInv'
    BY <2>1, TypeStep, IdsStep, ProgressStep DEF IInv
  <2>2. ASSUME IInv, UNCHANGED vars PROVE IInv'
    BY <2>2 DEF IInv, TypeOK, IdsIdentify, Progress, vars
  <2> QED BY <2>1, <2>2
<1> QED BY <1>1, <1>2, PTL DEF Spec

(* The store's state keeps its types, whatever statements interleave.       *)
THEOREM TypeCorrect == Spec => []TypeOK
<1>1. IInv => TypeOK
  BY DEF IInv
<1> QED BY <1>1, Inductive, PTL

(* Snapshot ids are never reused and never shared: schema_objects and       *)
(* `baselines export` may hold on to one after retention removed its row.   *)
THEOREM IdsIdentified == Spec => []IdsIdentify
<1>1. IInv => IdsIdentify
  BY DEF IInv
<1> QED BY <1>1, Inductive, PTL
-----------------------------------------------------------------------------
Below == {p \in Nat \X Nat : p[1] < p[2]}

(* The naturals are well ordered.                                           *)
LEMMA LeastNatural ==
    ASSUME NEW T \in SUBSET Nat, T # {}
    PROVE  \E m \in T : \A n \in T : m <= n
<1>1. IsWellFoundedOn(Below, Nat)
  BY NatLessThanWellFounded, Zenon DEF OpToRel, Below
<1>2. PICK m \in T : \A n \in T : ~ (<<n, m>> \in Below)
  BY <1>1, WFMin, Zenon
<1>3. \A n \in T : ~ (n < m)
  BY <1>2 DEF Below
<1>4. \A n \in T : m <= n
  BY <1>3, SMT
<1> QED BY <1>4

(* Of a nonempty set with a bounded measure one element measures the most.  *)
LEMMA Greatest ==
    ASSUME NEW S, S # {}, NEW f, NEW bound \in Nat,
           \A s \in S : f[s] \in Nat /\ f[s] <= bound
    PROVE  \E s \in S : \A t \in S : f[t] <= f[s]
<1> DEFINE T == {bound - f[s] : s \in S}
<1>1. T \in SUBSET Nat /\ T # {}
  OBVIOUS
<1>2. PICK m \in T : \A n \in T : m <= n
  <2> HIDE DEF T
  <2> QED BY <1>1, LeastNatural
<1>3. PICK s \in S : m = bound - f[s]
  OBVIOUS
<1>4. \A t \in S : bound - f[s] <= bound - f[t]
  BY <1>2, <1>3
<1> QED BY <1>4

(* Thinning leaves the row with the greatest id of every hour.              *)
LEMMA HourIsKept ==
    ASSUME IInv, NEW fp, NEW now, NEW s \in Rollup(fp, now) \ HourKeepers(fp, now)
    PROVE  \E t \in HourKeepers(fp, now) : Bucket(t) = Bucket(s) /\ t.id > s.id
<1> DEFINE S == {t \in Rollup(fp, now) : Bucket(t) = Bucket(s)}
           f == [t \in S |-> t.id]
<1>1. S \in SUBSET snaps /\ s \in S
  BY DEF Rollup
<1>2. nextId \in Nat /\ \A t \in S : t.id \in Nat /\ t.id <= nextId
  BY <1>1 DEF IInv, IdsIdentify, TypeOK, Snapshot
<1>3. PICK t \in S : \A u \in S : u.id <= t.id
  <2>1. \A u \in S : f[u] = u.id
    OBVIOUS
  <2>2. \A u \in S : f[u] \in Nat /\ f[u] <= nextId
    BY <1>2, <2>1
  <2>3. S # {}
    BY <1>1
  <2>4. PICK t \in S : \A u \in S : f[u] <= f[t]
    <3> HIDE DEF S, f
    <3> QED BY <1>2, <2>2, <2>3, Greatest
  <2> QED BY <2>1, <2>4
<1>4. t \in HourKeepers(fp, now)
  BY <1>3 DEF HourKeepers
<1>5. t # s /\ t.id # s.id
  BY <1>1, <1>4 DEF IInv, IdsIdentify
<1>6. s.id <= t.id
  BY <1>1, <1>3
<1> QED BY <1>1, <1>2, <1>4, <1>5, <1>6

(* The retention policy for one step.                                       *)
LEMMA RetentionStep ==
    ASSUME IInv, Next, NEW s \in snaps \ snaps'
    PROVE  \/ \E h \in Handles : Evicts(h) \/ Prunes(h, s.fp)
           \/ clock - s.at > KeepRollup
           \/ /\ clock - s.at > KeepAll
              /\ \E t \in snaps' : t.fp = s.fp /\ Bucket(t) = Bucket(s) /\ t.id > s.id
<1> USE StoreAssumption
<1>0. s.at \in Nat /\ clock \in Nat
  BY DEF IInv, TypeOK, Snapshot
<1>1. ASSUME NEW h \in Handles, DropOld(h)
      PROVE  clock - s.at > KeepRollup
  <2>1. s.at < clock - KeepRollup
    BY <1>1 DEF DropOld, Delete, Expired
  <2> QED BY <1>0, <2>1
<1>2. ASSUME NEW h \in Handles, Thin(h)
      PROVE  /\ clock - s.at > KeepAll
             /\ \E t \in snaps' : t.fp = s.fp /\ Bucket(t) = Bucket(s) /\ t.id > s.id
  <2> DEFINE fp == run[h].fp
             now == run[h].now
  <2>1. s \in Rollup(fp, now) \ HourKeepers(fp, now)
    BY <1>2 DEF Thin, Delete
  <2>2. now <= clock /\ now \in Nat
    BY <1>2 DEF Thin, IInv, Progress, TypeOK
  <2>3. s.at < now - KeepAll /\ s.fp = fp
    BY <2>1 DEF Rollup
  <2>4. PICK t \in HourKeepers(fp, now) : Bucket(t) = Bucket(s) /\ t.id > s.id
    BY <2>1, HourIsKept
  <2>5. t \in snaps /\ t.fp = fp /\ t \in snaps'
    BY <1>2, <2>4 DEF Thin, Delete, HourKeepers, Rollup
  <2> QED BY <1>0, <2>2, <2>3, <2>4, <2>5
<1>3. ASSUME NEW h \in Handles, Evict(h)
      PROVE  Evicts(h)
  <2>1. At("vacuumAfter", NoFp) \in RunType
    BY AtType DEF PCs
  <2>2. run'[h] = At("vacuumAfter", NoFp)
    BY <1>3, <2>1, BecomeEffect DEF IInv, Evict
  <2> QED BY <1>3, <2>2 DEF Evict, Evicts, At
<1>4. ASSUME NEW h \in Handles, NEW fp \in Fps, Prune(h, fp)
      PROVE  Prunes(h, s.fp)
  <2>1. At("reclaim", fp) \in RunType
    BY AtType DEF PCs
  <2>2. run'[h] = At("reclaim", fp)
    BY <1>4, <2>1, BecomeEffect DEF IInv, Prune
  <2>3. s.fp = fp
    BY <1>4 DEF Prune, Delete
  <2> QED BY <1>4, <2>2, <2>3 DEF Prune, Prunes, At
<1>5. \/ \E h \in Handles : DropOld(h) \/ Thin(h) \/ Evict(h)
      \/ \E h \in Handles, fp \in Fps : Prune(h, fp)
  BY DEF Next, Save, Tick, Append, Collect, Insert, Measure, Vacuum, Remeasure, Count,
     VacuumAfter, Abort
<1> QED BY <1>1, <1>2, <1>3, <1>4, <1>5

(* Retention deletes only what its policy names, for any keep-all and       *)
(* rollup windows and any interleaving of prunes on one file.               *)
THEOREM RetentionHolds == Spec => RetentionPolicy
<1>1. IInv /\ [Next]_vars =>
        [\A s \in snaps \ snaps' :
          \/ \E h \in Handles : Evicts(h) \/ Prunes(h, s.fp)
          \/ clock - s.at > KeepRollup
          \/ /\ clock - s.at > KeepAll
             /\ \E t \in snaps' : t.fp = s.fp /\ Bucket(t) = Bucket(s) /\ t.id > s.id]_vars
  BY RetentionStep
<1> QED BY <1>1, Inductive, PTL DEF Spec, RetentionPolicy
-----------------------------------------------------------------------------
(* One eviction takes at least a row and leaves at least one of those that  *)
(* were counted.                                                            *)
LEMMA EvictCountBound ==
    ASSUME NEW rows \in Nat, rows > 1, NEW size \in Nat, size > 0
    PROVE  EvictCount(rows, size) \in 1 .. rows - 1
<1> DEFINE share == (rows * (size - Target) + size - 1) \div size
<1>1. Target \in Int
  BY StoreAssumption DEF Target
<1>2. \A a, b \in Int : a * b \in Int
  OBVIOUS
<1>3. rows * (size - Target) \in Int
  BY <1>1, <1>2
<1>4. share \in Int
  <2> DEFINE need == rows * (size - Target)
  <2>1. need \in Int
    BY <1>3
  <2> HIDE DEF need
  <2>2. (need + size - 1) \div size \in Int
    BY <2>1
  <2> QED BY <2>2 DEF need
<1> HIDE DEF share
<1>5. EvictCount(rows, size) = IF share < 1 THEN 1 ELSE IF share > rows - 1 THEN rows - 1 ELSE share
  BY DEF EvictCount, share
<1> QED BY <1>4, <1>5

(* The oldest rows, short of all of them, leave a row of the latest time.   *)
LEMMA OldestSparesNewest ==
    ASSUME IInv, NEW k \in Nat, k < Cardinality(snaps), NEW E \in Oldest(snaps, k)
    PROVE  \E s \in snaps \ E : \A t \in snaps : t.at <= s.at
<1>1. /\ E \in SUBSET snaps /\ Cardinality(E) = k
      /\ \A e \in E, s \in snaps \ E : e.at <= s.at
  BY DEF Oldest
<1> DEFINE S == snaps \ E
           f == [s \in S |-> s.at]
<1>2. S # {}
  <2>1. Cardinality(snaps) \in Nat
    BY FS_CardinalityType DEF IInv, TypeOK
  <2>2. E # snaps
    BY <1>1, <2>1
  <2> QED BY <1>1, <2>2
<1>3. clock \in Nat /\ \A s \in snaps : s.at \in Nat /\ s.at <= clock
  BY DEF IInv, TypeOK, Snapshot, Progress
<1>4. PICK s \in S : \A t \in S : t.at <= s.at
  <2>1. \A t \in S : f[t] = t.at /\ f[t] \in Nat /\ f[t] <= clock
    BY <1>3
  <2>2. PICK s \in S : \A t \in S : f[t] <= f[s]
    <3> HIDE DEF S, f
    <3> QED BY <1>2, <1>3, <2>1, Greatest
  <2> QED BY <2>1, <2>2
<1> QED BY <1>1, <1>4

(* A handle's step out of "evict" into "vacuumAfter" is its eviction.       *)
LEMMA EvictsIsEvict ==
    ASSUME IInv, Next, NEW h \in Handles, Evicts(h)
    PROVE  Evict(h)
<1> USE DEF IInv
<1>0. /\ run[h].pc = "evict" /\ run'[h].pc = "vacuumAfter"
      /\ \A g \in Handles, r \in RunType : Become(g, r) => g = h /\ r.pc = "vacuumAfter"
  <2>1. run[h].pc = "evict" /\ run'[h].pc = "vacuumAfter"
    BY DEF Evicts
  <2> QED BY <2>1, BecomeEffect
<1>1. \A pc \in PCs, fp \in Fps \cup {NoFp} : At(pc, fp) \in RunType /\ At(pc, fp).pc = pc
  BY AtType DEF At
<1>2. ~ Tick /\ ~ Append
  BY <1>0 DEF Tick, Append
<1>3. ASSUME NEW g \in Handles, NEW fp \in Fps
      PROVE  ~ Collect(g, fp) /\ ~ Prune(g, fp)
  <2>1. Collect(g, fp) \/ Prune(g, fp) => run[g].pc = "idle"
    BY DEF Collect, Prune
  <2>2. Collect(g, fp) => run' = [run EXCEPT ![g] = [At("insert", fp) EXCEPT !.at = clock]]
    BY DEF Collect, Become
  <2>3. Prune(g, fp) => run' = [run EXCEPT ![g] = At("reclaim", fp)]
    BY DEF Prune, Become
  <2> QED BY <1>0, <2>1, <2>2, <2>3 DEF TypeOK
<1>4. ASSUME NEW g \in Handles, g # h, Save(g) \/ Abort(g)
      PROVE  FALSE
  <2>1. PICK r : run' = [run EXCEPT ![g] = r]
    BY <1>4 DEF Save, Insert, DropOld, Thin, Measure, Vacuum, Remeasure, Count, Evict,
       VacuumAfter, Abort, Finish, Become
  <2> QED BY <1>0, <1>4, <2>1 DEF TypeOK
<1>5. ~ Abort(h)
  <2>1. Abort(h) => run' = [run EXCEPT ![h] = Idle]
    BY DEF Abort, Finish, Become
  <2> QED BY <1>0, <2>1 DEF Idle, At, TypeOK
<1>6. Save(h) => Evict(h)
  BY <1>0 DEF Save, Insert, DropOld, Thin, Measure, Vacuum, Remeasure, Count, VacuumAfter
<1> QED BY <1>2, <1>3, <1>4, <1>5, <1>6 DEF Next

(* If no row went away since the handle counted them, its eviction leaves   *)
(* the newest one.                                                          *)
THEOREM SoleEvictionSpares == Spec => SoleEvictionKeepsNewest
<1>1. ASSUME IInv, Next, NEW h \in Handles, Evicts(h), Cardinality(snaps) >= run[h].rows
      PROVE  NewestSurvives
  <2> DEFINE k == EvictCount(run[h].rows, run[h].size)
  <2>1. Evict(h)
    BY <1>1, EvictsIsEvict
  <2>2. k \in 1 .. run[h].rows - 1
    BY <1>1, <2>1, EvictCountBound DEF Evict, IInv, Progress, TypeOK
  <2>3. k \in Nat /\ k < Cardinality(snaps)
    <3>1. Cardinality(snaps) \in Nat /\ run[h].rows \in Nat
      BY <1>1, FS_CardinalityType DEF IInv, TypeOK
    <3> HIDE DEF k
    <3> QED BY <1>1, <2>2, <3>1
  <2>4. PICK E \in Oldest(snaps, k) : snaps' = snaps \ E
    BY <2>1 DEF Evict, Delete
  <2> HIDE DEF k
  <2>5. PICK s \in snaps \ E : \A t \in snaps : t.at <= s.at
    BY <1>1, <2>3, <2>4, OldestSparesNewest
  <2> QED BY <2>4, <2>5 DEF NewestSurvives
<1>2. IInv /\ [Next]_vars =>
        [\A h \in Handles :
          Evicts(h) /\ Cardinality(snaps) >= run[h].rows => NewestSurvives]_vars
  BY <1>1
<1> QED BY <1>2, Inductive, PTL DEF Spec, SoleEvictionKeepsNewest
-----------------------------------------------------------------------------
(* Rounding up by (a + b - 1) / b, the form the eviction count has.         *)
LEMMA CeilDiv ==
    ASSUME NEW a \in Int, NEW b \in Nat, b > 0, NEW q \in Int, q = (a + b - 1) \div b
    PROVE  q * b >= a
<1>1. a + b - 1 = b * q + ((a + b - 1) % b) /\ (a + b - 1) % b \in 0 .. b - 1
  BY SMTT(30)
<1> QED BY <1>1, SMTT(30)

(* A share of the rows at least as large as the excess's share of the file, *)
(* times the pages of a row, is at least the excess.                        *)
LEMMA ShareCovers ==
    ASSUME NEW rows \in Nat, rows > 0, NEW pages \in Nat, NEW target \in Int, NEW q \in Int,
           q * (pages * rows) >= rows * (pages * rows - target)
    PROVE  pages * q >= pages * rows - target
<1>1. \A x, y \in Int : x * rows >= rows * y => x >= y
  BY SMTT(30)
<1>2. (pages * q) * rows = q * (pages * rows)
  BY SMTT(30)
<1>3. pages * q \in Int /\ pages * rows - target \in Int
  BY SMTT(30)
<1> QED BY <1>1, <1>2, <1>3

(* Evicting EvictCount of a file made of snapshots only brings it within    *)
(* the target, or down to one row.                                          *)
LEMMA EvictCountSuffices ==
    ASSUME NEW rows \in Nat, rows > 1, RowPages * rows > 0,
           NEW k, k = EvictCount(rows, RowPages * rows)
    PROVE  k \in Nat /\ (RowPages * (rows - k) <= Target \/ rows - k = 1)
<1> DEFINE size == RowPages * rows
           excess == rows * (size - Target)
           share == (excess + size - 1) \div size
<1>1. Target \in Int /\ RowPages \in Nat
  BY StoreAssumption DEF Target
<1>2. \A a, b \in Int : a * b \in Int
  OBVIOUS
<1>3. size \in Nat /\ size > 0 /\ excess \in Int
  BY <1>1, <1>2
<1>4. share \in Int
  <2> HIDE DEF size, excess
  <2> QED BY <1>3
<1>5. k = IF share < 1 THEN 1 ELSE IF share > rows - 1 THEN rows - 1 ELSE share
  BY DEF EvictCount
<1>6. share * size >= excess
  <2> HIDE DEF size, excess
  <2> QED BY <1>3, <1>4, CeilDiv
<1>7. RowPages * share >= size - Target
  <2>1. share * (RowPages * rows) >= rows * (RowPages * rows - Target)
    BY <1>6
  <2> HIDE DEF share
  <2> QED BY <1>1, <1>4, <2>1, ShareCovers
<1> HIDE DEF share
<1>8. k \in Nat /\ (k >= share \/ k = rows - 1)
  BY <1>4, <1>5
<1>9. CASE k >= share
  <2>1. RowPages * k >= RowPages * share
    BY <1>1, <1>4, <1>8, <1>9, SMTT(30)
  <2>2. RowPages * (rows - k) = RowPages * rows - RowPages * k
    BY <1>1, <1>8, SMTT(30)
  <2>3. RowPages * k \in Int /\ RowPages * share \in Int /\ RowPages * rows \in Int
    BY <1>1, <1>2, <1>4, <1>8
  <2>4. RowPages * rows - RowPages * k <= Target
    <3> DEFINE x == RowPages * k
               y == RowPages * share
               z == RowPages * rows
    <3>1. x >= y /\ y >= z - Target /\ x \in Int /\ y \in Int /\ z \in Int
      BY <1>7, <2>1, <2>3
    <3> HIDE DEF x, y, z
    <3>2. z - x <= Target
      BY <1>1, <3>1
    <3> QED BY <3>2 DEF x, z
  <2> QED BY <1>8, <2>2, <2>4
<1>10. CASE k = rows - 1
  BY <1>8, <1>10
<1> QED BY <1>8, <1>9, <1>10

(* One sized pass suffices, for any row size, cap and number of rows: the   *)
(* cap never needs a second round of evictions while the store is undisturbed. *)
THEOREM OneSizedPass == Spec => OneSizedPassSuffices
<1>1. ASSUME IInv, Next, NEW h \in Handles, Evicts(h), other = 0, free = 0,
             Cardinality(snaps) = run[h].rows, FileSize = run[h].size
      PROVE  RowPages * Cardinality(snaps') <= Target \/ Cardinality(snaps') = 1
  <2> DEFINE k == EvictCount(run[h].rows, run[h].size)
  <2>1. Evict(h)
    BY <1>1, EvictsIsEvict
  <2>2. run[h].rows \in Nat /\ run[h].rows > 1 /\ run[h].size > 0
    BY <1>1, <2>1 DEF Evict, IInv, Progress, TypeOK
  <2>3. run[h].size = RowPages * run[h].rows
    BY <1>1, PagesOfRows DEF FileSize, Live, IInv, TypeOK
  <2>4. k \in Nat /\ (RowPages * (run[h].rows - k) <= Target \/ run[h].rows - k = 1)
    BY <2>2, <2>3, EvictCountSuffices
  <2>5. k \in 1 .. run[h].rows - 1
    BY <1>1, <2>2, EvictCountBound DEF IInv, TypeOK
  <2>6. PICK E \in Oldest(snaps, k) : snaps' = snaps \ E
    BY <2>1 DEF Evict, Delete
  <2>7. Cardinality(snaps') = run[h].rows - k
    <3> HIDE DEF k
    <3>1. E \in SUBSET snaps /\ Cardinality(E) = k
      BY <1>1, <2>2, <2>5, <2>6 DEF Oldest
    <3>2. IsFiniteSet(snaps) /\ IsFiniteSet(E)
      BY <1>1, <3>1, FS_Subset DEF IInv, TypeOK
    <3>3. IsFiniteSet(snaps \ E) /\ (snaps \ E) \cup E = snaps /\ (snaps \ E) \cap E = {}
      BY <3>1, <3>2, FS_Subset
    <3>4. Cardinality(snaps) = Cardinality(snaps \ E) + Cardinality(E) - Cardinality({})
      BY <3>2, <3>3, FS_Union
    <3>5. Cardinality({}) = 0 /\ Cardinality(snaps \ E) \in Nat
      BY <3>3, FS_EmptySet, FS_CardinalityType
    <3> QED BY <1>1, <2>2, <2>4, <2>6, <3>1, <3>4, <3>5
  <2> QED BY <2>4, <2>7
<1>2. IInv /\ [Next]_vars =>
        [\A h \in Handles :
          /\ Evicts(h)
          /\ other = 0 /\ free = 0
          /\ Cardinality(snaps) = run[h].rows /\ FileSize = run[h].size
          => \/ RowPages * Cardinality(snaps') <= Target
             \/ Cardinality(snaps') = 1]_vars
  BY <1>1
<1> QED BY <1>2, Inductive, PTL DEF Spec, OneSizedPassSuffices
=============================================================================
