--------------------------- MODULE IndexCorrelation ---------------------------
(***************************************************************************)
(* pgbot indexes --correlate and the MCP tools index_code_correlation and   *)
(* record_index_verdict (internal/correlate, cmd/pgbot/correlate.go and     *)
(* internal/store/verdicts.go), over the life of one table's indexes: they  *)
(* are built, concurrently or not, used, dropped and made again under the   *)
(* same name, while statistics are reset and the server restarts.           *)
(*                                                                          *)
(* A column stands for a column and its operator class.  Time is counted in *)
(* half rounding units of stats_window_days, which has two decimals.        *)
(***************************************************************************)
EXTENDS Naturals, FiniteSets, SequencesExt

CONSTANTS Names,       \* schema.index
          Shapes,      \* what an index may be defined as
          ColdTicks,   \* ColdWindowThresholdSeconds
          MaxTime,     \* bound: the clock
          MaxBuilt,    \* bound: indexes created
          MaxVerdicts  \* bound: verdicts recorded

RoundUnit == 2
Never == MaxTime + 1
ASSUME CorrelationAssumption ==
    /\ \A s \in Shapes : DOMAIN s = {"columns", "kind", "partial", "expression", "unique",
                                      "constraint", "small"}
    /\ \A s \in Shapes : s.columns \in Seq(Range(s.columns))
    /\ ColdTicks \in Nat /\ MaxTime \in Nat /\ MaxBuilt \in Nat /\ MaxVerdicts \in Nat

VARIABLES now,
          catalog,     \* name -> the index of that name, for those that exist
          built,       \* indexes created so far: the last oid
          resetAt,     \* pg_stat_database.stats_reset, Never when null
          startedAt,   \* pg_postmaster_start_time
          verdicts,    \* index_verdicts of the store, by name
          recorded     \* how many were recorded
vars == <<now, catalog, built, resetAt, startedAt, verdicts, recorded>>

(* A verdict also remembers, for the properties only, whether its index was *)
(* scanned after it, and whether it was made again.                         *)
Index == [shape : Shapes, state : {"building", "invalid", "valid"}, oid : 1 .. MaxBuilt,
          scanned : BOOLEAN]
Verdicts == {"found_in_code", "not_found_in_code", "inconclusive"}
Verdict == [verdict : Verdicts, at : 0 .. MaxTime, used : BOOLEAN, remade : BOOLEAN]
-----------------------------------------------------------------------------
(* redundant_indexes.sql: another index of the same method starts with the  *)
(* columns of this one, or has the same and was made before it.             *)
Plain(i) == ~i.shape.partial /\ ~i.shape.expression
Droppable(i) == Plain(i) /\ ~i.shape.unique /\ ~i.shape.constraint
Shorter(a, b) == a # b /\ IsPrefix(a, b)
(* A slip of Covers: duplicates cover each other.                           *)
CoversBothWays(b, a) ==
    /\ Droppable(a) /\ Plain(b) /\ a.shape.kind = b.shape.kind /\ a.oid # b.oid
    /\ IsPrefix(a.shape.columns, b.shape.columns)

Covers(b, a) ==
    /\ Droppable(a) /\ Plain(b) /\ a.shape.kind = b.shape.kind
    /\ \/ Shorter(a.shape.columns, b.shape.columns)
       \/ a.shape.columns = b.shape.columns /\ a.oid > b.oid

(* What the collectors saw: a section whose query failed is empty, and      *)
(* without the indexes section so is the list of redundant ones it holds.   *)
Redundant(got) ==
    IF {"indexes", "redundant"} \subseteq got
    THEN {n \in DOMAIN catalog : \E m \in DOMAIN catalog : Covers(catalog[m], catalog[n])} ELSE {}
Invalid(got) ==
    IF "schema" \in got THEN {n \in DOMAIN catalog : catalog[n].state # "valid"} ELSE {}
ConstraintBacked(i) == i.shape.unique \/ i.shape.constraint
Unused(got) ==
    IF "indexes" \in got
    THEN {n \in DOMAIN catalog : /\ ~catalog[n].scanned /\ ~catalog[n].shape.small
                                 /\ ~ConstraintBacked(catalog[n])} ELSE {}
-----------------------------------------------------------------------------
(* The window of the statistics: stats_window_days is rounded, the age is   *)
(* not, and without a reset, or without the health section, it is the time  *)
(* since the server started.                                                *)
Round(t) == RoundUnit * ((t + RoundUnit \div 2) \div RoundUnit)
KnowsReset(got) == resetAt # Never /\ "health" \in got
WindowAge(got) == IF KnowsReset(got) THEN now - resetAt ELSE now - startedAt
ColdWindow(got) == WindowAge(got) < ColdTicks
(* A slip of EffectiveWindow: the reset is not looked at.                   *)
EffectiveWindowSinceStart(got) == now - startedAt

EffectiveWindow(got) == IF KnowsReset(got) THEN Round(now - resetAt) ELSE now - startedAt

(* classifyStats.                                                           *)
ClassifyStats(i, got) ==
    IF ColdWindow(got) \/ i.shape.kind # "btree" \/ i.shape.expression \/ i.shape.partial
    THEN "inconclusive" ELSE "needs_code_check"

(* attachVerdict: a fresh verdict that found nothing corroborates an index  *)
(* the statistics alone cannot decide; nothing else changes the entry.      *)
Stale(v, got) == now - v.at > EffectiveWindow(got)
NoVerdict == [verdict |-> "none", stale |-> FALSE]
(* A slip of AttachVerdict: an inconclusive entry is promoted.              *)
AttachVerdictPromoting(e, store, got) ==
    IF e.index \notin DOMAIN store THEN e
    ELSE LET v == store[e.index]
             promoted == IF e.confidence = "inconclusive" /\ v.verdict = "not_found_in_code"
                         THEN "needs_code_check" ELSE e.confidence
         IN  [e EXCEPT !.confidence = promoted,
                       !.prior = [verdict |-> v.verdict, stale |-> Stale(v, got)]]

AttachVerdict(e, store, got) ==
    IF e.index \notin DOMAIN store THEN e
    ELSE LET v == store[e.index]
             noted == e.confidence = "needs_code_check" /\ v.verdict = "not_found_in_code"
         IN  [e EXCEPT !.prior = [verdict |-> v.verdict, stale |-> Stale(v, got)],
                       !.note = IF ~noted THEN @ ELSE IF Stale(v, got) THEN "stale" ELSE "corroborated"]

Guard(confidence) == IF confidence = "inconclusive" THEN "prohibition" ELSE "precondition"
Entry(n, confidence) ==
    [index |-> n, confidence |-> confidence, guard |-> Guard(confidence),
     note |-> IF confidence = "inconclusive" THEN "do_not_drop" ELSE "none", prior |-> NoVerdict]

(* Build: the unused indexes, then the redundant and the invalid ones that  *)
(* are not among them.                                                      *)
Build(store, got) ==
    LET catalogued == Redundant(got) \union Invalid(got)
        unused == {Entry(n, IF n \in catalogued THEN "catalog_proven"
                            ELSE ClassifyStats(catalog[n], got)) : n \in Unused(got)}
        redundant == {Entry(n, "catalog_proven") : n \in Redundant(got) \ Unused(got)}
        invalid == {Entry(n, "catalog_proven") : n \in Invalid(got) \ (Redundant(got) \union Unused(got))}
    IN  {AttachVerdict(e, store, got) : e \in unused \union redundant} \union invalid
-----------------------------------------------------------------------------
Init ==
    /\ now = 0 /\ catalog = <<>> /\ built = 0 /\ resetAt = Never /\ startedAt = 0
    /\ verdicts = <<>> /\ recorded = 0

Tick == now < MaxTime /\ now' = now + 1
        /\ UNCHANGED <<catalog, built, resetAt, startedAt, verdicts, recorded>>

Created(shape, state) == [shape |-> shape, state |-> state, oid |-> built + 1, scanned |-> FALSE]
CreateIndex(n, shape, state) ==
    /\ n \notin DOMAIN catalog /\ built < MaxBuilt /\ built' = built + 1
    /\ catalog' = [m \in DOMAIN catalog \union {n} |->
                     IF m = n THEN Created(shape, state) ELSE catalog[m]]
    /\ UNCHANGED <<now, resetAt, startedAt, verdicts, recorded>>
(* CREATE INDEX CONCURRENTLY ends, or fails and leaves the index behind.    *)
BuildEnds(n, state) ==
    /\ n \in DOMAIN catalog /\ catalog[n].state = "building"
    /\ catalog' = [catalog EXCEPT ![n].state = state]
    /\ UNCHANGED <<now, built, resetAt, startedAt, verdicts, recorded>>
DropIndex(n) ==
    /\ n \in DOMAIN catalog /\ catalog[n].state # "building"
    /\ catalog' = [m \in DOMAIN catalog \ {n} |-> catalog[m]]
    /\ verdicts' = [m \in DOMAIN verdicts |-> [verdicts[m] EXCEPT !.remade = @ \/ m = n]]
    /\ UNCHANGED <<now, built, resetAt, startedAt, recorded>>
Scan(n) ==
    /\ n \in DOMAIN catalog /\ catalog[n].state = "valid"
    /\ catalog' = [catalog EXCEPT ![n].scanned = TRUE]
    /\ verdicts' = [m \in DOMAIN verdicts |-> [verdicts[m] EXCEPT
                      !.used = @ \/ (m = n /\ now > verdicts[m].at + RoundUnit \div 2)]]
    /\ UNCHANGED <<now, built, resetAt, startedAt, recorded>>
Forgotten == [n \in DOMAIN catalog |-> [catalog[n] EXCEPT !.scanned = FALSE]]
StatsReset ==
    /\ catalog' = Forgotten /\ resetAt' = now
    /\ UNCHANGED <<now, built, startedAt, verdicts, recorded>>
(* Statistics survive a clean restart, not a crash.                         *)
Restart(crashed) ==
    /\ startedAt' = now
    /\ IF crashed THEN catalog' = Forgotten /\ resetAt' = Never ELSE UNCHANGED <<catalog, resetAt>>
    /\ UNCHANGED <<now, built, verdicts, recorded>>

(* The latest verdict of a name replaces the one before.                    *)
RecordVerdict(n, verdict) ==
    /\ recorded < MaxVerdicts /\ recorded' = recorded + 1
    /\ verdicts' = [m \in DOMAIN verdicts \union {n} |->
                      IF m = n THEN [verdict |-> verdict, at |-> now, used |-> FALSE, remade |-> FALSE]
                      ELSE verdicts[m]]
    /\ UNCHANGED <<now, catalog, built, resetAt, startedAt>>

Next ==
    \/ Tick \/ StatsReset
    \/ \E crashed \in BOOLEAN : Restart(crashed)
    \/ \E n \in Names : \/ DropIndex(n) \/ Scan(n)
                        \/ \E verdict \in Verdicts : RecordVerdict(n, verdict)
                        \/ \E state \in {"valid", "invalid"} : BuildEnds(n, state)
                        \/ \E shape \in Shapes, state \in {"valid", "building"} : CreateIndex(n, shape, state)

Spec == Init /\ [][Next]_vars
-----------------------------------------------------------------------------
(* The correlation reads only: what it reports is a function of the state,  *)
(* of the sections that could be collected; without a store, <<>> is read.  *)
Sections == {"indexes", "redundant", "schema", "health"}
TypeOK ==
    /\ now \in 0 .. MaxTime /\ built \in 0 .. MaxBuilt /\ recorded \in 0 .. MaxVerdicts
    /\ DOMAIN catalog \subseteq Names /\ \A n \in DOMAIN catalog : catalog[n] \in Index
    /\ resetAt \in 0 .. Never /\ startedAt \in 0 .. MaxTime
    /\ DOMAIN verdicts \subseteq Names /\ \A n \in DOMAIN verdicts : verdicts[n] \in Verdict

(* An entry that says the index has stayed zero-scan since the code was     *)
(* searched is right about an index that was there then, to the precision   *)
(* of the window, whatever resets, crashes and restarts came between        *)
(* (attachVerdict, corroborationNote).  The health section, which knows of  *)
(* the reset, has to be there.                                              *)
CorroborationIsHonest ==
    \A got \in {got \in SUBSET Sections : "health" \in got} :
        \A e \in Build(verdicts, got) :
            e.note = "corroborated" /\ ~verdicts[e.index].remade => ~verdicts[e.index].used

(* A recorded verdict changes no grade and no guard; and whatever a code    *)
(* search said, where statistics cannot speak (the window is cold, or the   *)
(* index is no btree, partial or an expression) an index that the catalog   *)
(* does not prove removable keeps the prohibition and its "do not drop"     *)
(* (the package comment of correlate).                                      *)
Grades(entries) == {<<e.index, e.confidence, e.guard>> : e \in entries}
Undecidable(i, got) == WindowAge(got) < ColdTicks \/ i.shape.kind # "btree" \/ ~Plain(i)
VerdictNeverAuthorizes ==
    \A got \in SUBSET Sections :
        LET entries == Build(verdicts, got)
        IN  /\ Grades(entries) = Grades(Build(<<>>, got))
            /\ \A e \in entries :
                  Undecidable(catalog[e.index], got) =>
                      \/ e.guard = "prohibition" /\ e.note = "do_not_drop"
                      \/ e.confidence = "catalog_proven" /\ e.note = "none"

(* Dropping at once every index the report calls proven leaves, for each    *)
(* valid one, another valid index that starts with its columns, provided    *)
(* the table has no index that is invalid (redundant_indexes.sql).          *)
Serves(b, a) == b.state = "valid" /\ Plain(b) /\ IsPrefix(a.shape.columns, b.shape.columns)
Proven == {e.index : e \in {e \in Build(verdicts, Sections) : e.confidence = "catalog_proven"}}
DropsLeaveACover ==
    (\A n \in DOMAIN catalog : catalog[n].state = "valid") =>
        \A n \in Proven : \E m \in DOMAIN catalog \ Proven : Serves(catalog[m], catalog[n])

(* The same whatever the state of the other indexes: "which already serves  *)
(* these lookups; provable from the catalog alone" (redundantReason).       *)
CoverServesItsLookups ==
    \A n \in Proven : catalog[n].state = "valid" =>
        \E m \in DOMAIN catalog : m # n /\ Serves(catalog[m], catalog[n])
=============================================================================
