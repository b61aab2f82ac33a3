------------------------ MODULE IndexCorrelation_proofs ------------------------
(***************************************************************************)
(* What a recorded verdict may do to the report on removable indexes, for   *)
(* any names, shapes, thresholds and bounds: it raises no grade, and what   *)
(* it is said to corroborate held.  The first follows from Build alone; the *)
(* second needs an invariant that dates the scans since the verdict.  And   *)
(* what the report calls proven may be dropped all at once: of the indexes  *)
(* that start with the columns of one, the longest, and of those the        *)
(* oldest, is not among them.                                               *)
(***************************************************************************)
EXTENDS IndexCorrelation, SequenceTheorems, WellFoundedInduction, TLAPS

LEMMA BoundsAreNumbers == ColdTicks \in Nat /\ MaxTime \in Nat /\ MaxBuilt \in Nat /\ MaxVerdicts \in Nat
  BY CorrelationAssumption

(* An entry before a verdict is attached to it.                             *)
LEMMA EntryFields ==
  ASSUME NEW n, NEW confidence
  PROVE  /\ Entry(n, confidence).index = n
         /\ Entry(n, confidence).confidence = confidence
         /\ Entry(n, confidence).guard = Guard(confidence)
  BY DEF Entry

(* attachVerdict touches neither the index, the grade nor the guard, and    *)
(* notes a corroboration only of a fresh verdict that found nothing, on an  *)
(* entry that needs a check of the code.                                    *)
LEMMA AttachKeepsGrade ==
  ASSUME NEW n, NEW confidence, NEW store, NEW got
  PROVE  LET e == Entry(n, confidence)
             a == AttachVerdict(e, store, got)
         IN  /\ a.index = n /\ a.confidence = confidence /\ a.guard = Guard(confidence)
             /\ a.note = "corroborated" =>
                    /\ n \in DOMAIN store /\ confidence = "needs_code_check"
                    /\ ~Stale(store[n], got)
             /\ confidence = "inconclusive" => a.note = "do_not_drop"
             /\ confidence = "catalog_proven" => a.note = "none"
  BY DEF AttachVerdict, Entry

(* Each entry of the report is one index with one grade; verdicts or not.   *)
GradeOf(n, got) ==
    IF n \in Redundant(got) \union Invalid(got) THEN "catalog_proven" ELSE ClassifyStats(catalog[n], got)
Reported(got) == Unused(got) \union Redundant(got) \union Invalid(got)

LEMMA BuildGrades ==
  ASSUME NEW store, NEW got
  PROVE  Grades(Build(store, got)) = {<<n, GradeOf(n, got), Guard(GradeOf(n, got))>> : n \in Reported(got)}
<1> DEFINE unused == {Entry(n, GradeOf(n, got)) : n \in Unused(got)}
           redundant == {Entry(n, "catalog_proven") : n \in Redundant(got) \ Unused(got)}
           invalid == {Entry(n, "catalog_proven") : n \in Invalid(got) \ (Redundant(got) \union Unused(got))}
           attached == {AttachVerdict(e, store, got) : e \in unused \union redundant}
<1>1. Build(store, got) = attached \union invalid
  BY DEF Build, GradeOf
<1>2. \A e \in attached \union invalid :
         \E n \in Reported(got) : <<e.index, e.confidence, e.guard>> = <<n, GradeOf(n, got), Guard(GradeOf(n, got))>>
  BY AttachKeepsGrade, EntryFields DEF Reported, GradeOf
<1>3. \A n \in Reported(got) : \E e \in attached \union invalid :
         <<e.index, e.confidence, e.guard>> = <<n, GradeOf(n, got), Guard(GradeOf(n, got))>>
  <2> SUFFICES ASSUME NEW n \in Reported(got)
               PROVE  \E e \in attached \union invalid :
                         <<e.index, e.confidence, e.guard>> = <<n, GradeOf(n, got), Guard(GradeOf(n, got))>>
    OBVIOUS
  <2>1. CASE n \in Unused(got)
    <3>1. AttachVerdict(Entry(n, GradeOf(n, got)), store, got) \in attached
      BY <2>1
    <3> QED
      BY <3>1, AttachKeepsGrade
  <2>2. CASE n \in Redundant(got) \ Unused(got)
    <3>1. AttachVerdict(Entry(n, "catalog_proven"), store, got) \in attached
      BY <2>2
    <3>2. GradeOf(n, got) = "catalog_proven"
      BY <2>2 DEF GradeOf
    <3> QED
      BY <3>1, <3>2, AttachKeepsGrade
  <2>3. CASE n \in Invalid(got) \ (Redundant(got) \union Unused(got))
    <3>1. Entry(n, "catalog_proven") \in invalid
      BY <2>3
    <3>2. GradeOf(n, got) = "catalog_proven"
      BY <2>3 DEF GradeOf
    <3> QED
      BY <3>1, <3>2, EntryFields
  <2> QED
    BY <2>1, <2>2, <2>3 DEF Reported
<1> QED
  BY <1>1, <1>2, <1>3 DEF Grades
-----------------------------------------------------------------------------
(* The invariant: types.  The clock is ahead of every date; an index scanned since *)
(* the verdict of its name is still there, and either still counts as       *)
(* scanned, or the statistics were lost after the scan.                     *)
Clock ==
    startedAt \in 0 .. now /\ resetAt \in 0 .. now \union {Never}
Dated ==
    \A n \in DOMAIN verdicts :
        /\ verdicts[n].at \in 0 .. now
        /\ verdicts[n].used => now > verdicts[n].at + 1
Lost(at) == IF resetAt = Never THEN startedAt > at + 1 ELSE resetAt > at + 1
ScansKnown ==
    \A n \in DOMAIN verdicts : verdicts[n].used /\ ~verdicts[n].remade =>
        n \in DOMAIN catalog /\ (catalog[n].scanned \/ Lost(verdicts[n].at))
IInv == TypeOK /\ Clock /\ Dated /\ ScansKnown

LEMMA IInvInit == Init => IInv
  BY BoundsAreNumbers DEF Init, IInv, TypeOK, Clock, Dated, ScansKnown, Never

(* Forgetting the counters leaves every index what it is.                   *)
LEMMA ForgottenType ==
  ASSUME \A n \in DOMAIN catalog : catalog[n] \in Index
  PROVE  /\ DOMAIN Forgotten = DOMAIN catalog
         /\ \A n \in DOMAIN Forgotten : Forgotten[n] \in Index
<1>1. ASSUME NEW r \in Index
      PROVE  [r EXCEPT !.scanned = FALSE] \in Index
  BY DEF Index
<1> QED
  BY <1>1 DEF Forgotten

LEMMA TypeNext == TypeOK /\ [Next]_vars => TypeOK'
<1> SUFFICES ASSUME TypeOK, [Next]_vars
             PROVE  TypeOK'
  OBVIOUS
<1> USE BoundsAreNumbers DEF TypeOK, Never
<1>1. CASE Tick
  BY <1>1 DEF Tick
<1>2. CASE StatsReset
  BY <1>2, ForgottenType DEF StatsReset
<1>3. ASSUME NEW crashed \in BOOLEAN, Restart(crashed)
      PROVE  TypeOK'
  <2>1. CASE crashed
    BY <1>3, <2>1, ForgottenType DEF Restart
  <2>2. CASE ~crashed
    BY <1>3, <2>2 DEF Restart
  <2> QED
    BY <2>1, <2>2
<1>4. ASSUME NEW n \in Names, DropIndex(n)
      PROVE  TypeOK'
  BY <1>4 DEF DropIndex, Verdict
<1>5. ASSUME NEW n \in Names, Scan(n)
      PROVE  TypeOK'
  <2>1. \A m \in DOMAIN verdicts' : verdicts'[m] \in Verdict
    BY <1>5 DEF Scan, Verdict
  <2>2. \A r \in Index : [r EXCEPT !.scanned = TRUE] \in Index
    BY DEF Index
  <2>3. DOMAIN catalog' = DOMAIN catalog /\ \A m \in DOMAIN catalog' : catalog'[m] \in Index
    BY <1>5, <2>2 DEF Scan
  <2> QED
    BY <1>5, <2>1, <2>3 DEF Scan
<1>6. ASSUME NEW n \in Names, NEW verdict \in Verdicts, RecordVerdict(n, verdict)
      PROVE  TypeOK'
  BY <1>6 DEF RecordVerdict, Verdict
<1>7. ASSUME NEW n \in Names, NEW state \in {"valid", "invalid"}, BuildEnds(n, state)
      PROVE  TypeOK'
  BY <1>7 DEF BuildEnds, Index
<1>8. ASSUME NEW n \in Names, NEW shape \in Shapes, NEW state \in {"valid", "building"},
             CreateIndex(n, shape, state)
      PROVE  TypeOK'
  BY <1>8 DEF CreateIndex, Created, Index
<1>9. CASE UNCHANGED vars
  BY <1>9 DEF vars
<1> QED
  BY <1>1, <1>2, <1>3, <1>4, <1>5, <1>6, <1>7, <1>8, <1>9 DEF Next

LEMMA IInvNext == IInv /\ [Next]_vars => IInv'
<1> SUFFICES ASSUME IInv, [Next]_vars
             PROVE  IInv'
  OBVIOUS
<1>0. TypeOK'
  BY TypeNext DEF IInv
<1> USE <1>0, BoundsAreNumbers DEF IInv, TypeOK, Index, Verdict, Clock, Dated, ScansKnown, Lost, Never,
                                       RoundUnit
<1>1. CASE Tick
  BY <1>1 DEF Tick
<1>2. CASE StatsReset
  BY <1>2 DEF StatsReset, Forgotten
<1>3. ASSUME NEW crashed \in BOOLEAN, Restart(crashed)
      PROVE  IInv'
  <2>1. CASE crashed
    BY <1>3, <2>1 DEF Restart, Forgotten
  <2>2. CASE ~crashed
    BY <1>3, <2>2 DEF Restart
  <2> QED
    BY <2>1, <2>2
<1>4. ASSUME NEW n \in Names, DropIndex(n)
      PROVE  IInv'
  BY <1>4 DEF DropIndex
<1>5. ASSUME NEW n \in Names, Scan(n)
      PROVE  IInv'
  <2>1. /\ \A m \in DOMAIN catalog : catalog[m].scanned => catalog'[m].scanned
        /\ catalog'[n].scanned /\ DOMAIN catalog' = DOMAIN catalog /\ n \in DOMAIN catalog
    BY <1>5 DEF Scan
  <2>2. \A m \in DOMAIN verdicts :
           /\ verdicts'[m].at = verdicts[m].at /\ verdicts'[m].remade = verdicts[m].remade
           /\ verdicts'[m].used => verdicts[m].used \/ (m = n /\ now > verdicts[m].at + 1)
    BY <1>5 DEF Scan
  <2>3. UNCHANGED <<now, startedAt, resetAt>> /\ DOMAIN verdicts' = DOMAIN verdicts
    BY <1>5 DEF Scan
  <2> QED
    BY <2>1, <2>2, <2>3
<1>6. ASSUME NEW n \in Names, NEW verdict \in Verdicts, RecordVerdict(n, verdict)
      PROVE  IInv'
  BY <1>6 DEF RecordVerdict
<1>7. ASSUME NEW n \in Names, NEW state \in {"valid", "invalid"}, BuildEnds(n, state)
      PROVE  IInv'
  BY <1>7 DEF BuildEnds
<1>8. ASSUME NEW n \in Names, NEW shape \in Shapes, NEW state \in {"valid", "building"},
             CreateIndex(n, shape, state)
      PROVE  IInv'
  <2>1. \A m \in DOMAIN catalog : m \in DOMAIN catalog' /\ catalog'[m] = catalog[m]
    BY <1>8 DEF CreateIndex
  <2>2. UNCHANGED <<now, startedAt, resetAt, verdicts>>
    BY <1>8 DEF CreateIndex
  <2> QED
    BY <2>1, <2>2
<1>9. CASE UNCHANGED vars
  BY <1>9 DEF vars
<1> QED
  BY <1>1, <1>2, <1>3, <1>4, <1>5, <1>6, <1>7, <1>8, <1>9 DEF Next

LEMMA Inductive == Spec => []IInv
  BY IInvInit, IInvNext, PTL DEF Spec
-----------------------------------------------------------------------------
(* The note of an entry follows from its grade, but for one that needs a    *)
(* check of the code.                                                       *)
LEMMA BuildNotes ==
  ASSUME NEW store, NEW got, NEW e \in Build(store, got)
  PROVE  /\ e.confidence = "inconclusive" => e.note = "do_not_drop"
         /\ e.confidence = "catalog_proven" => e.note = "none"
<1>1. PICK n, confidence :
        e \in {Entry(n, "catalog_proven"), AttachVerdict(Entry(n, confidence), store, got)}
  BY DEF Build
<1>2. CASE e = Entry(n, "catalog_proven")
  BY <1>2 DEF Entry
<1>3. CASE e = AttachVerdict(Entry(n, confidence), store, got)
  BY <1>3, AttachKeepsGrade
<1> QED
  BY <1>1, <1>2, <1>3

LEMMA VerdictsAside == IInv => VerdictNeverAuthorizes
<1> SUFFICES ASSUME IInv, NEW got \in SUBSET Sections
             PROVE  LET entries == Build(verdicts, got)
                    IN  /\ Grades(entries) = Grades(Build(<<>>, got))
                        /\ \A e \in entries :
                              Undecidable(catalog[e.index], got) =>
                                  \/ e.guard = "prohibition" /\ e.note = "do_not_drop"
                                  \/ e.confidence = "catalog_proven" /\ e.note = "none"
  BY DEF VerdictNeverAuthorizes
<1>1. Grades(Build(verdicts, got)) = Grades(Build(<<>>, got))
  BY BuildGrades
<1>2. ASSUME NEW e \in Build(verdicts, got), Undecidable(catalog[e.index], got)
      PROVE  \/ e.guard = "prohibition" /\ e.note = "do_not_drop"
             \/ e.confidence = "catalog_proven" /\ e.note = "none"
  <2>1. <<e.index, e.confidence, e.guard>> \in Grades(Build(verdicts, got))
    BY DEF Grades
  <2>2. e.confidence = GradeOf(e.index, got) /\ e.guard = Guard(GradeOf(e.index, got))
    BY <2>1, BuildGrades
  <2>3. GradeOf(e.index, got) \in {"catalog_proven", "inconclusive"}
    BY <1>2 DEF GradeOf, ClassifyStats, ColdWindow, Undecidable, Plain
  <2> QED
    BY <2>2, <2>3, BuildNotes DEF Guard
<1> QED
  BY <1>1, <1>2

(* A verdict that is not stale was not recorded before the statistics were  *)
(* lost, to the precision of the window.                                    *)
LEMMA FreshIsAfterLoss ==
  ASSUME IInv, NEW got, "health" \in got, NEW n \in DOMAIN verdicts, ~Stale(verdicts[n], got)
  PROVE  ~Lost(verdicts[n].at)
<1> USE BoundsAreNumbers DEF IInv, TypeOK, Clock, Dated, Lost, Never, Stale, EffectiveWindow, KnowsReset
<1>1. CASE resetAt = Never
  BY <1>1
<1>2. CASE resetAt # Never
  <2>1. Round(now - resetAt) <= now - resetAt + 1
    BY <1>2 DEF Round, RoundUnit
  <2>2. Round(now - resetAt) \in Int
    BY <1>2 DEF Round, RoundUnit
  <2> QED
    BY <1>2, <2>1, <2>2
<1> QED
  BY <1>1, <1>2

(* An entry that notes a corroboration is one of an index of the catalog    *)
(* that was not scanned, under a fresh verdict.                             *)
LEMMA CorroboratedEntry ==
  ASSUME NEW got, NEW e \in Build(verdicts, got), e.note = "corroborated"
  PROVE  /\ e.index \in DOMAIN verdicts /\ ~Stale(verdicts[e.index], got)
         /\ ~catalog[e.index].scanned
<1>1. PICK n : /\ n \in Unused(got) \union Redundant(got)
              /\ \E confidence :
                     /\ e = AttachVerdict(Entry(n, confidence), verdicts, got)
                     /\ confidence = "needs_code_check" => n \in Unused(got)
  BY DEF Build, Entry
<1>2. PICK confidence : /\ e = AttachVerdict(Entry(n, confidence), verdicts, got)
                        /\ confidence = "needs_code_check" => n \in Unused(got)
  BY <1>1
<1>3. e.index = n /\ n \in DOMAIN verdicts /\ n \in Unused(got) /\ ~Stale(verdicts[n], got)
  BY <1>2, AttachKeepsGrade
<1> QED
  BY <1>3 DEF Unused

LEMMA HonestFromIInv == IInv => CorroborationIsHonest
<1> SUFFICES ASSUME IInv, NEW got \in SUBSET Sections, "health" \in got,
                    NEW e \in Build(verdicts, got), e.note = "corroborated",
                    ~verdicts[e.index].remade, verdicts[e.index].used
             PROVE  FALSE
  BY DEF CorroborationIsHonest
<1>1. e.index \in DOMAIN verdicts /\ ~Stale(verdicts[e.index], got) /\ ~catalog[e.index].scanned
  BY CorroboratedEntry
<1>2. ~Lost(verdicts[e.index].at)
  BY <1>1, FreshIsAfterLoss
<1> QED
  BY <1>1, <1>2 DEF IInv, ScansKnown

(* A recorded verdict changes no grade and no guard, and where statistics   *)
(* cannot speak an index that the catalog does not prove removable keeps    *)
(* the prohibition and its "do not drop" (correlate).                       *)
THEOREM VerdictsChangeNoGrade == Spec => []VerdictNeverAuthorizes
  BY Inductive, VerdictsAside, PTL

(* An index said to have stayed unscanned since the code was searched was   *)
(* not scanned since, to the precision of the window (attachVerdict).       *)
THEOREM CorroborationHolds == Spec => []CorroborationIsHonest
  BY Inductive, HonestFromIInv, PTL
-----------------------------------------------------------------------------
(* Columns are sequences, and there are finitely many lengths of them.      *)
Columns(n) == catalog[n].shape.columns
Bounded ==
    /\ \A n \in DOMAIN catalog : catalog[n].shape \in Shapes /\ catalog[n].oid \in Nat
    /\ \E top \in Nat : \A n \in DOMAIN catalog : Len(Columns(n)) <= top

LEMMA ColumnsAreSequences ==
  ASSUME NEW s \in Shapes
  PROVE  s.columns \in Seq(Range(s.columns)) /\ Len(s.columns) \in Nat
  BY CorrelationAssumption, LenProperties

LEMMA BoundedNext == Bounded /\ TypeOK /\ [Next]_vars => Bounded'
<1> SUFFICES ASSUME Bounded, TypeOK, [Next]_vars
             PROVE  Bounded'
  OBVIOUS
<1>0. PICK top \in Nat : \A n \in DOMAIN catalog : Len(Columns(n)) <= top
  BY DEF Bounded
<1>k. ASSUME DOMAIN catalog' \subseteq DOMAIN catalog,
             \A n \in DOMAIN catalog' : catalog'[n].shape = catalog[n].shape /\ catalog'[n].oid = catalog[n].oid
      PROVE  Bounded'
  BY <1>0, <1>k DEF Bounded, Columns
<1>1. ASSUME NEW n \in Names, NEW shape \in Shapes, NEW state \in {"valid", "building"},
             CreateIndex(n, shape, state)
      PROVE  Bounded'
  <2>1. /\ DOMAIN catalog' = DOMAIN catalog \union {n} /\ n \notin DOMAIN catalog
        /\ catalog'[n] = Created(shape, state)
        /\ \A m \in DOMAIN catalog : catalog'[m] = catalog[m]
    BY <1>1 DEF CreateIndex
  <2>2. Created(shape, state).shape = shape /\ Created(shape, state).oid \in Nat
    BY BoundsAreNumbers DEF Created, TypeOK
  <2>3. PICK more \in Nat : top <= more /\ Len(shape.columns) <= more
    <3>1. Len(shape.columns) \in Nat
      BY ColumnsAreSequences
    <3>2. top <= top + Len(shape.columns) /\ Len(shape.columns) <= top + Len(shape.columns)
          /\ top + Len(shape.columns) \in Nat
      BY <3>1
    <3> QED
      BY <3>2
  <2>4. \A m \in DOMAIN catalog' : catalog'[m].shape \in Shapes /\ catalog'[m].oid \in Nat
    BY <2>1, <2>2 DEF Bounded
  <2>5. ASSUME NEW m \in DOMAIN catalog'
        PROVE  Len(catalog'[m].shape.columns) <= more
    <3>1. CASE m = n
      BY <2>1, <2>2, <2>3, <3>1
    <3>2. CASE m # n
      <4>1. m \in DOMAIN catalog /\ catalog'[m] = catalog[m]
        BY <2>1, <3>2
      <4>2. Len(catalog[m].shape.columns) <= top /\ Len(catalog[m].shape.columns) \in Nat
        BY <1>0, <4>1, ColumnsAreSequences DEF Columns, Bounded
      <4> QED
        BY <2>3, <4>1, <4>2
    <3> QED
      BY <3>1, <3>2
  <2> QED
    BY <2>4, <2>5 DEF Bounded, Columns
<1>2. CASE Tick \/ StatsReset \/ (\E crashed \in BOOLEAN : Restart(crashed)) \/ UNCHANGED vars
  <2>1. \/ UNCHANGED catalog
        \/ catalog' = Forgotten
    BY <1>2 DEF Tick, StatsReset, Restart, vars
  <2>2. CASE UNCHANGED catalog
    BY <1>k, <2>2
  <2>3. CASE catalog' = Forgotten
    <3>1. ASSUME NEW n \in DOMAIN catalog
          PROVE  Forgotten[n].shape = catalog[n].shape /\ Forgotten[n].oid = catalog[n].oid
      BY DEF Forgotten, TypeOK, Index
    <3>2. DOMAIN Forgotten = DOMAIN catalog
      BY DEF Forgotten
    <3> QED
      BY <1>k, <2>3, <3>1, <3>2
  <2> QED
    BY <2>1, <2>2, <2>3
<1>3. ASSUME NEW n \in Names,
             \/ DropIndex(n) \/ Scan(n)
             \/ \E verdict \in Verdicts : RecordVerdict(n, verdict)
             \/ \E state \in {"valid", "invalid"} : BuildEnds(n, state)
      PROVE  Bounded'
  <2>1. \/ UNCHANGED catalog
        \/ catalog' = [m \in DOMAIN catalog \ {n} |-> catalog[m]]
        \/ catalog' = [catalog EXCEPT ![n].scanned = TRUE]
        \/ \E state \in {"valid", "invalid"} : catalog' = [catalog EXCEPT ![n].state = state]
    BY <1>3 DEF DropIndex, Scan, RecordVerdict, BuildEnds
  <2>2. CASE \/ UNCHANGED catalog
             \/ catalog' = [m \in DOMAIN catalog \ {n} |-> catalog[m]]
    BY <1>k, <2>2
  <2>3. ASSUME NEW field \in {"scanned", "state"}, NEW value,
               catalog' = [catalog EXCEPT ![n] = [@ EXCEPT ![field] = value]]
        PROVE  Bounded'
    <3>1. DOMAIN catalog' = DOMAIN catalog
      BY <2>3
    <3>2. ASSUME NEW m \in DOMAIN catalog
          PROVE  catalog'[m].shape = catalog[m].shape /\ catalog'[m].oid = catalog[m].oid
      BY <2>3 DEF TypeOK, Index
    <3> QED
      BY <1>k, <3>1, <3>2
  <2> QED
    BY <2>1, <2>2, <2>3
<1> QED
  BY <1>1, <1>2, <1>3 DEF Next

-----------------------------------------------------------------------------
(* A set with a measure has an element that measures least.                 *)
LEMMA LeastBy ==
  ASSUME NEW S, S # {}, NEW measure \in [S -> Nat]
  PROVE  \E x \in S : \A y \in S : measure[x] <= measure[y]
<1> DEFINE Sizes == {measure[x] : x \in S}
           Less == OpToRel(<, Nat)
<1>1. Sizes \subseteq Nat /\ Sizes # {}
  OBVIOUS
<1>2. IsWellFoundedOn(Less, Nat)
  BY NatLessThanWellFounded
<1>3. \A x, y \in Nat : y < x => <<y, x>> \in Less
  BY DEF OpToRel
<1> HIDE DEF Less
<1>4. PICK least \in Sizes : \A y \in Sizes : ~(<<y, least>> \in Less)
  <2> HIDE DEF Sizes
  <2> QED
    BY <1>1, <1>2, WFMin
<1>5. PICK x \in S : measure[x] = least
  OBVIOUS
<1>6. ASSUME NEW y \in S
      PROVE  measure[x] <= measure[y]
  <2>1. measure[y] \in Sizes /\ measure[y] \in Nat /\ measure[x] \in Nat
    OBVIOUS
  <2> HIDE DEF Sizes
  <2>2. ~(<<measure[y], measure[x]>> \in Less)
    BY <1>4, <1>5, <2>1
  <2>3. ~(measure[y] < measure[x])
    BY <1>3, <2>1, <2>2
  <2> QED
    BY <2>1, <2>3
<1> QED
  BY <1>6

LEMMA PrefixIs ==
  ASSUME NEW s \in Shapes, NEW t \in Shapes
  PROVE  IsPrefix(s.columns, t.columns) <=>
            /\ Len(s.columns) <= Len(t.columns)
            /\ \A i \in 1 .. Len(s.columns) : s.columns[i] = t.columns[i]
<1> DEFINE a == s.columns
           b == t.columns
<1>1. a \in Seq(Range(a)) /\ b \in Seq(Range(b)) /\ Len(a) \in Nat /\ Len(b) \in Nat
  BY ColumnsAreSequences
<1> HIDE DEF a, b
<1>2. SubSeq(a, 1, Len(a)) = [i \in 1 .. Len(a) |-> a[i]]
  BY <1>1
<1>3. SubSeq(b, 1, Len(a)) = [i \in 1 .. Len(a) |-> b[i]]
  BY <1>1
<1>4. IsPrefix(a, b) <=> Len(a) <= Len(b) /\ \A i \in 1 .. Len(a) : a[i] = b[i]
  BY <1>2, <1>3 DEF IsPrefix
<1> QED
  BY <1>4 DEF a, b

LEMMA PrefixTransitive ==
  ASSUME NEW s \in Shapes, NEW t \in Shapes, NEW u \in Shapes,
         IsPrefix(s.columns, t.columns), IsPrefix(t.columns, u.columns)
  PROVE  IsPrefix(s.columns, u.columns)
<1>1. Len(s.columns) \in Nat /\ Len(t.columns) \in Nat /\ Len(u.columns) \in Nat
  BY ColumnsAreSequences
<1> QED
  BY <1>1, PrefixIs

LEMMA ShorterIsShorter ==
  ASSUME NEW s \in Shapes, NEW t \in Shapes, Shorter(s.columns, t.columns)
  PROVE  Len(s.columns) < Len(t.columns)
<1>1. s.columns \in Seq(Range(s.columns)) /\ t.columns \in Seq(Range(t.columns))
      /\ Len(s.columns) \in Nat /\ Len(t.columns) \in Nat
  BY ColumnsAreSequences
<1>2. s.columns # t.columns /\ Len(s.columns) <= Len(t.columns)
      /\ \A i \in 1 .. Len(s.columns) : s.columns[i] = t.columns[i]
  BY PrefixIs DEF Shorter
<1>3. Len(s.columns) # Len(t.columns)
  BY <1>1, <1>2, SeqEqual
<1> QED
  BY <1>1, <1>2, <1>3

(* Of the covers of an index the longest, and of those the oldest, has none *)
(* of its own.                                                              *)
LEMMA TopIsKept ==
  ASSUME Bounded, NEW got, NEW n \in Redundant(got)
  PROVE  \E m \in DOMAIN catalog \ Redundant(got) :
            Plain(catalog[m]) /\ IsPrefix(Columns(n), Columns(m))
<1>1. n \in DOMAIN catalog /\ Plain(catalog[n])
  BY DEF Redundant, Covers, Droppable
<1> DEFINE shape(m) == catalog[m].shape
           Over == {m \in DOMAIN catalog : /\ Plain(catalog[m]) /\ shape(m).kind = shape(n).kind
                                           /\ IsPrefix(Columns(n), Columns(m))}
<1>2. \A m \in DOMAIN catalog : shape(m) \in Shapes /\ Len(Columns(m)) \in Nat /\ catalog[m].oid \in Nat
  BY ColumnsAreSequences DEF Bounded, Columns
<1>3. n \in Over
  BY <1>1, <1>2, PrefixIs DEF Columns
<1>4. PICK top \in Nat : \A m \in DOMAIN catalog : Len(Columns(m)) <= top
  BY DEF Bounded
<1>5. PICK longest \in Over : \A m \in Over : Len(Columns(m)) <= Len(Columns(longest))
  <2> DEFINE short == [m \in Over |-> top - Len(Columns(m))]
  <2>1. short \in [Over -> Nat]
    BY <1>2, <1>4
  <2>2. PICK x \in Over : \A y \in Over : short[x] <= short[y]
    <3> HIDE DEF short, Over
    <3> QED
      BY <1>3, <2>1, LeastBy
  <2>3. \A m \in Over : Len(Columns(m)) <= Len(Columns(x))
    BY <1>2, <2>2
  <2> QED
    BY <2>3
<1> DEFINE Longest == {m \in Over : Len(Columns(m)) = Len(Columns(longest))}
<1>6. PICK oldest \in Longest : \A m \in Longest : catalog[oldest].oid <= catalog[m].oid
  <2> DEFINE age == [m \in Longest |-> catalog[m].oid]
  <2>1. age \in [Longest -> Nat] /\ Longest # {}
    BY <1>2
  <2>2. PICK x \in Longest : \A y \in Longest : age[x] <= age[y]
    <3> HIDE DEF age, Longest
    <3> QED
      BY <2>1, LeastBy
  <2>3. \A m \in Longest : catalog[x].oid <= catalog[m].oid
    BY <2>2
  <2> QED
    BY <2>3
<1>7. ASSUME NEW k \in DOMAIN catalog, Covers(catalog[k], catalog[oldest])
      PROVE  FALSE
  <2>1. Plain(catalog[k]) /\ shape(k).kind = shape(n).kind
    BY <1>7 DEF Covers
  <2>2. IsPrefix(Columns(oldest), Columns(k))
    BY <1>2, <1>7, PrefixIs DEF Covers, Shorter, Columns
  <2>3. k \in Over
    BY <1>1, <1>2, <2>1, <2>2, PrefixTransitive DEF Columns
  <2>4. CASE Shorter(shape(oldest).columns, shape(k).columns)
    <3>1. Len(Columns(oldest)) < Len(Columns(k))
      BY <1>2, <2>4, ShorterIsShorter DEF Columns
    <3> QED
      BY <1>2, <1>5, <2>3, <3>1
  <2>5. CASE shape(oldest).columns = shape(k).columns /\ catalog[oldest].oid > catalog[k].oid
    <3>1. k \in Longest
      BY <2>3, <2>5 DEF Columns
    <3> QED
      BY <1>2, <1>6, <2>5, <3>1
  <2> QED
    BY <1>7, <2>4, <2>5 DEF Covers
<1>8. oldest \notin Redundant(got)
  BY <1>7 DEF Redundant
<1> QED
  BY <1>8

(* When every index is valid, what is called proven is what another covers. *)
LEMMA ProvenIsRedundant ==
  ASSUME \A n \in DOMAIN catalog : catalog[n].state = "valid"
  PROVE  Proven \subseteq Redundant(Sections) /\ Redundant(Sections) \subseteq Proven
<1>1. Invalid(Sections) = {} /\ "indexes" \in Sections
  BY DEF Invalid, Sections
<1>2. \A i : ClassifyStats(i, Sections) # "catalog_proven"
  BY DEF ClassifyStats
<1>3. ASSUME NEW n
      PROVE  n \in Proven <=> \E g \in Grades(Build(verdicts, Sections)) : g[1] = n /\ g[2] = "catalog_proven"
  <2>1. \A e : <<e.index, e.confidence, e.guard>>[1] = e.index /\ <<e.index, e.confidence, e.guard>>[2] = e.confidence
    OBVIOUS
  <2>2. ASSUME NEW e \in Build(verdicts, Sections)
        PROVE  <<e.index, e.confidence, e.guard>> \in Grades(Build(verdicts, Sections))
    BY DEF Grades
  <2>3. ASSUME n \in Proven
        PROVE  \E g \in Grades(Build(verdicts, Sections)) : g[1] = n /\ g[2] = "catalog_proven"
    <3>1. PICK e \in Build(verdicts, Sections) : e.confidence = "catalog_proven" /\ n = e.index
      BY <2>3 DEF Proven
    <3> QED
      BY <2>1, <2>2, <3>1
  <2>4. ASSUME NEW g \in Grades(Build(verdicts, Sections)), g[1] = n, g[2] = "catalog_proven"
        PROVE  n \in Proven
    <3>1. PICK e \in Build(verdicts, Sections) : g = <<e.index, e.confidence, e.guard>>
      BY DEF Grades
    <3> QED
      BY <2>1, <2>4, <3>1 DEF Proven
  <2> QED
    BY <2>3, <2>4
<1>4. ASSUME NEW n \in Proven
      PROVE  n \in Redundant(Sections)
  <2>1. PICK g \in Grades(Build(verdicts, Sections)) : g[1] = n /\ g[2] = "catalog_proven"
    BY <1>3
  <2>2. GradeOf(n, Sections) = "catalog_proven"
    BY <2>1, BuildGrades
  <2> QED
    BY <1>1, <1>2, <2>2 DEF GradeOf
<1>5. ASSUME NEW n \in Redundant(Sections)
      PROVE  n \in Proven
  <2>1. GradeOf(n, Sections) = "catalog_proven" /\ n \in Reported(Sections)
    BY <1>1 DEF GradeOf, Reported
  <2>2. <<n, GradeOf(n, Sections), Guard(GradeOf(n, Sections))>> \in Grades(Build(verdicts, Sections))
    BY <2>1, BuildGrades
  <2> QED
    BY <1>3, <2>1, <2>2
<1> QED
  BY <1>4, <1>5

(* Every index the report calls proven can be dropped, all of them at once: *)
(* a valid index that starts with its columns stays, provided none of the   *)
(* table is invalid (redundant_indexes.sql).                                *)
THEOREM DropsAreCovered == Spec => []DropsLeaveACover
<1>1. Init => Bounded
  BY DEF Init, Bounded
<1>2. Bounded => DropsLeaveACover
  <2> SUFFICES ASSUME Bounded, \A n \in DOMAIN catalog : catalog[n].state = "valid", NEW n \in Proven
               PROVE  \E m \in DOMAIN catalog \ Proven : Serves(catalog[m], catalog[n])
    BY DEF DropsLeaveACover
  <2>1. n \in Redundant(Sections)
    BY ProvenIsRedundant
  <2>2. PICK m \in DOMAIN catalog \ Redundant(Sections) : Plain(catalog[m]) /\ IsPrefix(Columns(n), Columns(m))
    BY <2>1, TopIsKept
  <2>3. m \in DOMAIN catalog \ Proven
    BY ProvenIsRedundant
  <2> QED
    BY <2>2, <2>3 DEF Serves, Columns
<1>3. IInv => TypeOK
  BY DEF IInv
<1> QED
  BY <1>1, <1>2, <1>3, Inductive, BoundedNext, PTL DEF Spec
=============================================================================
