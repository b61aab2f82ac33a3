------------------------------- MODULE WhyEngine -------------------------------
(***************************************************************************)
(* pgbot why (internal/why/onset.go and analyze.go): from the snapshots of  *)
(* a database, oldest first, the sustained slowdown of a query, the surge   *)
(* of sequential scans behind it.  Queries are analysed one by one, so a    *)
(* snapshot has one; its text names every table.                            *)
(*                                                                          *)
(* A snapshot is [at, query, tables]: the counters of the query and of each *)
(* table, with seen = FALSE when it is not among the top ones collected: a  *)
(* table seen in no snapshot is not looked at, as one without a series.     *)
(* A series maps the positions of snapshots to what was measured since the  *)
(* snapshot before; a position without a point is not in its domain.        *)
(* Values are integers: a mean per call or a rate is scaled by Scale, the   *)
(* mean of a series once more, which is exact up to 6 points, calls, ticks. *)
(***************************************************************************)
EXTENDS Integers, Sequences, SequencesExt

MinSnapshots == 4
Scale == 60
NoShift == [at |-> -1, before |-> 0, after |-> 0]
-----------------------------------------------------------------------------
(* onset.go: at least one point before the onset, and two from it on.       *)
Mean(series, points) == (Scale * SumFunctionOnSet(series, points)) \div Cardinality(points)
PointsUntil(series, i) == {j \in DOMAIN series : j < i}
PointsFrom(series, i) == {j \in DOMAIN series : j >= i}
Onsets(series) == {i \in DOMAIN series : PointsUntil(series, i) # {} /\ PointsFrom(series, i) # {i}}
ShiftAt(s, series, i) ==
    [at |-> s[i].at, before |-> Mean(series, PointsUntil(series, i)),
     after |-> Mean(series, PointsFrom(series, i))]
Raised(shift) == shift.after > shift.before /\ 2 * shift.after >= 3 * shift.before
Sustained(series, i, shift) ==
    \A j \in PointsFrom(series, i) : 2 * Scale * series[j] >= shift.before + shift.after
Shifts(s, series) ==
    {ShiftAt(s, series, i) : i \in {i \in Onsets(series) : Sustained(series, i, ShiftAt(s, series, i))}}
Rise(shift) == shift.after - shift.before
Steeper(shift, other) ==
    Rise(shift) > Rise(other) \/ (Rise(shift) = Rise(other) /\ shift.at <= other.at)
DetectShift(s, series) ==
    LET raised == {shift \in Shifts(s, series) : Raised(shift)}
    IN  IF raised = {} THEN NoShift
        ELSE CHOOSE shift \in raised : \A other \in raised : Steeper(shift, other)
-----------------------------------------------------------------------------
(* The series: a point for each interval between neighbouring snapshots     *)
(* that both have the object and whose counters make sense.                 *)
QuerySeen(s) == {i \in 2 .. Len(s) : s[i - 1].query.seen /\ s[i].query.seen}
(* A slip of QueryIntervalMeans: the mean of the counters' whole life.      *)
LifetimeMeans(s) ==
    [i \in {i \in QuerySeen(s) : s[i].query.calls > 0} |-> (Scale * s[i].query.ms) \div s[i].query.calls]

QueryIntervalMeans(s) ==
    LET calls(i) == s[i].query.calls - s[i - 1].query.calls
        ms(i) == s[i].query.ms - s[i - 1].query.ms
    IN  [i \in {i \in QuerySeen(s) : calls(i) > 0 /\ ms(i) >= 0} |-> (Scale * ms(i)) \div calls(i)]
TableSeen(s, t) == {i \in 2 .. Len(s) : s[i - 1].tables[t].seen /\ s[i].tables[t].seen}
TableSeqScanRates(s, t) ==
    LET scans(i) == s[i].tables[t].scans - s[i - 1].tables[t].scans
        seconds(i) == s[i].at - s[i - 1].at
    IN  [i \in {i \in TableSeen(s, t) : seconds(i) > 0 /\ scans(i) >= 0} |->
            (Scale * scans(i)) \div seconds(i)]
-----------------------------------------------------------------------------
(* querySlowdownChains for a table: the surge, if it is one and began no    *)
(* later than the symptom.                                                  *)
(* A slip of Mechanism: a surge after the slowdown explains it too.         *)
MechanismWhenever(s, symptom, t) == DetectShift(s, TableSeqScanRates(s, t))

NoLaterThan(symptom, surge) == IF surge.at > symptom.at THEN NoShift ELSE surge
Mechanism(s, symptom, t) == NoLaterThan(symptom, DetectShift(s, TableSeqScanRates(s, t)))

(* Analyze: no chain, or the one of the query.                              *)
NoChain == [symptom |-> NoShift]
QuerySlowdownChains(s, tables, symptom) ==
    IF symptom = NoShift THEN NoChain
    ELSE [symptom |-> symptom, causes |-> [t \in tables |-> Mechanism(s, symptom, t)]]
Analyze(s, tables) ==
    IF Len(s) < MinSnapshots THEN NoChain
    ELSE QuerySlowdownChains(s, tables, DetectShift(s, QueryIntervalMeans(s)))
=============================================================================
