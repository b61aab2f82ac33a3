----------------------------- MODULE WaitRollups -----------------------------
(***************************************************************************)
(* The wait_rollups of the baseline store (internal/store/waits.go), for    *)
(* one database: a function of the rows' keys [gran, bucket, class] to the  *)
(* samples.  A bucket is a tick, the minute of the code, or the first tick  *)
(* of an hour.                                                              *)
(***************************************************************************)
EXTENDS Naturals, FiniteSets, Functions

CONSTANTS Hour,         \* ticks of an hour
          KeepMinutes,  \* waitKeepMinutesFor
          KeepHours     \* waitKeepHoursFor
ASSUME RollupAssumption ==
    /\ Hour \in Nat \ {0} /\ KeepMinutes \in Nat /\ KeepHours \in Nat
    /\ KeepMinutes + Hour <= KeepHours

NoRows == [k \in {} |-> 0]
At(rows, k) == IF k \in DOMAIN rows THEN rows[k] ELSE 0
Key(gran, bucket, class) == [gran |-> gran, bucket |-> bucket, class |-> class]
HourOf(t) == (t \div Hour) * Hour

(* The upsert: what is inserted is added to what is there.                  *)
Upsert(rows, more) ==
    [k \in DOMAIN rows \cup DOMAIN more |-> At(rows, k) + At(more, k)]
-----------------------------------------------------------------------------
(* pruneWaits: the aged minutes are added to their hours and deleted, then  *)
(* the hours beyond the horizon are dropped.                                *)
Aged(rows, now) == {k \in DOMAIN rows : k.gran = "minute" /\ k.bucket + KeepMinutes < now}
Folded(rows, now) ==
    LET Into(k) == Key("hour", HourOf(k.bucket), k.class)
    IN  [h \in {Into(k) : k \in Aged(rows, now)} |->
            SumFunctionOnSet(rows, {k \in Aged(rows, now) : Into(k) = h})]
Dropped(rows, now) == {k \in DOMAIN rows : k.gran = "hour" /\ k.bucket + KeepHours < now}
Without(rows, keys) == [k \in DOMAIN rows \ keys |-> rows[k]]
(* A slip of PruneWaits: an hour that is there already is overwritten.      *)
PruneWaitsReplacing(rows, now) ==
    LET hours == Folded(rows, now)
        folded == Without(rows, Aged(rows, now) \cup DOMAIN hours)
    IN  Without(Upsert(folded, hours), Dropped(Upsert(folded, hours), now))

PruneWaits(rows, now) ==
    LET folded == Upsert(Without(rows, Aged(rows, now)), Folded(rows, now))
    IN  Without(folded, Dropped(folded, now))

(* SaveWaitProfile at a tick; a profile is the samples of each class and an *)
(* empty one is not saved.                                                  *)
SaveWaitProfile(rows, now, profile) ==
    LET some == {c \in DOMAIN profile : profile[c] > 0}
        more == [k \in {Key("minute", now, c) : c \in some} |-> profile[k.class]]
    IN  IF some = {} THEN rows ELSE PruneWaits(Upsert(rows, more), now)

(* ReadWaitShares: the samples of each class in the buckets of [from, to).  *)
ReadWaitShares(rows, classes, from, to) ==
    [c \in classes |-> SumFunctionOnSet(rows,
        {k \in DOMAIN rows : k.class = c /\ from <= k.bucket /\ k.bucket < to})]
=============================================================================
