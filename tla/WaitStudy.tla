------------------------------ MODULE WaitStudy ------------------------------
(***************************************************************************)
(* What pgbot waits and pgbot why --duration make of their samples          *)
(* (internal/collect/waitstudy.go and ash.go, internal/why/live.go and the  *)
(* conclusion of cmd/pgbot/waits.go).                                       *)
(*                                                                          *)
(* A study is [polls, failures, samples, snaps, sighted, victims, partial]: *)
(* the polls of the activity and those that failed, how often a session was *)
(* sampled in a wait class, the snapshots of the lock graph that succeeded, *)
(* in how many of them a session held a lock another waited for, and whom   *)
(* it kept waiting.  Shares are compared as fractions.                      *)
(***************************************************************************)
EXTENDS Naturals, FiniteSets, Functions

CONSTANTS Sessions,   \* active backends
          Holders     \* backends that hold a lock, idle in their transaction

Classes == {"CPU", "Client", "IO", "Lock"}
Alphabetical(c) == CASE c = "CPU" -> 1 [] c = "Client" -> 2 [] c = "IO" -> 3 [] c = "Lock" -> 4

WaitMinSamples == 20
SustainedObs == 3
CorroboratedObs == 2
HistMinSamples == 100
-----------------------------------------------------------------------------
(* ash.go: the profile is a share per class; a sampler whose polls all      *)
(* failed has none, an idle database has an empty one.                      *)
Count(st, c) == SumFunction([s \in Sessions |-> st.samples[s][c]])
Profile(st) == [c \in Classes |-> Count(st, c)]
Total(st) == SumFunction(Profile(st))
Available(st) == ~(st.polls > 0 /\ st.failures = st.polls)
TopClass(st) == CHOOSE c \in Classes : \A d \in Classes \ {c} :
    Count(st, c) > Count(st, d) \/ (Count(st, c) = Count(st, d) /\ Alphabetical(c) < Alphabetical(d))
Thin(st) == Total(st) < WaitMinSamples

(* blockerEvidence: a holder is named when it was seen often, or twice with *)
(* a victim that spent half of its samples waiting for locks.               *)
SessionTotal(st, s) == SumFunction(st.samples[s])
LockBound(st, s) == SessionTotal(st, s) > 0 /\ 2 * st.samples[s]["Lock"] >= SessionTotal(st, s)
(* A slip of Blockers: one glimpse is enough with such a victim.            *)
BlockersGlimpsed(st) == {h \in Holders :
    \/ st.sighted[h] >= SustainedObs
    \/ st.sighted[h] >= 1 /\ \E s \in st.victims[h] : LockBound(st, s)}

Blockers(st) == {h \in Holders :
    \/ st.sighted[h] >= SustainedObs
    \/ st.sighted[h] >= CorroboratedObs /\ \E s \in st.victims[h] : LockBound(st, s)}
(* The one reported first: seen most often, then the smaller pid.           *)
Foremost(st) == {h \in Blockers(st) : \A g \in Blockers(st) : st.sighted[h] >= st.sighted[g]}
-----------------------------------------------------------------------------
(* waitsConclusion, for pgbot waits.                                        *)
Concludes(st) ==
    CASE ~Available(st) -> "failed"
      [] Available(st) /\ Total(st) = 0 -> "idle"
      [] Available(st) /\ Total(st) > 0 /\ Thin(st) -> "thin"
      [] OTHER -> IF Blockers(st) # {} /\ TopClass(st) = "Lock" THEN "contention" ELSE TopClass(st)

(* ClassifyLive: the gates, then the causes, the first that holds.          *)
Covered(st) == 2 * (st.polls - st.failures) >= st.polls
(* The average of active sessions in hundredths, rounded half up.           *)
AAS(st) ==
    LET successful == st.polls - st.failures
    IN  IF successful > 0 THEN (200 * Total(st) + successful) \div (2 * successful) ELSE 0
Significant(st) == AAS(st) >= 50
AtLeast(st, c, hundredths) == 100 * Count(st, c) >= hundredths * Total(st)
Gate(st) ==
    IF ~Available(st) \/ Thin(st) \/ st.partial \/ ~Covered(st) THEN "insufficient_evidence"
    ELSE IF ~Significant(st) THEN "not_significant" ELSE "passed"
Diagnosis(st) ==
    CASE AtLeast(st, "Lock", 40) ->
             IF Blockers(st) # {} THEN "lock_contention" ELSE "lock_churn"
      [] ~AtLeast(st, "Lock", 40) /\ AtLeast(st, "IO", 40) -> "storage_wait"
      [] OTHER -> IF AtLeast(st, "Client", 50) THEN "client_wait"
                  ELSE IF AtLeast(st, "CPU", 60) THEN "cpu_saturated" ELSE "mixed"
Cause(st) == IF Gate(st) = "passed" THEN Diagnosis(st) ELSE Gate(st)

(* The confidence in hundredths and the note on history: hist is the counts *)
(* of the baseline, all 0 when there is none.                               *)
Lesser(a, b) == IF a < b THEN a ELSE b
OwnConfidence(st) ==
    LET seen == CHOOSE n \in {st.sighted[h] : h \in Foremost(st)} : TRUE
    IN  CASE Cause(st) = "lock_contention" -> 70 + Lesser(15, 3 * seen)
          [] Cause(st) \in {"storage_wait", "cpu_saturated"} -> 60
          [] Cause(st) = "client_wait" -> 55
          [] Cause(st) = "lock_churn" -> 40
          [] Cause(st) = "mixed" -> 35
          [] OTHER -> 0
HistTotal(hist) == SumFunction(hist)
Note(st, hist) ==
    LET top == TopClass(st)
        live == Count(st, top) * HistTotal(hist)
        base == hist[top] * Total(st)
    IN  IF Gate(st) # "passed" \/ HistTotal(hist) < HistMinSamples \/ base = 0 THEN "none"
        ELSE IF live >= 2 * base THEN "higher" ELSE IF 2 * live <= base THEN "lower" ELSE "none"
ClassifyLive(st, hist) ==
    [cause |-> Cause(st), note |-> Note(st, hist),
     confidence |-> IF Note(st, hist) = "higher" THEN Lesser(95, OwnConfidence(st) + 10)
                    ELSE OwnConfidence(st)]
=============================================================================
