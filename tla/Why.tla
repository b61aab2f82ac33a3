--------------------------------- MODULE Why ---------------------------------
(***************************************************************************)
(* The history pgbot why explains and the studies it compares with it: a    *)
(* database under a changing load, pgbot inspect storing a snapshot and its *)
(* wait profile, and pgbot waits or pgbot why --duration sampling the       *)
(* database for a while, from another terminal, and folding the counts into *)
(* the same store (cmd/pgbot/why.go, waits.go, inspect.go).                 *)
(*                                                                          *)
(* The clock counts ticks, longer than a study: a study sees at most one    *)
(* pass.  A database works only in a tick that ends in an inspection.       *)
(***************************************************************************)
EXTENDS WhyEngine, WaitStudy, WaitRollups, FiniteSetsExt, TLC

CONSTANTS Tables,       \* those the query names
          Loads,        \* what a database may do in a tick
          Starts,       \* [cmd, partial]: the studies somebody may start
          Polls,        \* what the polls of a stretch may find: the class of
                        \*   a session and in how many it is active
          Sightings,    \* what a lock snapshot may find: pairs victim, holder
          Hz,           \* polls of a second
          Seconds,      \* the clamped --duration
          Stretch,      \* bound: the load stays the same so many seconds
          MaxSnaps,     \* bound: lock snapshots of a study
          WhyWindow,    \* --window
          From, Ends,   \* the baseline of a study: 25 hours to 15 minutes ago
          MaxTime,      \* bound: the clock
          MaxIdle,      \* bound: ticks without an inspection
          MaxWork,      \* bound: inspections, a study counting as
          StudyWork     \*   this many
ExactWork == 720   \* so many means of Scale-d values are compared exactly
ASSUME WhyAssumption ==
    /\ {Hz, Seconds, Stretch, Ends} \subseteq Nat \ {0}
    /\ {WhyWindow, From, MaxSnaps} \subseteq Nat
    /\ Ends < From /\ From <= KeepMinutes /\ MaxTime \in Nat
    /\ MaxWork \in 0 .. ExactWork /\ StudyWork \in Nat
    /\ IsFiniteSet(Sessions) /\ IsFiniteSet(Holders)
    /\ Starts \subseteq [cmd : {"why", "waits"}, partial : BOOLEAN]
    /\ \A active \in Polls, s \in Sessions :
           s \in DOMAIN active => active[s].polls \in 1 .. Hz * Stretch
    /\ Loads \subseteq [calls : Nat, mean : Nat, rates : [Tables -> Nat], reset : BOOLEAN,
                        seen : BOOLEAN, listed : SUBSET Tables, waits : [Classes -> Nat]]

VARIABLES now, work,
          counters,  \* the counters of the query and of the tables
          history,   \* snapshots
          rollups,   \* wait_rollups
          study,     \* the study and how far it is
          hist,      \* the counts of its baseline
          truth,     \* for the properties: what each tick did,
          masked,    \*   whether a reset left no trace in the counters,
          saved      \*   and the samples saved in each tick
ghosts == <<truth, masked>>
whyVars == <<now, work, counters, history, rollups, study, hist, truth, masked, saved>>

NoCounts == [c \in Classes |-> 0]
NoStudy == [phase |-> "none", start |-> 0, cmd |-> "waits", partial |-> FALSE, polls |-> 0,
            failures |-> 0, samples |-> [s \in Sessions |-> NoCounts], snaps |-> 0,
            sighted |-> [h \in Holders |-> 0], victims |-> [h \in Holders |-> {}]]
WhyInit ==
    /\ now = 0 /\ work = 0
    /\ counters = [calls |-> 0, ms |-> 0, scans |-> [t \in Tables |-> 0]]
    /\ history = <<>> /\ rollups = NoRows
    /\ study = NoStudy /\ hist = NoCounts
    /\ truth = <<>> /\ masked = FALSE /\ saved = [t \in 0 .. MaxTime |-> NoCounts]
-----------------------------------------------------------------------------
(* A load is [calls, mean, rates, reset, seen, listed, waits]: a reset      *)
(* comes first; seen and listed say whether the query and which tables are  *)
(* among the top ones when the tick ends.                                   *)
Worked(load) ==
    LET base == IF load.reset
                THEN [counters EXCEPT !.calls = 0, !.ms = 0, !.scans = [t \in Tables |-> 0]] ELSE counters
    IN  [calls |-> base.calls + load.calls, ms |-> base.ms + load.calls * load.mean,
         scans |-> [t \in Tables |-> base.scans[t] + load.rates[t]]]
Masks(load, after) ==
    /\ load.reset /\ history # <<>>
    /\ \/ after.calls > counters.calls /\ after.ms >= counters.ms
       \/ \E t \in load.listed : Last(history).tables[t].seen /\ after.scans[t] >= counters.scans[t]
Snapshot(after, load) ==
    [at |-> now + 1, query |-> [seen |-> load.seen, calls |-> after.calls, ms |-> after.ms],
     tables |-> [t \in Tables |-> [seen |-> t \in load.listed, scans |-> after.scans[t]]]]
TickPasses ==
    /\ now < MaxTime
    /\ study.phase \in {"sampling", "sampled", "read"} => now = study.start
    /\ now' = now + 1
Folds(profile, at) ==
    /\ rollups' = SaveWaitProfile(rollups, at, profile)
    /\ saved' = [saved EXCEPT ![at] = [c \in Classes |-> @[c] + profile[c]]]

(* runBaseline of inspect.go: the snapshot and the profile are saved.       *)
Inspect(load) ==
    LET after == Worked(load)
    IN  /\ work < MaxWork /\ work' = work + 1 /\ TickPasses
        /\ counters' = after
        /\ history' = Append(history, Snapshot(after, load))
        /\ Folds(load.waits, now + 1)
        /\ masked' = (masked \/ Masks(load, after))
        /\ truth' = Append(truth, [load EXCEPT !.seen = /\ @ /\ load.calls > 0 /\ ~load.reset
                                       /\ history # <<>> /\ Last(history).query.seen])
        /\ UNCHANGED <<study, hist>>

(* Nothing happens for a tick.                                              *)
Idle ==
    /\ now - Len(history) < MaxIdle /\ TickPasses
    /\ truth' = Append(truth, [calls |-> 0, rates |-> [t \in Tables |-> 0], reset |-> FALSE,
                               seen |-> FALSE])
    /\ UNCHANGED <<work, counters, history, rollups, study, hist, masked, saved>>
-----------------------------------------------------------------------------
(* RunWaitStudy: two planes sample independently.  In a stretch the fast    *)
(* one polls Hz times a second; polls and snapshots that fail are dropped,  *)
(* of the polls those of a stretch together.                                *)
StartStudy(s) ==
    /\ study.phase = "none" /\ work + StudyWork <= MaxWork
    /\ work' = work + StudyWork
    /\ study' = [NoStudy EXCEPT !.phase = "sampling", !.start = now, !.cmd = s.cmd, !.partial = s.partial]
    /\ hist' = NoCounts
    /\ UNCHANGED <<now, counters, history, rollups, ghosts, saved>>
Samples(f) == study' = f /\ UNCHANGED <<now, work, counters, history, rollups, hist, ghosts, saved>>

MayPoll == study.phase = "sampling" /\ study.polls + Hz * Stretch <= Hz * Seconds
Poll(active) ==
    /\ MayPoll
    /\ Samples([study EXCEPT !.polls = @ + Hz * Stretch,
           !.samples = [s \in Sessions |-> [c \in Classes |-> @[s][c] +
               (IF s \in DOMAIN active /\ active[s].class = c THEN active[s].polls ELSE 0)]]])
PollFails == MayPoll /\ Samples([study EXCEPT !.polls = @ + Hz * Stretch, !.failures = @ + Hz * Stretch])

MaySight == study.phase = "sampling" /\ study.snaps < MaxSnaps
Sight(edges) ==
    LET Of(h) == {e[1] : e \in {d \in edges : d[2] = h}} IN
    /\ MaySight
    /\ Samples([study EXCEPT !.snaps = @ + 1,
           !.sighted = [h \in Holders |-> @[h] + (IF Of(h) = {} THEN 0 ELSE 1)],
           !.victims = [h \in Holders |-> @[h] \cup Of(h)]])
SightFails == MaySight /\ Samples([study EXCEPT !.snaps = @ + 1])

(* Ctrl+C ends a study early; both planes have sampled once by then.        *)
EndStudy ==
    /\ study.phase = "sampling" /\ study.polls > 0 /\ study.snaps > 0
    /\ Samples([study EXCEPT !.phase = "sampled"])
-----------------------------------------------------------------------------
(* runWhyLive reads the baseline before it folds this study in, runWaits    *)
(* has none; a store that does not open is neither read nor written.        *)
(* A slip of Baseline: the history up to now.                               *)
BaselineToNow == ReadWaitShares(rollups, Classes, now - From, now + 1)

Baseline == ReadWaitShares(rollups, Classes, now - From, now - Ends)
ReadBaseline(opens) ==
    /\ study.phase = "sampled" /\ study.cmd = "why"
    /\ study' = [study EXCEPT !.phase = IF opens THEN "read" ELSE "answered"]
    /\ hist' = IF opens THEN Baseline ELSE NoCounts
    /\ UNCHANGED <<now, work, counters, history, rollups, ghosts, saved>>
SaveStudy(saves) ==
    /\ \/ study.phase = "read"
       \/ study.phase = "sampled" /\ study.cmd = "waits"
    /\ study' = [study EXCEPT !.phase = "answered"]
    /\ IF saves /\ Available(study) THEN Folds(Profile(study), now) ELSE UNCHANGED <<rollups, saved>>
    /\ UNCHANGED <<now, work, counters, history, hist, ghosts>>

(* computeWhy: the snapshots within the window, which are the latest.       *)
Recent ==
    LET older == {i \in DOMAIN history : history[i].at < now - WhyWindow}
    IN  SubSeq(history, Cardinality(older) + 1, Len(history))
Chains == Analyze(Recent, Tables)
Answer == IF study.cmd = "why" THEN ClassifyLive(study, hist).cause ELSE Concludes(study)
-----------------------------------------------------------------------------
WhyNext ==
    \/ \E load \in Loads : Inspect(load)
    \/ Idle
    \/ \E s \in Starts : StartStudy(s)
    \/ \E active \in Polls : Poll(active)
    \/ PollFails
    \/ \E edges \in Sightings : Sight(edges)
    \/ SightFails
    \/ EndStudy
    \/ \E opens \in BOOLEAN : ReadBaseline(opens)
    \/ \E saves \in BOOLEAN : SaveStudy(saves)
WhySpec == WhyInit /\ [][WhyNext]_whyVars
-----------------------------------------------------------------------------
(* A reported slowdown happened: in every tick since its onset whose work   *)
(* the snapshots show whole, a call took at least a quarter longer than the *)
(* calls before it did on average.  A spike that came back, an eviction     *)
(* from the top queries and a reset the counters show are none.             *)
First == Recent[1].at
Reported == {chain \in {Chains} : chain # NoChain /\ ~masked}
Shown(a, b) == {t \in a .. b : truth[t].seen}
SlowdownIsReal ==
    \A chain \in Reported :
        LET onset == chain.symptom.at
            earlier == Shown(First + 1, onset - 1)
        IN  \A t \in Shown(onset, now) :
                4 * truth[t].mean * Cardinality(earlier) >= 5 * SumFunction([b \in earlier |-> truth[b].mean])

(* What is named as the mechanism was there when the slowdown began: the    *)
(* table has been scanned faster than before the surge in every interval    *)
(* since the onset of the slowdown at both of whose ends it was collected.  *)
(* Only the 30 largest tables are: what one did while it was not among them *)
(* nobody knows, and the engine leaves such an interval out.                *)
Scans(t, a, b) == SumFunction([k \in a .. b |-> truth[k].rates[t]])
CauseHoldsAtOnset ==
    \A chain \in Reported : \A t \in {t \in Tables : chain.causes[t] # NoShift} :
        \A i \in 2 .. Len(history) :
            LET a == history[i - 1].at + 1  b == history[i].at IN
            /\ b >= chain.symptom.at /\ \A k \in a .. b : ~truth[k].reset
            /\ history[i - 1].tables[t].seen /\ history[i].tables[t].seen
            =>
                Scale * Scale * Scans(t, a, b) > chain.causes[t].before * (b - a + 1)

(* Folding minutes into hours loses and invents no sample: an hour of the   *)
(* store that is not beyond the horizon has what was saved in it, and what  *)
(* is beyond it is gone.                                                    *)
LastSave ==
    LET saves == {0} \cup {t \in 0 .. MaxTime : saved[t] # NoCounts}
    IN  CHOOSE t \in saves : \A u \in saves : u <= t
SavedOf(c) == [t \in 0 .. MaxTime |-> saved[t][c]]
SavedIn(h, c) == SumFunctionOnSet(SavedOf(c), {t \in 0 .. MaxTime : HourOf(t) = h})
KeptIn(h, c) == SumFunctionOnSet(rollups,
                                 {k \in DOMAIN rollups : k.class = c /\ HourOf(k.bucket) = h})
WaitsConserved == \A h \in {HourOf(t) : t \in 0 .. MaxTime}, c \in Classes :
    KeptIn(h, c) = IF h + KeepHours < LastSave THEN 0 ELSE SavedIn(h, c)

(* A live diagnosis is never corroborated by the incident itself: whatever  *)
(* the baseline counts was sampled before the study began, by pgbot in this *)
(* terminal or in another.                                                  *)
BaselinePredatesStudy == \A c \in Classes :
    hist[c] <= SumFunctionOnSet(SavedOf(c), 0 .. study.start - 1)

(* A blocker is blamed only on evidence: a session is named as the cause of *)
(* lock contention when it was seen in two snapshots or more, from twenty   *)
(* samples on; a diagnosis needs a server that was wholly visible, half of  *)
(* the polls to have worked and half a session active in one of these, on   *)
(* average and to two decimals.                                             *)
BlameIsEarned ==
    study.phase = "answered" /\ Answer \in {"lock_contention", "contention"} =>
        /\ \A h \in Foremost(study) : study.sighted[h] >= 2
        /\ Foremost(study) # {} /\ Total(study) >= WaitMinSamples
        /\ study.cmd = "why" =>
              /\ ~study.partial /\ 2 * study.failures <= study.polls
              /\ 200 * Total(study) >= 99 * (study.polls - study.failures)
=============================================================================
