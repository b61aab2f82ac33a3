--------------------------- MODULE Sampling_proofs ---------------------------
(***************************************************************************)
(* What pgbot samples of a server it works on itself: CollectRun and Why.   *)
(*                                                                          *)
(* CollectRun: what runs side by side in a collection stays contained, and  *)
(* the rate it reports is the applications', for any collectors, limit and  *)
(* number of polls, commits and resets.  The second rests on a ledger:      *)
(* while the statistics are not reset, what the view shows and still owes   *)
(* is what it showed and owed at sample A, sample A itself, the             *)
(* applications' commits and the sampler's, those of failed polls in doubt. *)
(*                                                                          *)
(* Why: for any loads, studies, sessions and horizons, the wait rows lose   *)
(* and invent no sample, a study is never compared with itself and a        *)
(* blocker is named on evidence only.  The first two rest on what each row  *)
(* holds, in closed form, as a sum of the samples saved; so they start with *)
(* the sum of a function over a finite set, which the library defines by    *)
(* recursion over the set.  A reported slowdown happened, and its cause was *)
(* there when it began: that rests on what two neighbouring snapshots tell  *)
(* of the load between them, and on what a rounded mean says of a sum.      *)
(***************************************************************************)
EXTENDS CollectRun, Why, FiniteSetTheorems, SequenceTheorems, WellFoundedInduction, TLAPS

Phases == {"phase1", "phase2"}
Joined ==
    /\ sampler \in Polling => pc \in Window
    /\ pc \notin Phases => running = {}
Blame ==
    /\ ctx \in {"live", "done"} /\ (ctx = "live" => gctx = "live")
    /\ DOMAIN res = Collectors
    /\ \A c \in Collectors : res[c] = "error" /\ ctx = "live" => c \in hurt
ContainedInv == Joined /\ Blame

(* A collection that starts has nothing running and nobody to blame.        *)
LEMMA ContainedInit == Init => ContainedInv
  BY DEF Init, ContainedInv, Joined, Blame, Polling, Phases

(* Every step of the collection, its collectors and its sampler keeps them  *)
(* contained.                                                               *)
LEMMA ContainedNext == ContainedInv /\ [Next]_vars => ContainedInv'
<1> SUFFICES ASSUME ContainedInv, [Next]_vars
             PROVE  ContainedInv'
  OBVIOUS
<1> USE DEF ContainedInv, Joined, Blame, Polling, Phases, Window, run, server
<1>1. ASSUME NEW c \in Collectors, Launch(c)
      PROVE  ContainedInv'
  BY <1>1 DEF Launch
<1>2. ASSUME NEW c \in Collectors, Sampled(c)
      PROVE  ContainedInv'
  BY <1>2 DEF Sampled
<1>3. ASSUME NEW c \in Collectors, Fails(c)
      PROVE  ContainedInv'
  BY <1>3 DEF Fails
<1>4. CASE Phase
  <2>1. CASE EndPhase1
    BY <2>1 DEF EndPhase1
  <2>2. CASE SampleA
    BY <2>2 DEF SampleA
  <2>3. CASE IntervalPasses \/ GiveUp \/ Leave
    BY <2>3 DEF IntervalPasses, GiveUp, Leave
  <2>4. CASE SampleB
    BY <2>4 DEF SampleB
  <2>5. CASE StartPhase2
    BY <2>5 DEF StartPhase2
  <2>6. CASE Assemble
    BY <2>6 DEF Assemble
  <2> QED
    BY <1>4, <2>1, <2>2, <2>3, <2>4, <2>5, <2>6 DEF Phase
<1>5. CASE PollEnds \/ PollStarts \/ SamplerEnds
  BY <1>5 DEF PollEnds, PollStarts, SamplerEnds
<1>6. CASE Deadline
  BY <1>6 DEF Deadline
<1>7. CASE AppCommit \/ LateReport \/ Reset
  BY <1>7 DEF AppCommit, LateReport, Reset
<1>8. CASE UNCHANGED vars
  BY <1>8 DEF vars
<1> QED
  BY <1>1, <1>2, <1>3, <1>4, <1>5, <1>6, <1>7, <1>8 DEF Next
-----------------------------------------------------------------------------
Sample == [ok : BOOLEAN, commits : Nat, epoch : Nat, late : Nat, apps : Nat]
Types ==
    /\ stat \in [commits : Nat, epoch : Nat] /\ late \in Nat /\ apps \in Nat
    /\ polls \in [attempts : Nat, failures : Nat]
    /\ hA \in Sample /\ hB \in Sample

Before == {"phase1", "sample A"}
InFlight == IF sampler = "poll" THEN 1 ELSE 0
Places ==
    /\ pc \in Before => hA = NoSample /\ sampler = "off" /\ polls.attempts = 0 /\ polls.failures = 0
    /\ polls.failures + InFlight <= polls.attempts
    /\ pc \in Before \cup Window => ~hB.ok
    /\ pc \notin Returned => health.kind = "none"

(* s shows and owes what A did, and what happened since.                    *)
Adds(commits, owed, done) ==
    LET own == polls.attempts - polls.failures - InFlight
        since == commits + owed - (hA.commits + hA.late + 1 + done)
    IN  own <= since /\ since <= own + polls.failures
Ledger ==
    /\ pc \in Window /\ hA.ok /\ stat.epoch = hA.epoch =>
          stat.commits >= hA.commits /\ Adds(stat.commits, late, apps)
    /\ pc \in Window => stat.epoch >= hA.epoch
    /\ hA.ok /\ hB.ok /\ hB.epoch = hA.epoch =>
          hB.commits >= hA.commits /\ Adds(hB.commits, hB.late, hB.apps)
RateInv == Joined /\ Types /\ Places /\ Ledger /\ RateIsHonest

(* Before anything is sampled the ledger is empty.                          *)
LEMMA RateInit == Init => RateInv
  BY DEF Init, RateInv, Joined, Types, Places, Ledger, RateIsHonest, ThroughputBounds, ResetExactlyThen,
         Sample, NoSample, Before, InFlight, Window, Polling, Phases, Returned, Adds

(* The rate that Assemble makes of two samples that the ledger relates.     *)
LEMMA AssembledIsHonest ==
  ASSUME RateInv, Assemble
  PROVE  RateIsHonest'
<1>1. CASE opts.schemaOnly
  BY <1>1 DEF Assemble, RateIsHonest, ThroughputBounds, ResetExactlyThen
<1>2. CASE ~(hA.ok /\ hB.ok) /\ ~opts.schemaOnly
  BY <1>2 DEF Assemble, Health, RateIsHonest, ThroughputBounds, ResetExactlyThen
<1>3. CASE hA.ok /\ hB.ok /\ ~opts.schemaOnly
  <2>1. InFlight = 0 /\ UNCHANGED <<hA, hB, polls>>
    BY DEF Assemble, RateInv, Joined, Polling, Window, InFlight
  <2>2. hA.commits \in Nat /\ hB.commits \in Nat /\ polls.attempts \in Nat /\ polls.failures \in Nat
        /\ hA.late \in Nat /\ hB.late \in Nat /\ hB.apps \in Nat
    BY DEF RateInv, Types, Sample
  <2>3. CASE hA.epoch # hB.epoch
    BY <1>3, <2>1, <2>3 DEF Assemble, Health, EpochChanged, RateIsHonest, ThroughputBounds, ResetExactlyThen
  <2>4. CASE hA.epoch = hB.epoch
    <3>1. /\ hB.commits >= hA.commits /\ Adds(hB.commits, hB.late, hB.apps)
          /\ polls.failures <= polls.attempts
      <4>1. polls.failures + InFlight <= polls.attempts
        BY DEF RateInv, Places
      <4>2. hB.commits >= hA.commits /\ Adds(hB.commits, hB.late, hB.apps)
        BY <1>3, <2>4 DEF RateInv, Ledger
      <4> QED
        BY <4>1, <4>2, <2>1, <2>2
    <3>2. CommitsB(OwnTxns) \in Nat /\ CommitsB(OwnTxns) >= hA.commits
      BY <2>2, <3>1 DEF CommitsB, OwnTxns
    <3>3. health' = [kind |-> "sampled", commits |-> CommitsB(OwnTxns) - hA.commits]
      BY <1>3, <2>2, <2>4, <3>2 DEF Assemble, Health, EpochChanged
    <3>4. hA.late = 0 /\ hB.late = 0 =>
             /\ hB.apps <= CommitsB(OwnTxns) - hA.commits
             /\ CommitsB(OwnTxns) - hA.commits <= hB.apps + polls.failures + 1
      BY <2>1, <2>2, <3>1 DEF Adds, CommitsB, OwnTxns
    <3> QED
      BY <2>1, <2>4, <3>3, <3>4 DEF RateIsHonest, ThroughputBounds, ResetExactlyThen
  <2> QED
    BY <2>3, <2>4
<1> QED
  BY <1>1, <1>2, <1>3

(* A commit of pgbot's is in the view or owed to it.                        *)
LEMMA OwnCommitAdds ==
  ASSUME stat \in [commits : Nat, epoch : Nat], late \in Nat, OwnCommit
  PROVE  /\ stat' \in [commits : Nat, epoch : Nat] /\ late' \in Nat
         /\ stat'.epoch = stat.epoch /\ stat'.commits >= stat.commits
         /\ stat'.commits + late' = stat.commits + late + 1
<1>1. CASE stat' = [stat EXCEPT !.commits = @ + 1] /\ UNCHANGED late
  BY <1>1
<1>2. CASE late' = late + 1 /\ UNCHANGED stat
  BY <1>2
<1> QED
  BY <1>1, <1>2 DEF OwnCommit

(* Every step keeps the ledger balanced, and an assembled rate honest.      *)
LEMMA RateNext == ContainedInv' /\ RateInv /\ [Next]_vars => RateInv'
<1> SUFFICES ASSUME ContainedInv', RateInv, [Next]_vars
             PROVE  RateInv'
  OBVIOUS
<1>0. Joined' /\ Joined /\ Types /\ Places /\ Ledger /\ RateIsHonest
  BY DEF ContainedInv, RateInv
<1>f. /\ stat.commits \in Nat /\ stat.epoch \in Nat /\ late \in Nat /\ apps \in Nat
      /\ polls.attempts \in Nat /\ polls.failures \in Nat
      /\ hA.commits \in Nat /\ hA.epoch \in Nat /\ hA.late \in Nat
      /\ hB.commits \in Nat /\ hB.epoch \in Nat /\ hB.late \in Nat /\ hB.apps \in Nat
      /\ hA.ok \in BOOLEAN /\ hB.ok \in BOOLEAN
  BY <1>0 DEF Types, Sample
<1>q. Types' /\ Places' /\ Ledger' /\ RateIsHonest' => RateInv'
  BY <1>0 DEF RateInv
<1>u. UNCHANGED <<health, hA, hB, polls, stat, late, apps>> /\ UNCHANGED sampler
        /\ (pc' = pc \/ (pc' \in Before /\ pc \in Before) \/ pc' \notin Before \cup Window
                     \/ (pc' \in Window /\ pc \in Window))
        /\ (pc' \notin Returned => pc \notin Returned)
      => RateInv'
  BY <1>0, <1>q DEF Types, Places, Ledger, RateIsHonest, ThroughputBounds, ResetExactlyThen, Adds, InFlight,
       Before, Window
<1>r. UNCHANGED health /\ pc \notin Returned => RateIsHonest'
  BY <1>0 DEF Places, RateIsHonest, ThroughputBounds, ResetExactlyThen
<1>1. CASE \E c \in Collectors : Launch(c) \/ Fails(c)
  BY <1>1, <1>u DEF Launch, Fails, server
<1>2. ASSUME NEW c \in Collectors, Sampled(c)
      PROVE  RateInv'
  <2>1. pc \in Phases /\ pc' = pc /\ UNCHANGED <<health, hA, hB, polls, apps, sampler>>
    BY <1>2, <1>0 DEF Sampled, Joined
  <2>2. Types'
    BY <1>2, <1>0, <2>1, OwnCommitAdds DEF Types, Sampled
  <2>3. Places' /\ Ledger'
    BY <1>0, <2>1 DEF Places, Ledger, Adds, InFlight, Phases, Window
  <2> QED
    BY <1>q, <1>r, <2>1, <2>2, <2>3 DEF Phases, Returned
<1>3. CASE EndPhase1
  BY <1>3, <1>u DEF EndPhase1, server, Before, Window, Returned
<1>4. CASE IntervalPasses \/ GiveUp \/ Leave \/ StartPhase2
  BY <1>4, <1>u DEF IntervalPasses, GiveUp, Leave, StartPhase2, server, Before, Window, Returned
<1>5. CASE SampleA
  <2>1. /\ pc = "sample A" /\ pc' = "wait" /\ UNCHANGED <<hB, health>> /\ apps' = 0
        /\ hA = NoSample /\ ~hB.ok /\ polls.failures = 0 /\ polls.attempts = 0
    BY <1>5, <1>0 DEF SampleA, Places, Before
  <2>2. /\ polls' \in [attempts : Nat, failures : Nat] /\ polls'.failures = 0
        /\ polls'.attempts = InFlight' /\ InFlight' \in Nat
    BY <1>5, <1>0, <2>1 DEF SampleA, Types, InFlight
  <2>3. Places' /\ RateIsHonest'
    <3>1. pc' \notin Before /\ pc \notin Returned /\ pc' \notin Returned
      BY <2>1 DEF Before, Returned
    <3>2. polls'.failures + InFlight' <= polls'.attempts
      <4> DEFINE n == InFlight'
      <4>1. n \in Nat /\ polls'.failures = 0 /\ polls'.attempts = n
        BY <2>2
      <4> HIDE DEF n
      <4>2. polls'.failures + n <= polls'.attempts
        BY <4>1
      <4> QED
        BY <4>2 DEF n
    <3> QED
      BY <2>1, <3>1, <3>2, <1>0, <1>r DEF Places
  <2>4. CASE UNCHANGED <<hA, stat, late>>
    <3>1. Types'
      BY <1>0, <2>1, <2>2, <2>4 DEF Types
    <3>2. ~hA'.ok /\ hA'.epoch = 0 /\ stat'.epoch \in Nat
      BY <1>f, <2>1, <2>4 DEF NoSample
    <3>3. Ledger'
      BY <3>2 DEF Ledger
    <3> QED
      BY <1>q, <2>3, <3>1, <3>3
  <2>5. CASE /\ hA' = [ok |-> TRUE, commits |-> stat.commits, epoch |-> stat.epoch, late |-> late, apps |-> 0]
             /\ OwnCommit
    <3>1. /\ stat' \in [commits : Nat, epoch : Nat] /\ late' \in Nat
          /\ stat'.epoch = stat.epoch /\ stat'.commits >= stat.commits
          /\ stat'.commits + late' = stat.commits + late + 1
      BY <1>0, <2>5, OwnCommitAdds DEF Types
    <3>2. hA' \in Sample
      BY <1>f, <2>5 DEF Sample
    <3>3. Types'
      BY <1>0, <2>1, <2>2, <3>1, <3>2 DEF Types
    <3>4. hA'.commits = stat.commits /\ hA'.epoch = stat.epoch /\ hA'.late = late
      BY <2>5
    <3>5. stat'.commits \in Nat /\ late' \in Nat
      BY <3>1
    <3>6. Ledger'
      <4> DEFINE n == InFlight'
                 e == stat'.epoch
                 v == stat'.commits
                 w == stat'.commits + late' - (hA'.commits + hA'.late + 1 + apps')
      <4>1. n \in Nat /\ polls'.failures = 0 /\ polls'.attempts = n /\ w = 0
            /\ e \in Nat /\ hA'.epoch = e /\ hA'.commits \in Nat /\ v \in Nat /\ v >= hA'.commits
        <5>1. n \in Nat /\ polls'.failures = 0 /\ polls'.attempts = n
          BY <2>2
        <5>2. e \in Nat /\ hA'.epoch = e
          BY <1>f, <3>1, <3>4
        <5>3. hA'.commits \in Nat /\ v \in Nat /\ v >= hA'.commits
          BY <1>f, <3>1, <3>4, <3>5
        <5>4. w = 0
          <6>1. w = stat'.commits + late' - (stat.commits + late + 1 + 0)
            BY <2>1, <3>4
          <6>2. stat'.commits + late' = stat.commits + late + 1
            BY <3>1
          <6> HIDE DEF w
          <6> QED
            BY <6>1, <6>2, <1>f, <3>5
        <5> QED
          BY <5>1, <5>2, <5>3, <5>4
      <4>3. polls'.attempts - polls'.failures - n = 0 /\ 0 + polls'.failures = 0
        <5> HIDE DEF n
        <5> QED
          BY <4>1
      <4>4. Adds(stat.commits, late, apps)'
        <5> HIDE DEF w
        <5>1. 0 <= w /\ w <= 0
          BY <4>1
        <5> QED
          BY <4>1, <4>3, <5>1 DEF Adds, n, w
      <4>5. e >= hA'.epoch
        <5> HIDE DEF e
        <5> QED
          BY <4>1
      <4> QED
        BY <4>1, <4>4, <4>5, <2>1 DEF Ledger
    <3> QED
      BY <1>q, <2>3, <3>3, <3>6
  <2> QED
    BY <1>5, <2>4, <2>5 DEF SampleA
<1>6. CASE SampleB
  <2>1. pc = "join" /\ pc' = "window closed" /\ UNCHANGED <<hA, health, apps, polls, sampler>>
    BY <1>6 DEF SampleB
  <2>2. Places' /\ RateIsHonest' /\ InFlight' = InFlight
    BY <2>1, <1>0, <1>r DEF Places, Before, Window, Returned, InFlight
  <2>3. CASE UNCHANGED <<hB, stat, late>>
    <3>1. Types' /\ Ledger'
      BY <1>0, <2>1, <2>3 DEF Types, Places, Ledger, Window
    <3> QED
      BY <1>q, <2>2, <3>1
  <2>4. CASE /\ hB' = [ok |-> TRUE, commits |-> stat.commits, epoch |-> stat.epoch,
                       late |-> late, apps |-> apps]
             /\ OwnCommit
    <3>1. stat' \in [commits : Nat, epoch : Nat] /\ late' \in Nat
      BY <1>0, <2>4, OwnCommitAdds DEF Types
    <3>2. hB' \in Sample
      BY <1>f, <2>4 DEF Sample
    <3>3. Types'
      BY <1>0, <2>1, <3>1, <3>2 DEF Types
    <3>4. hB'.commits = stat.commits /\ hB'.epoch = stat.epoch /\ hB'.late = late /\ hB'.apps = apps
      BY <2>4
    <3>5. Ledger'
      BY <1>0, <2>1, <2>2, <3>4 DEF Ledger, Adds, Window
    <3> QED
      BY <1>q, <2>2, <3>3, <3>5
  <2> QED
    BY <1>6, <2>3, <2>4 DEF SampleB
<1>7. CASE Assemble
  <2>1. RateIsHonest'
    BY <1>7, AssembledIsHonest
  <2>2. Types' /\ Places' /\ Ledger'
    BY <1>7, <1>0 DEF Assemble, server, Types, Places, Ledger, Adds, InFlight, Before, Window, Returned
  <2> QED
    BY <1>q, <2>1, <2>2
<1>8. CASE PollEnds
  <2>1. /\ sampler = "poll" /\ sampler' = "rest" /\ pc \in Window /\ pc' = pc
        /\ UNCHANGED <<hA, hB, health, apps>> /\ InFlight = 1 /\ InFlight' = 0
    BY <1>8, <1>0 DEF PollEnds, Joined, Polling, InFlight, run
  <2>2. ~hB.ok /\ pc \notin Before /\ RateIsHonest' /\ polls.failures + 1 <= polls.attempts
    BY <2>1, <1>0, <1>r DEF Places, Before, Window, Returned
  <2>3. /\ polls' \in [attempts : Nat, failures : Nat] /\ polls'.attempts = polls.attempts
        /\ polls'.failures \in {polls.failures, polls.failures + 1}
    BY <1>8, <1>0, <1>f DEF PollEnds, Types
  <2>4. /\ stat' \in [commits : Nat, epoch : Nat] /\ late' \in Nat
        /\ stat'.epoch = stat.epoch /\ stat'.commits >= stat.commits
        /\ \/ stat'.commits + late' = stat.commits + late + 1
           \/ stat'.commits + late' = stat.commits + late /\ polls'.failures = polls.failures + 1
    BY <1>8, <1>0, <1>f, OwnCommitAdds DEF PollEnds, Types
  <2>5. stat'.commits \in Nat /\ late' \in Nat /\ polls'.failures \in Nat
    BY <2>3, <2>4
  <2>6. Types' /\ Places'
    BY <1>0, <1>f, <2>1, <2>2, <2>3, <2>4 DEF Types, Places
  <2>7. Ledger'
    BY <1>0, <1>f, <2>1, <2>2, <2>3, <2>4, <2>5 DEF Ledger, Adds
  <2> QED
    BY <1>q, <2>2, <2>6, <2>7
<1>9. CASE PollStarts
  <2>1. /\ sampler = "rest" /\ pc \in Window /\ pc' = pc
        /\ UNCHANGED <<hA, hB, health, apps, stat, late>> /\ InFlight = 0 /\ InFlight' = 1
    BY <1>9, <1>0 DEF PollStarts, Joined, Polling, InFlight, run, server
  <2>2. ~hB.ok /\ pc \notin Before /\ RateIsHonest' /\ polls.failures <= polls.attempts
    <3>1. ~hB.ok /\ polls.failures + InFlight <= polls.attempts
      BY <2>1, <1>0 DEF Places
    <3>2. pc \notin Before /\ pc \notin Returned
      BY <2>1 DEF Before, Window, Returned
    <3> QED
      BY <2>1, <3>1, <3>2, <1>f, <1>r
  <2>3. /\ polls' \in [attempts : Nat, failures : Nat] /\ polls'.attempts = polls.attempts + 1
        /\ polls'.failures = polls.failures
    BY <1>9, <1>0, <1>f DEF PollStarts, Types
  <2>4. Types' /\ Places'
    BY <1>0, <1>f, <2>1, <2>2, <2>3 DEF Types, Places
  <2>5. Ledger'
    BY <1>0, <1>f, <2>1, <2>2, <2>3 DEF Ledger, Adds
  <2> QED
    BY <1>q, <2>2, <2>4, <2>5
<1>10. CASE SamplerEnds
  <2>1. /\ UNCHANGED <<run, polls, hA, hB, health, server>> /\ InFlight = 0 /\ InFlight' = 0 /\ pc \in Window
    BY <1>10, <1>0 DEF SamplerEnds, InFlight, Joined, Polling
  <2>2. Types' /\ Places' /\ Ledger' /\ RateIsHonest'
    BY <2>1, <1>0, <1>r DEF run, server, Types, Places, Ledger, Adds, Before, Window, Returned
  <2> QED
    BY <1>q, <2>2
<1>11. CASE Deadline
  BY <1>11, <1>u DEF Deadline, server
<1>12. CASE AppCommit \/ LateReport \/ Reset
  <2>1. /\ UNCHANGED <<hA, hB, health, polls, sampler>> /\ pc' = pc /\ InFlight' = InFlight
        /\ pc \in Window \cup Before
    BY <1>12 DEF AppCommit, LateReport, Reset, InFlight, run, Before
  <2>2. ~hB.ok /\ RateIsHonest' /\ Places'
    BY <2>1, <1>0, <1>r DEF Places, Before, Window, Returned
  <2>3. CASE AppCommit
    <3>1. /\ stat' = [stat EXCEPT !.commits = @ + 1] /\ apps' = apps + 1 /\ late' = late
      BY <2>3 DEF AppCommit
    <3>2. stat'.commits = stat.commits + 1 /\ stat'.epoch = stat.epoch
      BY <3>1, <1>0 DEF Types
    <3>3. Types'
      BY <1>0, <1>f, <2>1, <3>1 DEF Types
    <3>4. Ledger'
      <4>1. Adds(stat.commits, late, apps) => Adds(stat.commits, late, apps)'
        BY <1>f, <2>1, <3>1, <3>2 DEF Adds
      <4>2. ~hB'.ok /\ stat'.epoch = stat.epoch /\ stat'.commits = stat.commits + 1
        BY <2>1, <2>2, <3>2
      <4> QED
        BY <4>1, <4>2, <2>1, <1>0, <1>f DEF Ledger
    <3> QED
      BY <1>q, <2>2, <3>3, <3>4
  <2>4. CASE LateReport
    <3>1. /\ stat' = [stat EXCEPT !.commits = @ + late] /\ late' = 0 /\ apps' = apps
      BY <2>4 DEF LateReport
    <3>2. stat'.commits = stat.commits + late /\ stat'.epoch = stat.epoch
      BY <3>1, <1>0 DEF Types
    <3>3. Types'
      BY <1>0, <1>f, <2>1, <3>1 DEF Types
    <3>4. Ledger'
      BY <1>0, <1>f, <2>1, <2>2, <3>1, <3>2 DEF Ledger, Adds
    <3> QED
      BY <1>q, <2>2, <3>3, <3>4
  <2>5. CASE Reset
    <3>1. /\ stat' = [commits |-> 0, epoch |-> stat.epoch + 1] /\ late' = late /\ apps' = apps
      BY <2>5 DEF Reset
    <3>2. Types'
      BY <1>0, <1>f, <2>1, <3>1 DEF Types
    <3>3. pc \in Window /\ stat'.epoch = stat.epoch + 1
      BY <2>5, <3>1 DEF Reset
    <3>4. Ledger'
      BY <1>0, <1>f, <2>1, <2>2, <3>3 DEF Ledger
    <3> QED
      BY <1>q, <2>2, <3>2, <3>4
  <2> QED
    BY <1>12, <2>3, <2>4, <2>5
<1>13. CASE UNCHANGED vars
  BY <1>13, <1>u DEF vars, run, server
<1> QED
  BY <1>1, <1>2, <1>3, <1>4, <1>5, <1>6, <1>7, <1>8, <1>9, <1>10, <1>11, <1>12, <1>13 DEF Next, Phase
-----------------------------------------------------------------------------
(* The sampler is alone in the window, a failure costs its own section, and *)
(* a run that returned has nothing left running (Run, runner.go).           *)
THEOREM CollectionIsContained == Spec => []Contained
<1>1. ContainedInv => Contained
  BY DEF ContainedInv, Joined, Blame, Contained, SamplerAlone, FailsAlone, JoinedOnReturn, Window, Phases,
         Returned, Polling
<1> QED
  BY <1>1, ContainedInit, ContainedNext, PTL DEF Spec

(* The rate reported is the applications', and there is none only after a   *)
(* reset of the statistics (Assemble of the health collector).              *)
THEOREM RateHolds == Spec => []RateIsHonest
<1>1. RateInv => RateIsHonest
  BY DEF RateInv
<1> QED
  BY <1>1, ContainedInit, ContainedNext, RateInit, RateNext, PTL DEF Spec
-----------------------------------------------------------------------------
(* The order of the naturals.                                               *)
Below == {p \in Nat \X Nat : p[1] < p[2]}

(* The naturals are well ordered.                                           *)
LEMMA LeastNatural ==
  ASSUME NEW T \in SUBSET Nat, T # {}
  PROVE  \E m \in T : \A n \in T : m <= n
<1>1. IsWellFoundedOn(Below, Nat)
  BY NatLessThanWellFounded, Zenon DEF OpToRel, Below
<1>2. PICK m \in T : \A n \in T : ~ (<<n, m>> \in Below)
  BY <1>1, WFMin, Zenon
<1>3. \A n \in T : ~ (n < m)
  BY <1>2 DEF Below
<1> QED
  BY <1>3, SMT

(* A family of finite sets that has a set whenever it has its proper        *)
(* subsets has them all.                                                    *)
LEMMA SmallestMissing ==
  ASSUME NEW S, IsFiniteSet(S), NEW F \in SUBSET (SUBSET S), S \notin F
  PROVE  \E A \in (SUBSET S) \ F : \A B \in SUBSET A : B # A => B \in F
<1> DEFINE T == {Cardinality(A) : A \in (SUBSET S) \ F}
<1>1. \A A \in SUBSET S : IsFiniteSet(A) /\ Cardinality(A) \in Nat
  BY FS_Subset, FS_CardinalityType
<1>2. T \in SUBSET Nat /\ T # {}
  BY <1>1
<1>3. PICK m \in T : \A n \in T : m <= n
  BY <1>2, LeastNatural
<1>4. PICK A \in (SUBSET S) \ F : Cardinality(A) = m
  BY <1>3
<1>5. ASSUME NEW B \in SUBSET A, B # A
      PROVE  B \in F
  <2>1. Cardinality(B) < Cardinality(A) /\ Cardinality(B) \in Nat
    BY <1>1, <1>5, FS_Subset, FS_CardinalityType
  <2> QED
    BY <1>2, <1>3, <1>4, <2>1
<1> QED
  BY <1>4, <1>5

(* A sum is what its recursion computes.                                    *)
Some(s) == CHOOSE x \in s : TRUE
SumsTo(g, f, S) ==
  g = [s \in SUBSET S |-> IF s = {} THEN 0 ELSE f[Some(s)] + g[s \ {Some(s)}]]

(* Two recursions that sum the same function agree where both are defined.  *)
LEMMA SumsAgree ==
  ASSUME NEW A, IsFiniteSet(A), NEW B, A \in SUBSET B, NEW f, NEW g, NEW h,
         SumsTo(g, f, A), SumsTo(h, f, B)
  PROVE  g[A] = h[A]
<1> DEFINE F == {s \in SUBSET A : g[s] = h[s]}
<1> SUFFICES ASSUME A \notin F
             PROVE  FALSE
  OBVIOUS
<1>1. PICK s \in (SUBSET A) \ F : \A r \in SUBSET s : r # s => r \in F
  <2>1. F \in SUBSET (SUBSET A)
    OBVIOUS
  <2> HIDE DEF F
  <2> QED
    BY <2>1, SmallestMissing
<1>2. /\ g[s] = IF s = {} THEN 0 ELSE f[Some(s)] + g[s \ {Some(s)}]
      /\ h[s] = IF s = {} THEN 0 ELSE f[Some(s)] + h[s \ {Some(s)}]
  <2>1. s \in SUBSET B
    OBVIOUS
  <2> QED
    BY <2>1 DEF SumsTo
<1>3. s # {} => Some(s) \in s
  BY DEF Some
<1>4. s # {} => s \ {Some(s)} \in F
  BY <1>1, <1>3
<1> QED
  BY <1>2, <1>4

(* There is a function that sums over every subset of a finite set.         *)
LEMMA SumExists ==
  ASSUME NEW S, IsFiniteSet(S), NEW f
  PROVE  \E g : SumsTo(g, f, S)
<1> DEFINE F == {s \in SUBSET S : \E g : SumsTo(g, f, s)}
           N(s) == (CHOOSE g : SumsTo(g, f, s))[s]
<1> SUFFICES ASSUME S \notin F
             PROVE  FALSE
  OBVIOUS
<1>1. PICK s \in (SUBSET S) \ F : \A r \in SUBSET s : r # s => r \in F
  <2>1. F \in SUBSET (SUBSET S)
    OBVIOUS
  <2> HIDE DEF F
  <2> QED
    BY <2>1, SmallestMissing
<1> DEFINE h == [r \in SUBSET s |-> IF r = {} THEN 0 ELSE f[Some(r)] + N(r \ {Some(r)})]
<1>2. \A r \in SUBSET s : r # {} => Some(r) \in r
  BY DEF Some
<1>3. ASSUME NEW r \in SUBSET s, r # s
      PROVE  h[r] = N(r)
  <2> DEFINE g == CHOOSE g : SumsTo(g, f, r)
  <2>1. SumsTo(g, f, r)
    BY <1>1, <1>3
  <2>2. CASE r = {}
    BY <2>1, <2>2 DEF SumsTo
  <2>3. CASE r # {}
    <3> DEFINE q == r \ {Some(r)}
               k == CHOOSE k : SumsTo(k, f, q)
    <3>1. q \in SUBSET r /\ q # s /\ q \in SUBSET s
      BY <1>2, <2>3
    <3>2. SumsTo(k, f, q)
      BY <1>1, <3>1
    <3>3. IsFiniteSet(q)
      BY <3>1, FS_Subset
    <3> HIDE DEF g, k, q
    <3>4. k[q] = g[q]
      BY <2>1, <3>1, <3>2, <3>3, SumsAgree
    <3>5. g[r] = f[Some(r)] + g[q]
      BY <2>1, <2>3 DEF SumsTo, q
    <3>6. N(r) = g[r] /\ N(q) = k[q]
      BY DEF g, k
    <3>7. h[r] = f[Some(r)] + N(q)
      BY <2>3 DEF q
    <3> QED
      BY <3>4, <3>5, <3>6, <3>7
  <2> QED
    BY <2>2, <2>3
<1> HIDE DEF N
<1>4. SumsTo(h, f, s)
  <2>1. ASSUME NEW r \in SUBSET s, r # {}
        PROVE  N(r \ {Some(r)}) = h[r \ {Some(r)}]
    <3>1. r \ {Some(r)} \in SUBSET s /\ r \ {Some(r)} # s
      BY <1>2, <2>1
    <3> QED
      BY <1>3, <3>1
  <2>2. h = [r \in SUBSET s |-> IF r = {} THEN 0 ELSE f[Some(r)] + h[r \ {Some(r)}]]
    <3>1. \A r \in SUBSET s : h[r] = IF r = {} THEN 0 ELSE f[Some(r)] + h[r \ {Some(r)}]
      BY <2>1
    <3> QED
      BY <3>1
  <2> QED
    BY <2>2 DEF SumsTo
<1> QED
  BY <1>1, <1>4

(* The sum of the library is such a function.                               *)
LEMMA SumIs ==
  ASSUME NEW S, IsFiniteSet(S), NEW f
  PROVE  \E g : SumsTo(g, f, S) /\ SumFunctionOnSet(f, S) = g[S]
<1> DEFINE g == CHOOSE g : g = [s \in SUBSET S |->
                    IF s = {} THEN 0 ELSE f[CHOOSE x \in s : TRUE] + g[s \ {CHOOSE x \in s : TRUE}]]
<1>1. SumsTo(g, f, S)
  <2>1. \E h : SumsTo(h, f, S)
    BY SumExists
  <2> QED
    BY <2>1 DEF SumsTo, Some
<1>2. SumFunctionOnSet(f, S) = g[S]
  BY DEF SumFunctionOnSet, FoldFunctionOnSet, MapThenFoldSet
<1> HIDE DEF g
<1> QED
  BY <1>1, <1>2

(* The recursion of a sum.                                                  *)
LEMMA SumStep ==
  ASSUME NEW S, IsFiniteSet(S), NEW f
  PROVE  SumFunctionOnSet(f, S) = IF S = {} THEN 0
                                  ELSE f[Some(S)] + SumFunctionOnSet(f, S \ {Some(S)})
<1>1. PICK g : SumsTo(g, f, S) /\ SumFunctionOnSet(f, S) = g[S]
  BY SumIs
<1>2. g[S] = IF S = {} THEN 0 ELSE f[Some(S)] + g[S \ {Some(S)}]
  BY <1>1 DEF SumsTo
<1> DEFINE R == S \ {Some(S)}
<1>3. IsFiniteSet(R) /\ R \in SUBSET S
  BY FS_Subset
<1>4. PICK h : SumsTo(h, f, R) /\ SumFunctionOnSet(f, R) = h[R]
  BY <1>3, SumIs
<1> HIDE DEF R
<1>5. h[R] = g[R]
  BY <1>1, <1>3, <1>4, SumsAgree
<1> QED
  BY <1>1, <1>2, <1>4, <1>5 DEF R
-----------------------------------------------------------------------------
(* A family that has the empty set and each element added has the whole.    *)
LEMMA OneByOne ==
  ASSUME NEW S, IsFiniteSet(S), NEW F \in SUBSET (SUBSET S), {} \in F,
         \A A \in F : \A x \in S \ A : A \cup {x} \in F
  PROVE  S \in F
<1> SUFFICES ASSUME S \notin F
             PROVE  FALSE
  OBVIOUS
<1>1. PICK A \in (SUBSET S) \ F : \A B \in SUBSET A : B # A => B \in F
  BY SmallestMissing
<1>2. PICK x \in A : TRUE
  BY <1>1
<1>3. A \ {x} \in F
  BY <1>1, <1>2
<1>4. (A \ {x}) \cup {x} = A /\ x \in S \ (A \ {x})
  BY <1>2
<1> QED
  BY <1>1, <1>3, <1>4

(* The sum of natural numbers, whatever the order.                          *)
Naturals(f, S) == \A x \in S : f[x] \in Nat

(* The sum of natural numbers is one, and any element may be taken out      *)
(* first.                                                                   *)
LEMMA SumRemoves ==
  ASSUME NEW S, IsFiniteSet(S), NEW f, Naturals(f, S)
  PROVE  /\ SumFunctionOnSet(f, S) \in Nat
         /\ \A x \in S : SumFunctionOnSet(f, S) = f[x] + SumFunctionOnSet(f, S \ {x})
<1> DEFINE F == {s \in SUBSET S : /\ SumFunctionOnSet(f, s) \in Nat
                                  /\ \A x \in s : SumFunctionOnSet(f, s)
                                                    = f[x] + SumFunctionOnSet(f, s \ {x})}
<1> SUFFICES ASSUME S \notin F
             PROVE  FALSE
  OBVIOUS
<1>1. PICK s \in (SUBSET S) \ F : \A r \in SUBSET s : r # s => r \in F
  <2>1. F \in SUBSET (SUBSET S)
    OBVIOUS
  <2> HIDE DEF F
  <2> QED
    BY <2>1, SmallestMissing
<1>2. IsFiniteSet(s)
  BY FS_Subset
<1>3. s # {} => Some(s) \in s
  BY DEF Some
<1>4. CASE s = {}
  <2>1. SumFunctionOnSet(f, s) = 0
    BY <1>2, <1>4, SumStep
  <2> QED
    BY <1>1, <1>4, <2>1
<1>5. CASE s # {}
  <2> DEFINE y == Some(s)  r == s \ {y}
  <2>1. y \in s /\ r \in SUBSET s /\ r # s
    BY <1>3, <1>5
  <2>2. SumFunctionOnSet(f, s) = f[y] + SumFunctionOnSet(f, r)
    BY <1>2, <1>5, SumStep
  <2> HIDE DEF y
  <2>3. r \in F /\ f[y] \in Nat
    BY <1>1, <2>1 DEF Naturals
  <2>4. SumFunctionOnSet(f, s) \in Nat
    BY <2>2, <2>3
  <2>5. ASSUME NEW x \in s, x # y
        PROVE  SumFunctionOnSet(f, s) = f[x] + SumFunctionOnSet(f, s \ {x})
    <3>1. x \in r /\ s \ {x} \in SUBSET s /\ s \ {x} # s /\ y \in s \ {x}
      BY <2>1, <2>5
    <3>2. SumFunctionOnSet(f, r) = f[x] + SumFunctionOnSet(f, r \ {x})
      BY <2>3, <3>1
    <3>3. SumFunctionOnSet(f, s \ {x}) = f[y] + SumFunctionOnSet(f, (s \ {x}) \ {y})
      BY <1>1, <3>1
    <3>4. r \ {x} = (s \ {x}) \ {y}
      OBVIOUS
    <3>5. r \ {x} \in F /\ f[x] \in Nat
      <4>1. r \ {x} \in SUBSET s /\ r \ {x} # s
        BY <2>1
      <4> QED
        BY <1>1, <4>1 DEF Naturals
    <3>6. SumFunctionOnSet(f, r \ {x}) \in Nat
      BY <3>5
    <3> HIDE DEF r, F
    <3> QED
      BY <2>2, <2>3, <3>2, <3>3, <3>4, <3>5, <3>6
  <2>6. s \in F
    <3> SUFFICES ASSUME NEW x \in s
                 PROVE  SumFunctionOnSet(f, s) = f[x] + SumFunctionOnSet(f, s \ {x})
      BY <2>4
    <3> QED
      BY <2>2, <2>5
  <2> QED
    BY <1>1, <2>6
<1> QED
  BY <1>4, <1>5

(* The sum over nothing.                                                    *)
LEMMA SumEmpty ==
  ASSUME NEW f
  PROVE  SumFunctionOnSet(f, {}) = 0
  BY SumStep, FS_EmptySet

(* An element added to the set adds its value.                              *)
LEMMA SumAdds ==
  ASSUME NEW S, IsFiniteSet(S), NEW f, NEW x, x \notin S, Naturals(f, S \cup {x})
  PROVE  /\ SumFunctionOnSet(f, S \cup {x}) = f[x] + SumFunctionOnSet(f, S)
         /\ SumFunctionOnSet(f, S) \in Nat
<1>1. IsFiniteSet(S \cup {x}) /\ (S \cup {x}) \ {x} = S /\ x \in S \cup {x}
  BY FS_AddElement
<1>2. Naturals(f, S)
  BY DEF Naturals
<1> QED
  BY <1>1, <1>2, SumRemoves

(* Functions that agree on a set have one sum over it.                      *)
LEMMA SumSame ==
  ASSUME NEW S, IsFiniteSet(S), NEW f, NEW g, Naturals(f, S), \A x \in S : f[x] = g[x]
  PROVE  SumFunctionOnSet(f, S) = SumFunctionOnSet(g, S)
<1> DEFINE F == {s \in SUBSET S : SumFunctionOnSet(f, s) = SumFunctionOnSet(g, s)}
<1>1. F \in SUBSET (SUBSET S) /\ {} \in F
  BY SumEmpty
<1>2. ASSUME NEW A \in F, NEW x \in S \ A
      PROVE  A \cup {x} \in F
  <2>1. IsFiniteSet(A) /\ x \notin A /\ Naturals(f, A \cup {x}) /\ Naturals(g, A \cup {x})
    BY <1>2, FS_Subset DEF Naturals
  <2>2. /\ SumFunctionOnSet(f, A \cup {x}) = f[x] + SumFunctionOnSet(f, A)
        /\ SumFunctionOnSet(g, A \cup {x}) = g[x] + SumFunctionOnSet(g, A)
    BY <2>1, SumAdds
  <2> QED
    BY <1>2, <2>2
<1> HIDE DEF F
<1>3. S \in F
  BY <1>1, <1>2, OneByOne
<1> QED
  BY <1>3 DEF F

(* The sum over two disjoint sets.                                          *)
LEMMA SumSplit ==
  ASSUME NEW A, IsFiniteSet(A), NEW B, IsFiniteSet(B), A \cap B = {}, NEW f, Naturals(f, A \cup B)
  PROVE  SumFunctionOnSet(f, A \cup B) = SumFunctionOnSet(f, A) + SumFunctionOnSet(f, B)
<1> DEFINE F == {s \in SUBSET B : SumFunctionOnSet(f, A \cup s)
                                    = SumFunctionOnSet(f, A) + SumFunctionOnSet(f, s)}
<1>0. Naturals(f, A)
  BY DEF Naturals
<1>1. F \in SUBSET (SUBSET B) /\ {} \in F
  <2>1. A \cup {} = A /\ SumFunctionOnSet(f, A) \in Nat
    BY <1>0, SumRemoves
  <2> QED
    BY <2>1, SumEmpty
<1>2. ASSUME NEW s \in F, NEW x \in B \ s
      PROVE  s \cup {x} \in F
  <2>1. /\ IsFiniteSet(s) /\ x \notin s /\ Naturals(f, s \cup {x}) /\ f[x] \in Nat
        /\ IsFiniteSet(A \cup s) /\ x \notin A \cup s /\ Naturals(f, (A \cup s) \cup {x})
    BY <1>2, FS_Subset, FS_Union DEF Naturals
  <2>2. /\ SumFunctionOnSet(f, s \cup {x}) = f[x] + SumFunctionOnSet(f, s)
        /\ SumFunctionOnSet(f, (A \cup s) \cup {x}) = f[x] + SumFunctionOnSet(f, A \cup s)
        /\ SumFunctionOnSet(f, s) \in Nat
    BY <2>1, SumAdds
  <2>3. A \cup (s \cup {x}) = (A \cup s) \cup {x}
    OBVIOUS
  <2>4. SumFunctionOnSet(f, A \cup (s \cup {x})) = f[x] + SumFunctionOnSet(f, A \cup s)
    BY <2>2, <2>3
  <2>5. SumFunctionOnSet(f, A) \in Nat
    BY <1>0, SumRemoves
  <2>6. SumFunctionOnSet(f, A \cup s) = SumFunctionOnSet(f, A) + SumFunctionOnSet(f, s)
    BY <1>2
  <2>7. SumFunctionOnSet(f, A \cup (s \cup {x}))
          = SumFunctionOnSet(f, A) + SumFunctionOnSet(f, s \cup {x})
    BY <2>1, <2>2, <2>4, <2>5, <2>6
  <2>8. s \cup {x} \in SUBSET B
    BY <1>2
  <2> QED
    BY <2>7, <2>8
<1> HIDE DEF F
<1>3. B \in F
  BY <1>1, <1>2, OneByOne
<1> QED
  BY <1>3 DEF F

(* A sum of zeros.                                                          *)
LEMMA SumZero ==
  ASSUME NEW S, IsFiniteSet(S), NEW f, \A x \in S : f[x] = 0
  PROVE  SumFunctionOnSet(f, S) = 0
<1> DEFINE F == {s \in SUBSET S : SumFunctionOnSet(f, s) = 0}
<1>1. F \in SUBSET (SUBSET S) /\ {} \in F
  BY SumEmpty
<1>2. ASSUME NEW A \in F, NEW x \in S \ A
      PROVE  A \cup {x} \in F
  <2>1. IsFiniteSet(A) /\ x \notin A /\ Naturals(f, A \cup {x}) /\ f[x] = 0
    BY <1>2, FS_Subset DEF Naturals
  <2>2. SumFunctionOnSet(f, A \cup {x}) = f[x] + SumFunctionOnSet(f, A)
    BY <2>1, SumAdds
  <2> QED
    BY <1>2, <2>1, <2>2
<1> HIDE DEF F
<1>3. S \in F
  BY <1>1, <1>2, OneByOne
<1> QED
  BY <1>3 DEF F

(* The elements that count for nothing need not be summed.                  *)
LEMMA SumSupport ==
  ASSUME NEW B, IsFiniteSet(B), NEW A \in SUBSET B, NEW f, Naturals(f, A), \A x \in B \ A : f[x] = 0
  PROVE  SumFunctionOnSet(f, B) = SumFunctionOnSet(f, A)
<1>1. /\ IsFiniteSet(A) /\ IsFiniteSet(B \ A) /\ A \cap (B \ A) = {} /\ A \cup (B \ A) = B
      /\ Naturals(f, B)
  BY FS_Subset DEF Naturals
<1>2. SumFunctionOnSet(f, B \ A) = 0
  BY <1>1, SumZero
<1>3. SumFunctionOnSet(f, A) \in Nat
  BY <1>1, SumRemoves
<1> QED
  BY <1>1, <1>2, <1>3, SumSplit

(* A larger set has no smaller sum.                                         *)
LEMMA SumMonotone ==
  ASSUME NEW B, IsFiniteSet(B), NEW A \in SUBSET B, NEW f, Naturals(f, B)
  PROVE  SumFunctionOnSet(f, A) <= SumFunctionOnSet(f, B)
<1>1. /\ IsFiniteSet(A) /\ IsFiniteSet(B \ A) /\ A \cap (B \ A) = {} /\ A \cup (B \ A) = B
      /\ Naturals(f, A) /\ Naturals(f, B \ A)
  BY FS_Subset DEF Naturals
<1>2. SumFunctionOnSet(f, A) \in Nat /\ SumFunctionOnSet(f, B \ A) \in Nat
  BY <1>1, SumRemoves
<1>3. SumFunctionOnSet(f, B) = SumFunctionOnSet(f, A) + SumFunctionOnSet(f, B \ A)
  BY <1>1, SumSplit
<1> QED
  BY <1>2, <1>3

(* The same summands under other names.                                     *)
LEMMA SumRenamed ==
  ASSUME NEW T, IsFiniteSet(T), NEW S, NEW r, NEW f, NEW g,
         S = {r[t] : t \in T}, \A t, u \in T : r[t] = r[u] => t = u,
         Naturals(g, T), \A t \in T : f[r[t]] = g[t]
  PROVE  SumFunctionOnSet(f, S) = SumFunctionOnSet(g, T) /\ IsFiniteSet(S)
<1> DEFINE Img(s) == {r[t] : t \in s}
           F == {s \in SUBSET T : /\ SumFunctionOnSet(f, Img(s)) = SumFunctionOnSet(g, s)
                                  /\ IsFiniteSet(Img(s))}
<1>1. F \in SUBSET (SUBSET T) /\ {} \in F
  <2>1. Img({}) = {}
    OBVIOUS
  <2> QED
    BY <2>1, SumEmpty, FS_EmptySet
<1>2. ASSUME NEW s \in F, NEW x \in T \ s
      PROVE  s \cup {x} \in F
  <2>0. s \in SUBSET T /\ x \in T /\ x \notin s
    BY <1>2
  <2>1. Img(s \cup {x}) = Img(s) \cup {r[x]} /\ r[x] \notin Img(s)
    <3>1. r[x] \notin Img(s)
      BY <2>0
    <3> QED
      BY <3>1
  <2>2. /\ IsFiniteSet(s) /\ Naturals(g, s \cup {x})
        /\ IsFiniteSet(Img(s)) /\ IsFiniteSet(Img(s) \cup {r[x]})
        /\ SumFunctionOnSet(f, Img(s)) = SumFunctionOnSet(g, s)
    BY <1>2, <2>0, FS_Subset, FS_AddElement DEF Naturals
  <2>3. Naturals(f, Img(s) \cup {r[x]})
    BY <2>0 DEF Naturals
  <2> HIDE DEF Img
  <2>4. /\ SumFunctionOnSet(g, s \cup {x}) = g[x] + SumFunctionOnSet(g, s)
        /\ SumFunctionOnSet(f, Img(s) \cup {r[x]}) = f[r[x]] + SumFunctionOnSet(f, Img(s))
    BY <2>0, <2>1, <2>2, <2>3, SumAdds
  <2> QED
    BY <2>0, <2>1, <2>2, <2>4
<1> HIDE DEF F
<1>3. T \in F
  BY <1>1, <1>2, OneByOne
<1>4. S = Img(T)
  OBVIOUS
<1> HIDE DEF Img
<1> QED
  BY <1>3, <1>4 DEF F
-----------------------------------------------------------------------------
(* The inductive invariant: types; when a study reads and when the last     *)
(* samples were saved; and what each row of wait_rollups holds: a minute    *)
(* what was saved in it until it is aged, an hour its aged minutes.         *)
StudyPhases == {"none", "sampling", "sampled", "read", "answered"}
Studies ==
    [phase : StudyPhases, start : Nat, cmd : {"why", "waits"}, partial : BOOLEAN, polls : Nat,
     failures : Nat, samples : [Sessions -> [Classes -> Nat]], snaps : Nat,
     sighted : [Holders -> Nat], victims : [Holders -> SUBSET {e[1] : e \in UNION Sightings}]]
Ticks == 0 .. MaxTime
WhyTypes ==
    /\ now \in Ticks /\ study \in Studies /\ hist \in [Classes -> Nat]
    /\ saved \in [Ticks -> [Classes -> Nat]]
InTime ==
    /\ study.start <= now
    /\ study.phase \in {"sampling", "sampled", "read"} => now <= study.start + 1
    /\ \A t \in Ticks : saved[t] # NoCounts => t <= now

Keys == [gran : {"minute", "hour"}, bucket : Ticks, class : Classes]
InHour(h) == {t \in Ticks : HourOf(t) = h}
AgedIn(h, last) == {t \in InHour(h) : t + KeepMinutes < last}
LastOf(sv) ==
    LET saves == {0} \cup {t \in 0 .. MaxTime : sv[t] # NoCounts}
    IN  CHOOSE t \in saves : \A u \in saves : u <= t
SamplesOf(sv, c) == [t \in Ticks |-> sv[t][c]]
Due(sv, k, last) ==
    IF k.gran = "minute"
      THEN IF k.bucket + KeepMinutes >= last THEN sv[k.bucket][k.class] ELSE 0
      ELSE IF HourOf(k.bucket) = k.bucket /\ k.bucket + KeepHours >= last
             THEN SumFunctionOnSet(SamplesOf(sv, k.class), AgedIn(k.bucket, last)) ELSE 0
Hold(rows, sv) ==
    /\ DOMAIN rows \in SUBSET Keys
    /\ \A k \in Keys : At(rows, k) = Due(sv, k, LastOf(sv))
RollupsAre == Hold(rollups, saved)
WhyInv == WhyTypes /\ InTime /\ RollupsAre /\ BaselinePredatesStudy
-----------------------------------------------------------------------------
(* A tick lies in its hour, which begins at a multiple of Hour.             *)
LEMMA HourIs ==
  ASSUME NEW t \in Nat
  PROVE  HourOf(t) \in Nat /\ HourOf(t) <= t /\ t < HourOf(t) + Hour /\ HourOf(HourOf(t)) = HourOf(t)
<1>1. Hour \in Nat /\ Hour > 0
  BY RollupAssumption
<1> DEFINE q == t \div Hour
<1>2. q \in Nat /\ q * Hour <= t /\ t < q * Hour + Hour
  <2>1. q \in Nat
    BY <1>1
  <2>2. t = q * Hour + (t % Hour) /\ t % Hour \in 0 .. Hour - 1
    BY <1>1
  <2> QED
    BY <1>1, <2>1, <2>2
<1> HIDE DEF q
<1>3. q * Hour \in Nat /\ (q * Hour) \div Hour = q
  BY <1>1, <1>2
<1>4. HourOf(t) = q * Hour
  BY DEF HourOf, q
<1> QED
  BY <1>2, <1>3, <1>4 DEF HourOf

(* There is a latest save.                                                  *)
LEMMA LastIs ==
  ASSUME MaxTime \in Nat, NEW sv
  PROVE  /\ LastOf(sv) \in Ticks
         /\ \A t \in Ticks : sv[t] # NoCounts => t <= LastOf(sv)
         /\ LastOf(sv) = 0 \/ sv[LastOf(sv)] # NoCounts
<1> DEFINE saves == {0} \cup {t \in 0 .. MaxTime : sv[t] # NoCounts}
           Lasts(t) == \A u \in saves : u <= t
           T == {d \in Nat : d <= MaxTime /\ MaxTime - d \in saves}
<1>1. \E t \in saves : Lasts(t)
  <2>1. T \in SUBSET Nat /\ MaxTime \in T
    OBVIOUS
  <2>2. PICK d \in T : \A e \in T : d <= e
    <3> HIDE DEF T
    <3> QED
      BY <2>1, LeastNatural
  <2>3. MaxTime - d \in saves
    BY <2>2
  <2>4. ASSUME NEW u \in saves
        PROVE  u <= MaxTime - d
    <3>1. u \in 0 .. MaxTime
      BY <2>4
    <3>2. MaxTime - (MaxTime - u) = u /\ MaxTime - u \in Nat /\ MaxTime - u <= MaxTime
      BY <3>1
    <3>3. MaxTime - u \in T
      BY <2>4, <3>2
    <3>4. d \in Nat /\ d <= MaxTime - u
      BY <2>2, <3>3
    <3> HIDE DEF T, saves
    <3> QED
      BY <3>1, <3>4
  <2> QED
    BY <2>3, <2>4
<1>2. LastOf(sv) \in saves /\ Lasts(LastOf(sv))
  BY <1>1 DEF LastOf
<1> QED
  BY <1>2 DEF Ticks

(* A tick nothing was saved after, with something saved in it, is the       *)
(* latest save.                                                             *)
LEMMA LastUnique ==
  ASSUME NEW sv, NEW l \in Ticks, MaxTime \in Nat, l = 0 \/ sv[l] # NoCounts,
         \A t \in Ticks : sv[t] # NoCounts => t <= l
  PROVE  LastOf(sv) = l
<1>1. /\ LastOf(sv) \in Ticks
      /\ \A t \in Ticks : sv[t] # NoCounts => t <= LastOf(sv)
      /\ LastOf(sv) = 0 \/ sv[LastOf(sv)] # NoCounts
  BY LastIs
<1> QED
  BY <1>1 DEF Ticks

(* The samples of a study.                                                  *)
LEMMA ClassesFinite == IsFiniteSet(Classes)
<1>1. IsFiniteSet({"CPU"} \cup {"Client"} \cup {"IO"} \cup {"Lock"})
  BY FS_Singleton, FS_Union
<1>2. Classes = {"CPU"} \cup {"Client"} \cup {"IO"} \cup {"Lock"}
  BY DEF Classes
<1> QED
  BY <1>1, <1>2

(* A study counts natural numbers.                                          *)
LEMMA CountIs ==
  ASSUME NEW st \in Studies
  PROVE  Profile(st) \in [Classes -> Nat] /\ Total(st) \in Nat
         /\ \A c \in Classes : Count(st, c) \in Nat
<1>1. ASSUME NEW c \in Classes
      PROVE  Count(st, c) \in Nat
  <2> DEFINE f == [s \in Sessions |-> st.samples[s][c]]
  <2>1. Naturals(f, Sessions) /\ IsFiniteSet(Sessions) /\ DOMAIN f = Sessions
    BY WhyAssumption DEF Naturals, Studies
  <2> HIDE DEF f
  <2>2. SumFunctionOnSet(f, Sessions) \in Nat
    BY <2>1, SumRemoves
  <2> QED
    BY <2>1, <2>2 DEF Count, SumFunction, f
<1>2. Profile(st) \in [Classes -> Nat]
  BY <1>1 DEF Profile
<1>3. SumFunctionOnSet(Profile(st), Classes) \in Nat
  BY <1>2, ClassesFinite, SumRemoves DEF Naturals
<1> QED
  BY <1>1, <1>2, <1>3 DEF Total, SumFunction
-----------------------------------------------------------------------------
(* SaveWaitProfile, row by row.                                             *)
Rows(rows) == DOMAIN rows \in SUBSET Keys /\ \A k \in DOMAIN rows : rows[k] \in Nat

(* What a row has is a natural number.                                      *)
LEMMA AtIs ==
  ASSUME NEW rows, Rows(rows), NEW k
  PROVE  At(rows, k) \in Nat /\ (k \notin DOMAIN rows => At(rows, k) = 0)
  BY DEF Rows, At

(* An upsert adds row by row.                                               *)
LEMMA UpsertIs ==
  ASSUME NEW rows, Rows(rows), NEW more, Rows(more)
  PROVE  /\ Rows(Upsert(rows, more))
         /\ \A k : At(Upsert(rows, more), k) = At(rows, k) + At(more, k)
<1> DEFINE r == Upsert(rows, more)
<1>1. /\ DOMAIN r = DOMAIN rows \cup DOMAIN more
      /\ \A k \in DOMAIN r : r[k] = At(rows, k) + At(more, k)
  BY DEF Upsert
<1> HIDE DEF r
<1>2. \A k : At(rows, k) \in Nat /\ At(more, k) \in Nat
  BY AtIs
<1>3. Rows(r)
  BY <1>1, <1>2 DEF Rows
<1>4. ASSUME NEW k
      PROVE  At(r, k) = At(rows, k) + At(more, k)
  <2>1. CASE k \in DOMAIN r
    BY <1>1, <2>1 DEF At
  <2>2. CASE k \notin DOMAIN r
    BY <1>1, <2>2 DEF At
  <2> QED
    BY <2>1, <2>2
<1> QED
  BY <1>3, <1>4 DEF r

(* A deletion empties the rows it deletes.                                  *)
LEMMA WithoutIs ==
  ASSUME NEW rows, Rows(rows), NEW keys
  PROVE  /\ Rows(Without(rows, keys))
         /\ \A k : At(Without(rows, keys), k) = IF k \in keys THEN 0 ELSE At(rows, k)
<1>1. /\ DOMAIN Without(rows, keys) = DOMAIN rows \ keys
      /\ \A k \in DOMAIN rows \ keys : Without(rows, keys)[k] = rows[k]
  BY DEF Without
<1> QED
  BY <1>1 DEF Rows, At

(* The keys are finitely many, and so are the minutes of an hour.           *)
LEMMA TicksFinite ==
  ASSUME MaxTime \in Nat
  PROVE  IsFiniteSet(Ticks) /\ \A S \in SUBSET Ticks : IsFiniteSet(S)
<1>1. IsFiniteSet(Ticks)
  BY FS_Interval DEF Ticks
<1> QED
  BY <1>1, FS_Subset

(* Rows have finitely many keys.                                            *)
LEMMA KeysFinite ==
  ASSUME MaxTime \in Nat
  PROVE  \A S \in SUBSET Keys : IsFiniteSet(S)
<1> DEFINE Grans == {"minute", "hour"}
           P == (Grans \X Ticks) \X Classes
           r == [p \in P |-> Key(p[1][1], p[1][2], p[2])]
<1>1. IsFiniteSet(Grans)
  <2>1. IsFiniteSet({"minute"} \cup {"hour"}) /\ Grans = {"minute"} \cup {"hour"}
    BY FS_Singleton, FS_Union
  <2> QED
    BY <2>1
<1> HIDE DEF Grans
<1>2. IsFiniteSet(P)
  <2>1. IsFiniteSet(Grans \X Ticks)
    BY <1>1, TicksFinite, FS_Product
  <2> QED
    BY <2>1, ClassesFinite, FS_Product
<1>3. r \in Surjection(P, Keys)
  <2>1. r \in [P -> Keys]
    BY DEF Keys, Key, Grans
  <2>2. ASSUME NEW k \in Keys
        PROVE  \E p \in P : r[p] = k
    <3>1. <<<<k.gran, k.bucket>>, k.class>> \in P
      BY DEF Keys, Grans
    <3>2. r[<<<<k.gran, k.bucket>>, k.class>>] = k
      BY <3>1 DEF Keys, Key
    <3> QED
      BY <3>1, <3>2
  <2> QED
    BY <2>1, <2>2 DEF Surjection
<1>4. IsFiniteSet(Keys)
  BY <1>2, <1>3, FS_Surjection
<1> QED
  BY <1>4, FS_Subset
-----------------------------------------------------------------------------
Into(k) == Key("hour", HourOf(k.bucket), k.class)
AgedInto(rows, n, h) == {a \in Aged(rows, n) : Into(a) = h}

(* A key is made of its three parts.                                        *)
LEMMA KeyIs ==
  /\ \A k \in Keys : k = Key(k.gran, k.bucket, k.class)
  /\ \A g \in {"minute", "hour"}, b \in Ticks, c \in Classes :
        /\ Key(g, b, c) \in Keys /\ Key(g, b, c).gran = g
        /\ Key(g, b, c).bucket = b /\ Key(g, b, c).class = c
  BY DEF Keys, Key

(* The hour of a tick begins at a tick.                                     *)
LEMMA HourTick ==
  ASSUME MaxTime \in Nat, NEW t \in Ticks
  PROVE  t \in Nat /\ HourOf(t) \in Ticks /\ HourOf(HourOf(t)) = HourOf(t)
<1>1. t \in Nat /\ t <= MaxTime
  BY DEF Ticks
<1>2. HourOf(t) \in Nat /\ HourOf(t) <= t /\ HourOf(HourOf(t)) = HourOf(t)
  BY <1>1, HourIs
<1> QED
  BY <1>1, <1>2 DEF Ticks

(* Folding gives an hour the sum of the minutes aged into it.               *)
LEMMA FoldedIs ==
  ASSUME MaxTime \in Nat, NEW rows, Rows(rows), NEW n \in Nat
  PROVE  /\ Rows(Folded(rows, n))
         /\ \A k : At(Folded(rows, n), k) = SumFunctionOnSet(rows, AgedInto(rows, n, k))
<1> DEFINE r == Folded(rows, n)
<1>1. /\ DOMAIN r = {Into(k) : k \in Aged(rows, n)}
      /\ \A h \in DOMAIN r : r[h] = SumFunctionOnSet(rows, AgedInto(rows, n, h))
  BY DEF Folded, Into, AgedInto
<1> HIDE DEF r
<1>2. Aged(rows, n) \in SUBSET Keys /\ Aged(rows, n) \in SUBSET DOMAIN rows
  BY DEF Aged, Rows
<1>3. ASSUME NEW k
      PROVE  SumFunctionOnSet(rows, AgedInto(rows, n, k)) \in Nat
  <2>1. IsFiniteSet(AgedInto(rows, n, k)) /\ Naturals(rows, AgedInto(rows, n, k))
    BY <1>2, KeysFinite DEF AgedInto, Naturals, Rows
  <2> QED
    BY <2>1, SumRemoves
<1>4. DOMAIN r \in SUBSET Keys
  <2> SUFFICES ASSUME NEW k \in Aged(rows, n)
               PROVE  Into(k) \in Keys
    BY <1>1
  <2>1. k.bucket \in Ticks /\ k.class \in Classes
    BY <1>2 DEF Keys
  <2> QED
    BY <2>1, HourTick, KeyIs DEF Into
<1>5. ASSUME NEW k
      PROVE  At(r, k) = SumFunctionOnSet(rows, AgedInto(rows, n, k))
  <2>1. CASE k \in DOMAIN r
    BY <1>1, <2>1 DEF At
  <2>2. CASE k \notin DOMAIN r
    <3>1. AgedInto(rows, n, k) = {}
      BY <1>1, <2>2 DEF AgedInto
    <3> QED
      BY <2>2, <3>1, SumEmpty DEF At
  <2> QED
    BY <2>1, <2>2
<1> QED
  BY <1>1, <1>3, <1>4, <1>5 DEF r, Rows

(* What an hour receives is what its aged minutes hold.                     *)
Minutes(rows, c) == [t \in Ticks |-> At(rows, Key("minute", t, c))]

(* The minutes aged into an hour, summed by tick.                           *)
LEMMA AgedSum ==
  ASSUME MaxTime \in Nat, NEW rows, Rows(rows), NEW n \in Nat, NEW h \in Ticks, NEW c \in Classes
  PROVE  SumFunctionOnSet(rows, AgedInto(rows, n, Key("hour", h, c)))
           = SumFunctionOnSet(Minutes(rows, c), AgedIn(h, n))
<1> DEFINE M == {t \in AgedIn(h, n) : Key("minute", t, c) \in DOMAIN rows}
           r == [t \in Ticks |-> Key("minute", t, c)]
           A == AgedInto(rows, n, Key("hour", h, c))
           g == Minutes(rows, c)
<1>1. M \in SUBSET AgedIn(h, n) /\ AgedIn(h, n) \in SUBSET Ticks
  BY DEF AgedIn, InHour
<1>2. IsFiniteSet(M) /\ IsFiniteSet(AgedIn(h, n))
  BY <1>1, TicksFinite
<1>3. A = {r[t] : t \in M}
  <2>1. ASSUME NEW a \in A
        PROVE  a \in {r[t] : t \in M}
    <3>1. /\ a \in DOMAIN rows /\ a \in Keys /\ a.gran = "minute" /\ a.bucket + KeepMinutes < n
          /\ Key("hour", HourOf(a.bucket), a.class) = Key("hour", h, c)
      BY DEF AgedInto, Aged, Into, Rows
    <3>2. a.bucket \in Ticks /\ a.class \in Classes
      BY <3>1 DEF Keys
    <3>3. HourOf(a.bucket) = h /\ a.class = c
      BY <3>1, <3>2, HourTick, KeyIs
    <3>4. a = r[a.bucket]
      BY <3>1, <3>2, <3>3, KeyIs
    <3>5. a.bucket \in M
      BY <3>1, <3>2, <3>3, <3>4 DEF AgedIn, InHour
    <3> QED
      BY <3>4, <3>5
  <2>2. ASSUME NEW t \in M
        PROVE  r[t] \in A
    <3>1. t \in Ticks /\ HourOf(t) = h /\ t + KeepMinutes < n /\ r[t] \in DOMAIN rows
      BY DEF AgedIn, InHour
    <3>2. r[t] = Key("minute", t, c) /\ r[t].gran = "minute" /\ r[t].bucket = t /\ r[t].class = c
      BY <3>1, KeyIs
    <3> HIDE DEF r
    <3> QED
      BY <3>1, <3>2 DEF AgedInto, Aged, Into
  <2> QED
    BY <2>1, <2>2
<1>4. \A t, u \in M : r[t] = r[u] => t = u
  BY <1>1, KeyIs
<1>5. \A t \in Ticks : g[t] = At(rows, r[t]) /\ g[t] \in Nat
  BY AtIs DEF Minutes
<1>6. \A t \in M : rows[r[t]] = g[t]
  BY <1>1, <1>5 DEF At
<1>7. Naturals(g, M) /\ \A t \in AgedIn(h, n) \ M : g[t] = 0
  BY <1>1, <1>5 DEF Naturals, At
<1> HIDE DEF M, r, A, g
<1>8. SumFunctionOnSet(rows, A) = SumFunctionOnSet(g, M)
  BY <1>2, <1>3, <1>4, <1>6, <1>7, SumRenamed
<1>9. SumFunctionOnSet(g, AgedIn(h, n)) = SumFunctionOnSet(g, M)
  BY <1>1, <1>2, <1>7, SumSupport
<1> QED
  BY <1>8, <1>9 DEF A, g

(* What pruneWaits leaves of each row.                                      *)
LEMMA PruneIs ==
  ASSUME MaxTime \in Nat, NEW rows, Rows(rows), NEW n \in Nat
  PROVE  /\ Rows(PruneWaits(rows, n))
         /\ \A k \in Keys : At(PruneWaits(rows, n), k) =
              IF k.gran = "minute"
                THEN IF k.bucket + KeepMinutes < n THEN 0 ELSE At(rows, k)
                ELSE IF k.bucket + KeepHours < n THEN 0
                     ELSE At(rows, k) + SumFunctionOnSet(rows, AgedInto(rows, n, k))
<1> DEFINE young == Without(rows, Aged(rows, n))
           folded == Upsert(young, Folded(rows, n))
           pruned == Without(folded, Dropped(folded, n))
<1>1. /\ Rows(young)
      /\ \A k : At(young, k) = IF k \in Aged(rows, n) THEN 0 ELSE At(rows, k)
  BY WithoutIs
<1> HIDE DEF young
<1>2. /\ Rows(folded)
      /\ \A k : At(folded, k) = At(young, k) + SumFunctionOnSet(rows, AgedInto(rows, n, k))
  <2>1. /\ Rows(Folded(rows, n))
        /\ \A k : At(Folded(rows, n), k) = SumFunctionOnSet(rows, AgedInto(rows, n, k))
    BY FoldedIs
  <2> QED
    BY <1>1, <2>1, UpsertIs
<1> HIDE DEF folded
<1>3. /\ Rows(pruned)
      /\ \A k : At(pruned, k) = IF k \in Dropped(folded, n) THEN 0 ELSE At(folded, k)
  BY <1>2, WithoutIs
<1>4. PruneWaits(rows, n) = pruned
  BY DEF PruneWaits, young, folded
<1> HIDE DEF pruned
<1>5. ASSUME NEW k \in Keys, k.gran = "minute"
      PROVE  At(pruned, k) = IF k.bucket + KeepMinutes < n THEN 0 ELSE At(rows, k)
  <2>1. k \notin Dropped(folded, n) /\ AgedInto(rows, n, k) = {}
    BY <1>5, KeyIs DEF Dropped, AgedInto, Into, Key
  <2>2. At(pruned, k) = At(young, k) + 0 /\ At(young, k) \in Nat
    BY <1>1, <1>2, <1>3, <2>1, SumEmpty, AtIs
  <2>3. k \in Aged(rows, n) <=> k \in DOMAIN rows /\ k.bucket + KeepMinutes < n
    BY <1>5 DEF Aged
  <2>4. k \notin DOMAIN rows => At(rows, k) = 0
    BY AtIs
  <2> QED
    BY <1>1, <2>2, <2>3, <2>4
<1>6. ASSUME NEW k \in Keys, k.gran # "minute"
      PROVE  At(pruned, k) = IF k.bucket + KeepHours < n THEN 0
                             ELSE At(rows, k) + SumFunctionOnSet(rows, AgedInto(rows, n, k))
  <2>1. k \notin Aged(rows, n) /\ k.gran = "hour"
    BY <1>6 DEF Aged, Keys
  <2>2. At(folded, k) = At(rows, k) + SumFunctionOnSet(rows, AgedInto(rows, n, k))
    BY <1>1, <1>2, <2>1
  <2>3. k \in Dropped(folded, n) <=> k \in DOMAIN folded /\ k.bucket + KeepHours < n
    BY <2>1 DEF Dropped
  <2>4. k \notin DOMAIN folded => At(folded, k) = 0
    BY <1>2, AtIs
  <2> QED
    BY <1>3, <2>2, <2>3, <2>4
<1> QED
  BY <1>3, <1>4, <1>5, <1>6

(* An empty profile is not saved.                                           *)
LEMMA NoneSaved ==
  ASSUME NEW rows, NEW n, NEW profile \in [Classes -> Nat], profile = NoCounts
  PROVE  SaveWaitProfile(rows, n, profile) = rows
<1>1. {c \in DOMAIN profile : profile[c] > 0} = {}
  BY DEF NoCounts
<1> QED
  BY <1>1 DEF SaveWaitProfile

(* A profile is added to the rows of its minute before the rows are         *)
(* pruned.                                                                  *)
LEMMA SaveIs ==
  ASSUME NEW rows, Rows(rows), NEW n \in Ticks, NEW profile \in [Classes -> Nat], profile # NoCounts
  PROVE  \E more :
           /\ Rows(more) /\ SaveWaitProfile(rows, n, profile) = PruneWaits(more, n)
           /\ \A k \in Keys : At(more, k) = At(rows, k) + (IF k.gran = "minute" /\ k.bucket = n
                                                           THEN profile[k.class] ELSE 0)
<1> DEFINE some == {c \in DOMAIN profile : profile[c] > 0}
           new == [k \in {Key("minute", n, c) : c \in some} |-> profile[k.class]]
           more == Upsert(rows, new)
<1>1. some # {}
  <2>1. PICK c \in Classes : profile[c] # 0
    BY DEF NoCounts
  <2> QED
    BY <2>1
<1>2. /\ DOMAIN new = {Key("minute", n, c) : c \in some}
      /\ \A k \in DOMAIN new : new[k] = profile[k.class]
  OBVIOUS
<1>3. SaveWaitProfile(rows, n, profile) = PruneWaits(more, n)
  BY <1>1 DEF SaveWaitProfile
<1> HIDE DEF new
<1>4. some \in SUBSET Classes /\ \A c \in Classes \ some : profile[c] = 0
  OBVIOUS
<1> HIDE DEF some
<1>5. Rows(new)
  BY <1>2, <1>4, KeyIs DEF Rows
<1>6. Rows(more) /\ \A k : At(more, k) = At(rows, k) + At(new, k)
  BY <1>5, UpsertIs
<1>7. ASSUME NEW k \in Keys
      PROVE  At(new, k) = IF k.gran = "minute" /\ k.bucket = n THEN profile[k.class] ELSE 0
  <2>1. k.gran \in {"minute", "hour"} /\ k.bucket \in Ticks /\ k.class \in Classes
    BY DEF Keys
  <2>2. k \in DOMAIN new <=> k.gran = "minute" /\ k.bucket = n /\ k.class \in some
    <3>1. ASSUME k \in DOMAIN new
          PROVE  k.gran = "minute" /\ k.bucket = n /\ k.class \in some
      BY <1>2, <1>4, <3>1, KeyIs
    <3>2. ASSUME k.gran = "minute", k.bucket = n, k.class \in some
          PROVE  k \in DOMAIN new
      BY <1>2, <3>2, KeyIs
    <3> QED
      BY <3>1, <3>2
  <2> QED
    BY <1>2, <1>4, <2>1, <2>2 DEF At
<1> HIDE DEF more
<1> QED
  BY <1>3, <1>6, <1>7
-----------------------------------------------------------------------------
Profiles == [Classes -> Nat]
SaveHistories == [Ticks -> Profiles]
Added(sv, n, profile) == [sv EXCEPT ![n] = [c \in Classes |-> @[c] + profile[c]]]

(* Rows that hold the samples due are rows of natural numbers.              *)
LEMMA HoldRows ==
  ASSUME NEW rows, NEW sv \in SaveHistories, Hold(rows, sv), MaxTime \in Nat
  PROVE  Rows(rows)
<1> SUFFICES ASSUME NEW k \in DOMAIN rows
             PROVE  rows[k] \in Nat
  BY DEF Rows, Hold
<1>1. k \in Keys /\ rows[k] = Due(sv, k, LastOf(sv))
  BY DEF Hold, At
<1>2. k.bucket \in Ticks /\ k.class \in Classes
  BY <1>1 DEF Keys
<1>3. sv[k.bucket][k.class] \in Nat
  BY <1>2 DEF SaveHistories, Profiles
<1>4. SumFunctionOnSet(SamplesOf(sv, k.class), AgedIn(k.bucket, LastOf(sv))) \in Nat
  <2>1. AgedIn(k.bucket, LastOf(sv)) \in SUBSET Ticks
    BY DEF AgedIn, InHour
  <2>2. Naturals(SamplesOf(sv, k.class), AgedIn(k.bucket, LastOf(sv)))
    BY <1>2, <2>1 DEF Naturals, SamplesOf, SaveHistories, Profiles
  <2> QED
    BY <2>1, <2>2, TicksFinite, SumRemoves
<1> QED
  BY <1>1, <1>3, <1>4 DEF Due

(* The history of what was saved, after a save in its latest tick.          *)
LEMMA AddedIs ==
  ASSUME NEW sv \in SaveHistories, NEW n \in Ticks, NEW profile \in Profiles, MaxTime \in Nat,
         \A t \in Ticks : sv[t] # NoCounts => t <= n
  PROVE  /\ Added(sv, n, profile) \in SaveHistories
         /\ \A t \in Ticks : t # n => Added(sv, n, profile)[t] = sv[t]
         /\ \A c \in Classes : Added(sv, n, profile)[n][c] = sv[n][c] + profile[c]
         /\ profile = NoCounts => Added(sv, n, profile) = sv
         /\ profile # NoCounts => LastOf(Added(sv, n, profile)) = n
         /\ \A t \in Ticks : Added(sv, n, profile)[t] # NoCounts => t <= n
<1> DEFINE new == Added(sv, n, profile)
           sum == [c \in Classes |-> sv[n][c] + profile[c]]
<1>1. sum \in Profiles
  BY DEF Profiles, SaveHistories
<1>2. new = [sv EXCEPT ![n] = sum]
  BY DEF Added
<1>3. new \in SaveHistories /\ new[n] = sum /\ \A t \in Ticks : t # n => new[t] = sv[t]
  BY <1>1, <1>2 DEF SaveHistories
<1>4. \A c \in Classes : sum[c] = sv[n][c] + profile[c]
  OBVIOUS
<1>5. sv[n] \in Profiles /\ n \in Nat
  BY DEF SaveHistories, Ticks
<1> HIDE DEF new, sum
<1>6. ASSUME profile = NoCounts
      PROVE  new = sv
  <2>1. \A c \in Classes : sum[c] = sv[n][c]
    BY <1>4, <1>5, <1>6 DEF NoCounts, Profiles
  <2>2. sum = sv[n]
    BY <1>1, <1>5, <2>1 DEF Profiles
  <2> QED
    BY <1>2, <2>2 DEF SaveHistories
<1>7. ASSUME profile # NoCounts
      PROVE  new[n] # NoCounts
  <2>1. PICK c \in Classes : profile[c] # 0
    BY <1>7 DEF NoCounts, Profiles
  <2>2. sum[c] # 0
    BY <1>4, <1>5, <2>1 DEF Profiles
  <2> QED
    BY <1>3, <2>2 DEF NoCounts
<1>8. \A t \in Ticks : new[t] # NoCounts => t <= n
  BY <1>3, <1>5
<1>9. profile # NoCounts => LastOf(new) = n
  BY <1>7, <1>8, LastUnique
<1> QED
  BY <1>3, <1>4, <1>6, <1>8, <1>9 DEF new

(* What a save leaves in the rows is what it should leave.                  *)
LEMMA FoldHolds ==
  ASSUME MaxTime \in Nat, NEW rows, NEW sv \in SaveHistories, Hold(rows, sv), NEW n \in Ticks,
         \A t \in Ticks : sv[t] # NoCounts => t <= n, NEW profile \in Profiles
  PROVE  Hold(SaveWaitProfile(rows, n, profile), Added(sv, n, profile))
<1> DEFINE new == Added(sv, n, profile)  last == LastOf(sv)
<1>1. CASE profile = NoCounts
  <2>1. SaveWaitProfile(rows, n, profile) = rows
    BY <1>1, NoneSaved DEF Profiles
  <2>2. new = sv
    BY <1>1, AddedIs
  <2> QED
    BY <2>1, <2>2
<1>2. CASE profile # NoCounts
  <2>1. /\ new \in SaveHistories /\ LastOf(new) = n
        /\ \A t \in Ticks : t # n => new[t] = sv[t]
        /\ \A c \in Classes : new[n][c] = sv[n][c] + profile[c]
    BY <1>2, AddedIs
  <2> HIDE DEF new
  <2>2. last \in Nat /\ n \in Nat /\ last <= n
    <3>1. last \in Ticks /\ (last = 0 \/ sv[last] # NoCounts)
      BY LastIs
    <3> QED
      BY <3>1 DEF Ticks
  <2> HIDE DEF last
  <2>3. Rows(rows)
    BY HoldRows
  <2>4. PICK more :
           /\ Rows(more) /\ SaveWaitProfile(rows, n, profile) = PruneWaits(more, n)
           /\ \A k \in Keys : At(more, k) = At(rows, k) + (IF k.gran = "minute" /\ k.bucket = n
                                                           THEN profile[k.class] ELSE 0)
    BY <1>2, <2>3, SaveIs DEF Profiles
  <2>5. /\ Rows(PruneWaits(more, n))
        /\ \A k \in Keys : At(PruneWaits(more, n), k) =
              IF k.gran = "minute"
                THEN IF k.bucket + KeepMinutes < n THEN 0 ELSE At(more, k)
                ELSE IF k.bucket + KeepHours < n THEN 0
                     ELSE At(more, k) + SumFunctionOnSet(more, AgedInto(more, n, k))
    BY <2>2, <2>4, PruneIs
  <2>6. \A k \in Keys : /\ k.bucket \in Ticks /\ k.bucket \in Nat /\ k.class \in Classes
                        /\ At(rows, k) = Due(sv, k, last) /\ At(rows, k) \in Nat
                        /\ At(more, k) \in Nat
    BY <2>3, <2>4, AtIs DEF Keys, Ticks, Hold, last
  <2>7. KeepMinutes \in Nat /\ KeepHours \in Nat
    BY RollupAssumption
  <2>8. ASSUME NEW k \in Keys, k.gran = "minute"
        PROVE  At(PruneWaits(more, n), k) = Due(new, k, n)
    <3>1. CASE k.bucket + KeepMinutes < n
      <4>1. Due(new, k, n) = 0
        BY <2>2, <2>6, <2>7, <2>8, <3>1 DEF Due
      <4> QED
        BY <2>5, <2>8, <3>1, <4>1
    <3>2. CASE ~ (k.bucket + KeepMinutes < n)
      <4>1. k.bucket + KeepMinutes >= n /\ k.bucket + KeepMinutes >= last
        BY <2>2, <2>6, <2>7, <3>2
      <4>2. At(rows, k) = sv[k.bucket][k.class]
        BY <2>6, <2>8, <4>1 DEF Due
      <4>3. Due(new, k, n) = new[k.bucket][k.class]
        BY <2>8, <4>1 DEF Due
      <4>4. At(PruneWaits(more, n), k) = At(more, k)
        BY <2>5, <2>8, <3>2
      <4>5. CASE k.bucket = n
        BY <2>1, <2>4, <2>6, <2>8, <4>2, <4>3, <4>4, <4>5
      <4>6. CASE k.bucket # n
        <5>1. new[k.bucket] = sv[k.bucket]
          BY <2>1, <2>6, <4>6
        <5>2. At(more, k) = At(rows, k) + 0
          BY <2>4, <4>6
        <5> QED
          BY <2>6, <4>2, <4>3, <4>4, <5>1, <5>2
      <4> QED
        BY <4>5, <4>6
    <3> QED
      BY <3>1, <3>2
  <2>9. ASSUME NEW k \in Keys, k.gran # "minute"
        PROVE  At(PruneWaits(more, n), k) = Due(new, k, n)
    <3> DEFINE h == k.bucket  c == k.class  f == SamplesOf(sv, c)  g == Minutes(more, c)
               old == AgedIn(h, last)  all == AgedIn(h, n)
    <3>0. /\ h \in Ticks /\ h \in Nat /\ c \in Classes /\ k = Key("hour", h, c)
          /\ At(more, k) = At(rows, k) + 0
      BY <2>4, <2>6, <2>9, KeyIs DEF Keys
    <3>1. CASE h + KeepHours < n
      <4>1. Due(new, k, n) = 0
        BY <2>2, <2>7, <2>9, <3>0, <3>1 DEF Due
      <4> QED
        BY <2>5, <2>9, <3>1, <4>1
    <3>2. CASE ~ (h + KeepHours < n)
      <4>1. At(PruneWaits(more, n), k) = At(more, k) + SumFunctionOnSet(more, AgedInto(more, n, k))
        BY <2>5, <2>9, <3>2
      <4>2. SumFunctionOnSet(more, AgedInto(more, n, k)) = SumFunctionOnSet(g, all)
        BY <2>2, <2>4, <3>0, AgedSum
      <4>3. h + KeepHours >= n /\ h + KeepHours >= last
        BY <2>2, <2>7, <3>0, <3>2
      <4>4. CASE HourOf(h) # h
        <5>1. all = {}
          <6> SUFFICES ASSUME NEW t \in Ticks, HourOf(t) = h
                       PROVE  FALSE
            BY DEF AgedIn, InHour
          <6> QED
            BY <4>4, HourTick
        <5>2. At(rows, k) = 0 /\ Due(new, k, n) = 0
          BY <2>6, <2>9, <4>4 DEF Due
        <5> QED
          BY <3>0, <4>1, <4>2, <5>1, <5>2, SumEmpty
      <4>5. CASE HourOf(h) = h
        <5>1. At(rows, k) = SumFunctionOnSet(f, old)
          BY <2>6, <2>9, <4>3, <4>5 DEF Due
        <5>2. Due(new, k, n) = SumFunctionOnSet(SamplesOf(new, c), all)
          BY <2>9, <4>3, <4>5 DEF Due
        <5>3. /\ all \in SUBSET Ticks /\ old \in SUBSET all /\ n \notin all
              /\ \A t \in all : (t \in old <=> t + KeepMinutes < last)
          BY <2>2, <2>7 DEF AgedIn, InHour, Ticks
        <5>4. IsFiniteSet(all) /\ IsFiniteSet(old) /\ IsFiniteSet(all \ old)
          BY <5>3, TicksFinite
        <5>5. \A t \in Ticks : f[t] = sv[t][c] /\ f[t] \in Nat /\ SamplesOf(new, c)[t] = new[t][c]
          BY <3>0 DEF SamplesOf, SaveHistories, Profiles
        <5>6. \A t \in all : g[t] = IF t \in old THEN 0 ELSE f[t]
          <6> SUFFICES ASSUME NEW t \in all
                       PROVE  g[t] = IF t \in old THEN 0 ELSE f[t]
            OBVIOUS
          <6> DEFINE m == Key("minute", t, c)
          <6>1. /\ t \in Ticks /\ t \in Nat /\ t # n /\ m \in Keys /\ m.gran = "minute"
                /\ m.bucket = t /\ m.class = c
            BY <3>0, <5>3, KeyIs DEF Ticks
          <6>2. g[t] = At(more, m)
            BY <6>1 DEF Minutes
          <6> HIDE DEF m, g
          <6>3. At(more, m) = At(rows, m) + 0 /\ At(rows, m) = Due(sv, m, last) /\ At(rows, m) \in Nat
            BY <2>4, <2>6, <6>1
          <6>4. Due(sv, m, last) = IF t + KeepMinutes >= last THEN sv[t][c] ELSE 0
            BY <6>1 DEF Due
          <6>5. t \in old <=> ~ (t + KeepMinutes >= last)
            BY <2>2, <2>7, <5>3, <6>1
          <6> QED
            BY <5>5, <6>1, <6>2, <6>3, <6>4, <6>5
        <5> HIDE DEF f, g, old, all
        <5>7. SumFunctionOnSet(g, all) = SumFunctionOnSet(f, all \ old)
          <6>1. SumFunctionOnSet(g, all) = SumFunctionOnSet(g, all \ old)
            <7>1. Naturals(g, all \ old) /\ \A t \in all \ (all \ old) : g[t] = 0
              BY <5>3, <5>5, <5>6 DEF Naturals
            <7>2. all \ old \in SUBSET all
              OBVIOUS
            <7> QED
              BY <5>4, <7>1, <7>2, SumSupport
          <6>2. SumFunctionOnSet(f, all \ old) = SumFunctionOnSet(g, all \ old)
            <7>1. Naturals(f, all \ old) /\ \A t \in all \ old : f[t] = g[t]
              BY <5>3, <5>5, <5>6 DEF Naturals
            <7> QED
              BY <5>4, <7>1, SumSame
          <6> QED
            BY <6>1, <6>2
        <5>8. SumFunctionOnSet(f, all) = SumFunctionOnSet(f, old) + SumFunctionOnSet(f, all \ old)
          <6>1. old \cup (all \ old) = all /\ old \cap (all \ old) = {} /\ Naturals(f, all)
            BY <5>3, <5>5 DEF Naturals
          <6> QED
            BY <5>4, <6>1, SumSplit
        <5>9. SumFunctionOnSet(f, all) = SumFunctionOnSet(SamplesOf(new, c), all)
          <6>1. Naturals(f, all) /\ \A t \in all : f[t] = SamplesOf(new, c)[t]
            BY <2>1, <5>3, <5>5 DEF Naturals
          <6> QED
            BY <5>4, <6>1, SumSame
        <5>10. At(rows, k) \in Nat
          BY <2>6
        <5> QED
          BY <3>0, <4>1, <4>2, <5>1, <5>2, <5>7, <5>8, <5>9, <5>10 DEF f, old, g, all
      <4> QED
        BY <4>4, <4>5
    <3> QED
      BY <3>1, <3>2
  <2>10. \A k \in Keys : At(PruneWaits(more, n), k) = Due(new, k, LastOf(new))
    BY <2>1, <2>8, <2>9
  <2>11. Hold(PruneWaits(more, n), new)
    BY <2>5, <2>10 DEF Hold, Rows
  <2> QED
    BY <2>4, <2>11 DEF new
<1> QED
  BY <1>1, <1>2
-----------------------------------------------------------------------------
(* A smaller function has no larger sum.                                    *)
LEMMA SumLess ==
  ASSUME NEW S, IsFiniteSet(S), NEW f, NEW g, Naturals(f, S), Naturals(g, S), \A x \in S : f[x] <= g[x]
  PROVE  SumFunctionOnSet(f, S) <= SumFunctionOnSet(g, S)
<1> DEFINE F == {s \in SUBSET S : SumFunctionOnSet(f, s) <= SumFunctionOnSet(g, s)}
<1>1. {} \in F
  BY SumEmpty
<1>2. ASSUME NEW A \in F, NEW x \in S \ A
      PROVE  A \cup {x} \in F
  <2>1. IsFiniteSet(A) /\ x \notin A /\ Naturals(f, A \cup {x}) /\ Naturals(g, A \cup {x})
    BY <1>2, FS_Subset DEF Naturals
  <2>2. /\ SumFunctionOnSet(f, A \cup {x}) = f[x] + SumFunctionOnSet(f, A)
        /\ SumFunctionOnSet(g, A \cup {x}) = g[x] + SumFunctionOnSet(g, A)
        /\ SumFunctionOnSet(f, A) \in Nat /\ SumFunctionOnSet(g, A) \in Nat
    BY <2>1, SumAdds
  <2>3. f[x] \in Nat /\ g[x] \in Nat /\ f[x] <= g[x]
    BY <1>2 DEF Naturals
  <2>4. SumFunctionOnSet(f, A) <= SumFunctionOnSet(g, A) /\ A \in SUBSET S
    BY <1>2
  <2>5. SumFunctionOnSet(f, A \cup {x}) <= SumFunctionOnSet(g, A \cup {x})
    BY <2>2, <2>3, <2>4
  <2> QED
    BY <1>2, <2>4, <2>5
<1>3. F \in SUBSET (SUBSET S)
  OBVIOUS
<1>4. S \in F
  <2> HIDE DEF F
  <2> QED
    BY <1>1, <1>2, <1>3, OneByOne
<1> QED
  BY <1>4

(* The rows of a class in some buckets: their minutes and their hours.      *)
Hours(rows, c) == [t \in Ticks |-> At(rows, Key("hour", t, c))]
RowsIn(rows, c, B) == {k \in DOMAIN rows : k.class = c /\ k.bucket \in B}

(* The samples of some buckets are those of their minute rows and of their  *)
(* hour rows.                                                               *)
LEMMA MinutesAndHours ==
  ASSUME MaxTime \in Nat, NEW rows, Rows(rows), NEW c \in Classes, NEW B \in SUBSET Ticks
  PROVE  /\ SumFunctionOnSet(rows, RowsIn(rows, c, B))
              = SumFunctionOnSet(Minutes(rows, c), B) + SumFunctionOnSet(Hours(rows, c), B)
         /\ Naturals(Minutes(rows, c), Ticks) /\ Naturals(Hours(rows, c), Ticks)
<1> DEFINE G == [k \in Keys |-> At(rows, k)]
           m == [t \in Ticks |-> Key("minute", t, c)]
           h == [t \in Ticks |-> Key("hour", t, c)]
           M == {m[t] : t \in B}
           H == {h[t] : t \in B}
           R == RowsIn(rows, c, B)
           fm == Minutes(rows, c)
           fh == Hours(rows, c)
<1>1. /\ \A t \in Ticks : m[t] \in Keys /\ m[t].gran = "minute" /\ m[t].bucket = t /\ m[t].class = c
      /\ \A t \in Ticks : h[t] \in Keys /\ h[t].gran = "hour" /\ h[t].bucket = t /\ h[t].class = c
  BY KeyIs
<1>2. \A t \in Ticks : fm[t] = At(rows, m[t]) /\ fh[t] = At(rows, h[t])
  BY DEF Minutes, Hours
<1>3. \A k \in Keys : G[k] = At(rows, k) /\ G[k] \in Nat /\ (k \notin DOMAIN rows => G[k] = 0)
  BY AtIs
<1>4. Naturals(fm, Ticks) /\ Naturals(fh, Ticks)
  BY <1>1, <1>2, <1>3 DEF Naturals
<1> HIDE DEF G, m, h, fm, fh
<1>5. M \in SUBSET Keys /\ H \in SUBSET Keys /\ M \cap H = {} /\ R \in SUBSET (M \cup H)
  <2>1. M \in SUBSET Keys /\ H \in SUBSET Keys
    BY <1>1
  <2>2. M \cap H = {}
    <3> SUFFICES ASSUME NEW t \in B, NEW u \in B, m[t] = h[u]
                 PROVE  FALSE
      OBVIOUS
    <3>1. m[t].gran = "minute" /\ h[u].gran = "hour"
      BY <1>1
    <3> QED
      BY <3>1
  <2>3. ASSUME NEW k \in R
        PROVE  k \in M \cup H
    <3>1. k \in Keys /\ k.class = c /\ k.bucket \in B
      BY DEF RowsIn, Rows
    <3>2. k.gran \in {"minute", "hour"} /\ k = Key(k.gran, k.bucket, c)
      BY <3>1, KeyIs DEF Keys
    <3>3. k = m[k.bucket] \/ k = h[k.bucket]
      BY <3>1, <3>2 DEF m, h
    <3> QED
      BY <3>1, <3>3
  <2> QED
    BY <2>1, <2>2, <2>3
<1>6. \A k \in M \cup H : k \in R <=> k \in DOMAIN rows
  <2>1. \A k \in M \cup H : k.class = c /\ k.bucket \in B
    BY <1>1
  <2> QED
    BY <2>1 DEF RowsIn
<1>7. \A k \in R : rows[k] = G[k]
  BY <1>3, <1>5 DEF RowsIn, At
<1>8. /\ SumFunctionOnSet(G, M) = SumFunctionOnSet(fm, B)
      /\ SumFunctionOnSet(G, H) = SumFunctionOnSet(fh, B)
  <2>1. IsFiniteSet(B) /\ Naturals(fm, B) /\ Naturals(fh, B)
    BY <1>4, TicksFinite DEF Naturals
  <2>2. \A t \in B : G[m[t]] = fm[t] /\ G[h[t]] = fh[t]
    BY <1>1, <1>2, <1>3
  <2>3. \A t, u \in B : (m[t] = m[u] => t = u) /\ (h[t] = h[u] => t = u)
    BY <1>1
  <2>4. M = {m[t] : t \in B} /\ H = {h[t] : t \in B}
    OBVIOUS
  <2> HIDE DEF M, H
  <2>5. SumFunctionOnSet(G, M) = SumFunctionOnSet(fm, B)
    BY <2>1, <2>2, <2>3, <2>4, SumRenamed
  <2>6. SumFunctionOnSet(G, H) = SumFunctionOnSet(fh, B)
    BY <2>1, <2>2, <2>3, <2>4, SumRenamed
  <2> QED
    BY <2>5, <2>6
<1> HIDE DEF M, H, R
<1>9. /\ IsFiniteSet(M) /\ IsFiniteSet(H) /\ IsFiniteSet(R) /\ IsFiniteSet(M \cup H)
      /\ Naturals(G, R) /\ Naturals(rows, R) /\ Naturals(G, M \cup H)
  <2>1. M \cup H \in SUBSET Keys /\ R \in SUBSET Keys
    BY <1>5
  <2>2. IsFiniteSet(M) /\ IsFiniteSet(H) /\ IsFiniteSet(R) /\ IsFiniteSet(M \cup H)
    BY <1>5, <2>1, KeysFinite
  <2> QED
    BY <1>3, <1>5, <1>7, <2>1, <2>2 DEF Naturals
<1>10. SumFunctionOnSet(rows, R) = SumFunctionOnSet(G, R)
  BY <1>7, <1>9, SumSame
<1>11. SumFunctionOnSet(G, M \cup H) = SumFunctionOnSet(G, R)
  <2>1. \A k \in (M \cup H) \ R : G[k] = 0
    BY <1>3, <1>5, <1>6
  <2> QED
    BY <1>5, <1>9, <2>1, SumSupport
<1>12. SumFunctionOnSet(G, M \cup H) = SumFunctionOnSet(G, M) + SumFunctionOnSet(G, H)
  BY <1>5, <1>9, SumSplit
<1> QED
  BY <1>4, <1>8, <1>10, <1>11, <1>12 DEF R, fm, fh

(* What they hold of the samples saved.                                     *)
AgedBy(last) == {t \in Ticks : t + KeepMinutes < last}
(* What the minute rows and the hour rows of a class hold.                  *)
LEMMA RowsAreDue ==
  ASSUME MaxTime \in Nat, NEW rows, NEW sv \in SaveHistories, Hold(rows, sv), NEW c \in Classes
  PROVE  /\ Naturals(SamplesOf(sv, c), Ticks) /\ Rows(rows)
         /\ \A t \in Ticks : Minutes(rows, c)[t] = IF t \in AgedBy(LastOf(sv)) THEN 0 ELSE SamplesOf(sv, c)[t]
         /\ \A t \in Ticks : Hours(rows, c)[t] =
               IF HourOf(t) = t /\ t + KeepHours >= LastOf(sv)
                 THEN SumFunctionOnSet(SamplesOf(sv, c), AgedIn(t, LastOf(sv))) ELSE 0
<1> DEFINE last == LastOf(sv)
<1>1. Naturals(SamplesOf(sv, c), Ticks)
  BY DEF Naturals, SamplesOf, SaveHistories, Profiles
<1>2. Rows(rows)
  BY HoldRows
<1>3. last \in Nat /\ KeepMinutes \in Nat
  BY LastIs, RollupAssumption DEF Ticks
<1>4. \A k \in Keys : At(rows, k) = Due(sv, k, last)
  BY DEF Hold
<1> HIDE DEF last
<1>5. ASSUME NEW t \in Ticks
      PROVE  Minutes(rows, c)[t] = IF t \in AgedBy(last) THEN 0 ELSE SamplesOf(sv, c)[t]
  <2> DEFINE k == Key("minute", t, c)
  <2>1. k \in Keys /\ k.gran = "minute" /\ k.bucket = t /\ k.class = c /\ t \in Nat
    BY KeyIs DEF Ticks
  <2>2. Minutes(rows, c)[t] = At(rows, k)
    BY DEF Minutes
  <2> HIDE DEF k
  <2>3. At(rows, k) = IF t + KeepMinutes >= last THEN sv[t][c] ELSE 0
    BY <1>4, <2>1 DEF Due
  <2>4. t \in AgedBy(last) <=> ~ (t + KeepMinutes >= last)
    BY <1>3, <2>1 DEF AgedBy
  <2> QED
    BY <2>2, <2>3, <2>4 DEF SamplesOf
<1>6. ASSUME NEW t \in Ticks
      PROVE  Hours(rows, c)[t] = IF HourOf(t) = t /\ t + KeepHours >= last
                                   THEN SumFunctionOnSet(SamplesOf(sv, c), AgedIn(t, last)) ELSE 0
  <2> DEFINE k == Key("hour", t, c)
  <2>1. k \in Keys /\ k.gran = "hour" /\ k.bucket = t /\ k.class = c
    BY KeyIs
  <2>2. Hours(rows, c)[t] = At(rows, k)
    BY DEF Hours
  <2> HIDE DEF k
  <2>3. At(rows, k) = Due(sv, k, last)
    BY <1>4, <2>1
  <2> QED
    BY <2>1, <2>2, <2>3 DEF Due
<1> QED
  BY <1>1, <1>2, <1>5, <1>6 DEF last
-----------------------------------------------------------------------------
(* The rows of an hour count every sample saved in it, until it is dropped. *)
LEMMA HourKept ==
  ASSUME MaxTime \in Nat, NEW rows, NEW sv \in SaveHistories, Hold(rows, sv), NEW c \in Classes,
         NEW h \in {HourOf(t) : t \in Ticks}
  PROVE  SumFunctionOnSet(rows, RowsIn(rows, c, InHour(h)))
           = IF h + KeepHours < LastOf(sv) THEN 0 ELSE SumFunctionOnSet(SamplesOf(sv, c), InHour(h))
<1> DEFINE last == LastOf(sv)  f == SamplesOf(sv, c)  B == InHour(h)  Old == AgedIn(h, last)
           fm == Minutes(rows, c)  fh == Hours(rows, c)
<1>1. /\ h \in Ticks /\ h \in Nat /\ HourOf(h) = h /\ h \in B
  <2>1. PICK t \in Ticks : h = HourOf(t)
    OBVIOUS
  <2>2. HourOf(t) \in Ticks /\ HourOf(HourOf(t)) = HourOf(t)
    BY HourTick
  <2> QED
    BY <2>1, <2>2 DEF InHour, Ticks
<1>2. /\ last \in Nat /\ Hour \in Nat /\ KeepMinutes \in Nat /\ KeepHours \in Nat
      /\ KeepMinutes + Hour <= KeepHours
  BY LastIs, RollupAssumption DEF Ticks
<1>3. /\ Naturals(f, Ticks) /\ Rows(rows)
      /\ \A t \in Ticks : fm[t] = IF t \in AgedBy(last) THEN 0 ELSE f[t]
      /\ \A t \in Ticks : fh[t] = IF HourOf(t) = t /\ t + KeepHours >= last
                                    THEN SumFunctionOnSet(f, AgedIn(t, last)) ELSE 0
  BY RowsAreDue
<1>4. B \in SUBSET Ticks /\ Old \in SUBSET B /\ \A t \in B : (t \in Old <=> t \in AgedBy(last))
  BY DEF InHour, AgedIn, AgedBy
<1>5. \A t \in B : HourOf(t) = h /\ t \in Nat /\ t < h + Hour
  <2>1. \A t \in B : HourOf(t) = h /\ t \in Nat
    BY DEF InHour, Ticks
  <2> QED
    BY <2>1, HourIs
<1>6. /\ SumFunctionOnSet(rows, RowsIn(rows, c, B)) = SumFunctionOnSet(fm, B) + SumFunctionOnSet(fh, B)
      /\ Naturals(fm, Ticks) /\ Naturals(fh, Ticks)
  BY <1>3, <1>4, MinutesAndHours
<1> HIDE DEF last, f, B, Old, fm, fh
<1>7. /\ IsFiniteSet(B) /\ IsFiniteSet(Old) /\ IsFiniteSet(B \ Old) /\ IsFiniteSet({h})
      /\ Naturals(f, B) /\ Naturals(f, Old) /\ Naturals(f, B \ Old)
      /\ Naturals(fm, B) /\ Naturals(fh, B) /\ Naturals(fh, {h})
  BY <1>1, <1>3, <1>4, <1>6, TicksFinite DEF Naturals
<1>8. SumFunctionOnSet(fh, B) = fh[h]
  <2>1. \A t \in B \ {h} : fh[t] = 0
    BY <1>3, <1>4, <1>5
  <2>2. SumFunctionOnSet(fh, B) = SumFunctionOnSet(fh, {h})
    BY <1>1, <1>7, <2>1, SumSupport
  <2>3. SumFunctionOnSet(fh, {} \cup {h}) = fh[h] + SumFunctionOnSet(fh, {})
    BY <1>7, FS_EmptySet, SumAdds
  <2>4. fh[h] \in Nat /\ {} \cup {h} = {h}
    BY <1>1, <1>6 DEF Naturals
  <2> QED
    BY <2>2, <2>3, <2>4, SumEmpty
<1>9. SumFunctionOnSet(fm, B) = SumFunctionOnSet(f, B \ Old)
  <2>1. \A t \in B \ Old : fm[t] = f[t]
    BY <1>3, <1>4
  <2>2. \A t \in B \ (B \ Old) : fm[t] = 0
    BY <1>3, <1>4
  <2>3. Naturals(fm, B \ Old) /\ B \ Old \in SUBSET B
    BY <1>7 DEF Naturals
  <2>4. SumFunctionOnSet(fm, B) = SumFunctionOnSet(fm, B \ Old)
    BY <1>7, <2>2, <2>3, SumSupport
  <2>5. SumFunctionOnSet(fm, B \ Old) = SumFunctionOnSet(f, B \ Old)
    BY <1>7, <2>1, <2>3, SumSame
  <2> QED
    BY <2>4, <2>5
<1>10. CASE h + KeepHours < last
  <2>1. \A t \in B : t + KeepMinutes < last
    BY <1>1, <1>2, <1>5, <1>10
  <2>2. B \ Old = {}
    BY <1>4, <2>1 DEF AgedBy
  <2>3. fh[h] = 0
    BY <1>1, <1>2, <1>3, <1>10
  <2>4. SumFunctionOnSet(f, B \ Old) = 0
    BY <2>2, SumEmpty
  <2>5. SumFunctionOnSet(rows, RowsIn(rows, c, B)) = 0
    BY <1>6, <1>8, <1>9, <2>3, <2>4
  <2> QED
    BY <1>10, <2>5 DEF last, B
<1>11. CASE ~ (h + KeepHours < last)
  <2>1. fh[h] = SumFunctionOnSet(f, Old)
    BY <1>1, <1>2, <1>3, <1>11 DEF Old
  <2>2. SumFunctionOnSet(f, Old \cup (B \ Old)) = SumFunctionOnSet(f, Old) + SumFunctionOnSet(f, B \ Old)
    <3>1. Old \cup (B \ Old) = B /\ Old \cap (B \ Old) = {}
      BY <1>4
    <3> QED
      BY <1>7, <3>1, SumSplit
  <2>3. Old \cup (B \ Old) = B
    BY <1>4
  <2>4. SumFunctionOnSet(f, Old) \in Nat /\ SumFunctionOnSet(f, B \ Old) \in Nat
    BY <1>7, SumRemoves
  <2>5. SumFunctionOnSet(rows, RowsIn(rows, c, B)) = SumFunctionOnSet(f, B)
    <3>1. SumFunctionOnSet(f, B) = SumFunctionOnSet(f, Old) + SumFunctionOnSet(f, B \ Old)
      BY <2>2, <2>3
    <3>2. SumFunctionOnSet(rows, RowsIn(rows, c, B)) = SumFunctionOnSet(f, B \ Old) + SumFunctionOnSet(f, Old)
      BY <1>6, <1>8, <1>9, <2>1
    <3> QED
      BY <2>4, <3>1, <3>2
  <2> QED
    BY <1>11, <2>5 DEF last, B, f
<1> QED
  BY <1>10, <1>11

(* The aged minutes in the hours of some buckets.                           *)
AgedUnder(B, last) == {t \in AgedBy(last) : HourOf(t) \in B}
(* The hour rows of some buckets hold no more than the minutes aged into    *)
(* these hours.                                                             *)
LEMMA HoursBounded ==
  ASSUME MaxTime \in Nat, NEW f, Naturals(f, Ticks), NEW g, NEW last \in Nat, Naturals(g, Ticks),
         \A t \in Ticks : g[t] <= SumFunctionOnSet(f, AgedIn(t, last)),
         NEW B \in SUBSET Ticks
  PROVE  SumFunctionOnSet(g, B) <= SumFunctionOnSet(f, AgedUnder(B, last))
<1> DEFINE F == {s \in SUBSET B : SumFunctionOnSet(g, s) <= SumFunctionOnSet(f, AgedUnder(s, last))}
<1>1. {} \in F
  <2>1. AgedUnder({}, last) = {}
    BY DEF AgedUnder
  <2> QED
    BY <2>1, SumEmpty
<1>2. ASSUME NEW A \in F, NEW x \in B \ A
      PROVE  A \cup {x} \in F
  <2>1. A \in SUBSET Ticks /\ x \in Ticks /\ x \notin A /\ A \cup {x} \in SUBSET B
        /\ SumFunctionOnSet(g, A) <= SumFunctionOnSet(f, AgedUnder(A, last))
    BY <1>2
  <2>2. /\ AgedUnder(A \cup {x}, last) = AgedUnder(A, last) \cup AgedIn(x, last)
        /\ AgedUnder(A, last) \cap AgedIn(x, last) = {}
        /\ AgedUnder(A, last) \in SUBSET Ticks /\ AgedIn(x, last) \in SUBSET Ticks
    BY <2>1 DEF AgedUnder, AgedBy, AgedIn, InHour
  <2>3. /\ IsFiniteSet(A) /\ IsFiniteSet(AgedUnder(A, last)) /\ IsFiniteSet(AgedIn(x, last))
        /\ Naturals(g, A \cup {x}) /\ Naturals(f, AgedUnder(A, last) \cup AgedIn(x, last))
        /\ Naturals(f, AgedUnder(A, last)) /\ Naturals(f, AgedIn(x, last))
    BY <2>1, <2>2, TicksFinite DEF Naturals
  <2>4. SumFunctionOnSet(g, A \cup {x}) = g[x] + SumFunctionOnSet(g, A) /\ SumFunctionOnSet(g, A) \in Nat
    BY <2>1, <2>3, SumAdds
  <2>5. SumFunctionOnSet(f, AgedUnder(A, last) \cup AgedIn(x, last))
          = SumFunctionOnSet(f, AgedUnder(A, last)) + SumFunctionOnSet(f, AgedIn(x, last))
    BY <2>2, <2>3, SumSplit
  <2>6. SumFunctionOnSet(f, AgedUnder(A, last)) \in Nat /\ SumFunctionOnSet(f, AgedIn(x, last)) \in Nat
    BY <2>3, SumRemoves
  <2>7. g[x] \in Nat /\ g[x] <= SumFunctionOnSet(f, AgedIn(x, last))
    BY <2>1 DEF Naturals
  <2>8. SumFunctionOnSet(g, A \cup {x}) <= SumFunctionOnSet(f, AgedUnder(A \cup {x}, last))
    <3>1. SumFunctionOnSet(f, AgedUnder(A \cup {x}, last))
            = SumFunctionOnSet(f, AgedUnder(A, last)) + SumFunctionOnSet(f, AgedIn(x, last))
      BY <2>2, <2>5
    <3> QED
      BY <2>1, <2>4, <2>6, <2>7, <3>1
  <2> QED
    BY <2>1, <2>8
<1>3. F \in SUBSET (SUBSET B) /\ IsFiniteSet(B)
  BY TicksFinite
<1>4. B \in F
  <2> HIDE DEF F
  <2> QED
    BY <1>1, <1>2, <1>3, OneByOne
<1> QED
  BY <1>4

(* What a study reads was saved before it began.                            *)
LEMMA BaselineIsOld ==
  ASSUME MaxTime \in Nat, NEW rows, NEW sv \in SaveHistories, Hold(rows, sv), NEW n \in Ticks,
         NEW start \in Nat, start <= n, n <= start + 1, LastOf(sv) <= n
  PROVE  \A c \in Classes :
           /\ ReadWaitShares(rows, Classes, n - From, n - Ends)[c] \in Nat
           /\ ReadWaitShares(rows, Classes, n - From, n - Ends)[c]
                <= SumFunctionOnSet(SamplesOf(sv, c), 0 .. start - 1)
<1> SUFFICES ASSUME NEW c \in Classes
             PROVE  /\ ReadWaitShares(rows, Classes, n - From, n - Ends)[c] \in Nat
                    /\ ReadWaitShares(rows, Classes, n - From, n - Ends)[c]
                         <= SumFunctionOnSet(SamplesOf(sv, c), 0 .. start - 1)
  OBVIOUS
<1> DEFINE last == LastOf(sv)  f == SamplesOf(sv, c)  fm == Minutes(rows, c)  fh == Hours(rows, c)
           B == {b \in Ticks : n - From <= b /\ b < n - Ends}
           Young == B \ AgedBy(last)
           Old == AgedUnder(B, last)
           Early == 0 .. start - 1
<1>1. /\ From \in Nat /\ Ends \in Nat \ {0} /\ Ends < From /\ From <= KeepMinutes /\ KeepMinutes \in Nat
      /\ KeepHours \in Nat /\ n \in Nat /\ last \in Nat
  BY WhyAssumption, RollupAssumption, LastIs DEF Ticks
<1>2. /\ Naturals(f, Ticks) /\ Rows(rows)
      /\ \A t \in Ticks : fm[t] = IF t \in AgedBy(last) THEN 0 ELSE f[t]
      /\ \A t \in Ticks : fh[t] = IF HourOf(t) = t /\ t + KeepHours >= last
                                    THEN SumFunctionOnSet(f, AgedIn(t, last)) ELSE 0
  BY RowsAreDue
<1>3. ReadWaitShares(rows, Classes, n - From, n - Ends)[c] = SumFunctionOnSet(rows, RowsIn(rows, c, B))
  <2>1. {k \in DOMAIN rows : k.class = c /\ n - From <= k.bucket /\ k.bucket < n - Ends} = RowsIn(rows, c, B)
    <3>1. \A k \in DOMAIN rows : k.bucket \in Ticks
      BY <1>2 DEF Rows, Keys
    <3> QED
      BY <3>1 DEF RowsIn
  <2> QED
    BY <2>1 DEF ReadWaitShares
<1>4. B \in SUBSET Ticks
  OBVIOUS
<1>5. /\ SumFunctionOnSet(rows, RowsIn(rows, c, B)) = SumFunctionOnSet(fm, B) + SumFunctionOnSet(fh, B)
      /\ Naturals(fm, Ticks) /\ Naturals(fh, Ticks)
  BY <1>2, <1>4, MinutesAndHours
<1>6. /\ Young \in SUBSET B /\ Young \in SUBSET Early /\ Old \in SUBSET Early /\ Young \cap Old = {}
      /\ Early \in SUBSET Ticks
  <2>1. \A t \in B : t \in Nat /\ t < n - Ends
    BY DEF Ticks
  <2>2. \A t \in Old : t \in Nat /\ t + KeepMinutes < last
    BY DEF AgedUnder, AgedBy, Ticks
  <2>3. Early \in SUBSET Ticks
    BY <1>1 DEF Ticks
  <2>4. Young \cap Old = {}
    BY DEF AgedUnder
  <2>5. ASSUME NEW t \in B
        PROVE  t \in Early
    <3>1. t \in Nat /\ t < n - Ends
      BY <2>1
    <3> HIDE DEF B
    <3> QED
      BY <1>1, <3>1
  <2>6. ASSUME NEW t \in Old
        PROVE  t \in Early
    <3>1. t \in Nat /\ t + KeepMinutes < last
      BY <2>2
    <3>2. last <= n
      OBVIOUS
    <3> HIDE DEF Old, last
    <3> QED
      BY <1>1, <3>1, <3>2
  <2> QED
    BY <2>3, <2>4, <2>5, <2>6
<1> HIDE DEF f, fm, fh, last
<1>7. SumFunctionOnSet(fm, B) = SumFunctionOnSet(f, Young)
  <2>1. /\ IsFiniteSet(B) /\ IsFiniteSet(Young) /\ Young \in SUBSET Ticks
    BY <1>4, <1>6, TicksFinite
  <2>2. Naturals(f, Young) /\ Naturals(fm, Young)
    BY <1>2, <1>5, <2>1 DEF Naturals
  <2>3. \A t \in Young : t \in Ticks /\ t \notin AgedBy(last)
    OBVIOUS
  <2>4. \A t \in Young : fm[t] = f[t]
    BY <1>2, <2>3
  <2>5. \A t \in B \ Young : t \in Ticks /\ t \in AgedBy(last)
    OBVIOUS
  <2>6. \A t \in B \ Young : fm[t] = 0
    BY <1>2, <2>5
  <2> HIDE DEF B, Young
  <2>7. SumFunctionOnSet(fm, B) = SumFunctionOnSet(fm, Young)
    BY <1>6, <2>1, <2>2, <2>6, SumSupport
  <2>8. SumFunctionOnSet(fm, Young) = SumFunctionOnSet(f, Young)
    BY <2>1, <2>2, <2>4, SumSame
  <2> QED
    BY <2>7, <2>8
<1>8. SumFunctionOnSet(fh, B) <= SumFunctionOnSet(f, Old)
  <2>1. ASSUME NEW t \in Ticks
        PROVE  fh[t] <= SumFunctionOnSet(f, AgedIn(t, last))
    <3>1. AgedIn(t, last) \in SUBSET Ticks
      BY DEF AgedIn, InHour
    <3>2. Naturals(f, AgedIn(t, last)) /\ IsFiniteSet(AgedIn(t, last))
      BY <1>2, <3>1, TicksFinite DEF Naturals
    <3>3. SumFunctionOnSet(f, AgedIn(t, last)) \in Nat
      BY <3>2, SumRemoves
    <3>4. fh[t] = 0 \/ fh[t] = SumFunctionOnSet(f, AgedIn(t, last))
      BY <1>2
    <3> QED
      BY <3>3, <3>4
  <2> HIDE DEF B
  <2> QED
    BY <1>1, <1>2, <1>4, <1>5, <2>1, HoursBounded
<1>9. /\ SumFunctionOnSet(f, Young \cup Old) = SumFunctionOnSet(f, Young) + SumFunctionOnSet(f, Old)
      /\ SumFunctionOnSet(f, Young \cup Old) <= SumFunctionOnSet(f, Early)
      /\ SumFunctionOnSet(f, Young) \in Nat /\ SumFunctionOnSet(f, Old) \in Nat
      /\ SumFunctionOnSet(f, Early) \in Nat
      /\ SumFunctionOnSet(fh, B) \in Nat
  <2> HIDE DEF Young, Old, Early, B
  <2>1. Young \cup Old \in SUBSET Early /\ Young \in SUBSET Ticks /\ Old \in SUBSET Ticks
    BY <1>6
  <2>2. /\ IsFiniteSet(Young) /\ IsFiniteSet(Old) /\ IsFiniteSet(Early) /\ IsFiniteSet(B)
        /\ Naturals(f, Young) /\ Naturals(f, Old) /\ Naturals(f, Early) /\ Naturals(f, Young \cup Old)
        /\ Naturals(fh, B)
    BY <1>2, <1>4, <1>5, <1>6, <2>1, TicksFinite DEF Naturals
  <2>3. SumFunctionOnSet(f, Young \cup Old) = SumFunctionOnSet(f, Young) + SumFunctionOnSet(f, Old)
    BY <1>6, <2>2, SumSplit
  <2>4. SumFunctionOnSet(f, Young \cup Old) <= SumFunctionOnSet(f, Early)
    BY <2>1, <2>2, SumMonotone
  <2>5. /\ SumFunctionOnSet(f, Young) \in Nat /\ SumFunctionOnSet(f, Old) \in Nat
        /\ SumFunctionOnSet(f, Early) \in Nat /\ SumFunctionOnSet(fh, B) \in Nat
    BY <2>2, SumRemoves
  <2> QED
    BY <2>3, <2>4, <2>5
<1> HIDE DEF Young, Old, Early, B
<1>10. /\ ReadWaitShares(rows, Classes, n - From, n - Ends)[c] \in Nat
       /\ ReadWaitShares(rows, Classes, n - From, n - Ends)[c] <= SumFunctionOnSet(f, Early)
  BY <1>3, <1>5, <1>7, <1>8, <1>9
<1> QED
  BY <1>10 DEF f, Early
-----------------------------------------------------------------------------
(* The baseline of a study against the samples saved, in a history.         *)
Predates(h, sv, start) ==
    \A c \in Classes : h[c] <= SumFunctionOnSet(SamplesOf(sv, c), 0 .. start - 1)

(* A save keeps the rows what they should be, and a baseline read before    *)
(* it old.                                                                  *)
LEMMA FoldsKeep ==
  ASSUME MaxTime \in Nat, NEW rows, NEW sv \in SaveHistories, Hold(rows, sv), NEW n \in Ticks,
         \A t \in Ticks : sv[t] # NoCounts => t <= n, NEW profile \in Profiles,
         NEW h \in Profiles, NEW start \in Nat, start <= MaxTime, Predates(h, sv, start)
  PROVE  /\ Added(sv, n, profile) \in SaveHistories
         /\ Hold(SaveWaitProfile(rows, n, profile), Added(sv, n, profile))
         /\ \A t \in Ticks : Added(sv, n, profile)[t] # NoCounts => t <= n
         /\ Predates(h, Added(sv, n, profile), start)
<1> DEFINE new == Added(sv, n, profile)
<1>1. /\ new \in SaveHistories /\ \A t \in Ticks : new[t] # NoCounts => t <= n
      /\ \A t \in Ticks : t # n => new[t] = sv[t]
      /\ \A c \in Classes : new[n][c] = sv[n][c] + profile[c]
  BY AddedIs
<1>2. Hold(SaveWaitProfile(rows, n, profile), new)
  BY FoldHolds
<1> HIDE DEF new
<1>3. ASSUME NEW c \in Classes
      PROVE  h[c] <= SumFunctionOnSet(SamplesOf(new, c), 0 .. start - 1)
  <2> DEFINE f == SamplesOf(sv, c)  g == SamplesOf(new, c)  Early == 0 .. start - 1
  <2>1. \A t \in Ticks : f[t] \in Nat /\ g[t] \in Nat /\ f[t] = sv[t][c] /\ g[t] = new[t][c]
    BY <1>1 DEF SamplesOf, SaveHistories, Profiles
  <2>2. profile[c] \in Nat
    BY DEF Profiles
  <2>3. \A t \in Ticks : f[t] <= g[t]
    <3> SUFFICES ASSUME NEW t \in Ticks
                 PROVE  f[t] <= g[t]
      OBVIOUS
    <3>1. CASE t = n
      <4>1. g[t] = f[t] + profile[c]
        BY <1>1, <2>1, <3>1
      <4> HIDE DEF f, g
      <4> QED
        BY <2>1, <2>2, <4>1
    <3>2. CASE t # n
      <4>1. g[t] = f[t]
        BY <1>1, <2>1, <3>2
      <4> HIDE DEF f, g
      <4> QED
        BY <2>1, <4>1
    <3> QED
      BY <3>1, <3>2
  <2>4. Early \in SUBSET Ticks
    BY DEF Ticks
  <2>5. h[c] <= SumFunctionOnSet(f, Early) /\ h[c] \in Nat
    BY DEF Predates, Profiles
  <2> HIDE DEF f, g, Early
  <2>6. IsFiniteSet(Early) /\ Naturals(f, Early) /\ Naturals(g, Early) /\ \A t \in Early : f[t] <= g[t]
    BY <2>1, <2>3, <2>4, TicksFinite DEF Naturals
  <2>7. SumFunctionOnSet(f, Early) <= SumFunctionOnSet(g, Early)
    BY <2>6, SumLess
  <2>8. SumFunctionOnSet(f, Early) \in Nat /\ SumFunctionOnSet(g, Early) \in Nat
    BY <2>6, SumRemoves
  <2>9. h[c] <= SumFunctionOnSet(g, Early)
    BY <2>5, <2>7, <2>8
  <2> QED
    BY <2>9 DEF g, Early
<1> QED
  BY <1>1, <1>2, <1>3 DEF Predates, new

(* The parts of the invariant a step has to reestablish.                    *)
LEMMA WhyInvParts ==
  /\ WhyInv => /\ now \in Ticks /\ now \in Nat /\ study \in Studies /\ hist \in Profiles
               /\ saved \in SaveHistories /\ Hold(rollups, saved) /\ InTime
               /\ Predates(hist, saved, study.start)
               /\ study.start \in Nat /\ study.start <= MaxTime
  /\ (/\ now' \in Ticks /\ study' \in Studies /\ hist' \in Profiles
      /\ saved' \in SaveHistories /\ Hold(rollups', saved') /\ InTime'
      /\ Predates(hist', saved', study'.start)) => WhyInv'
<1>1. /\ BaselinePredatesStudy <=> Predates(hist, saved, study.start)
      /\ BaselinePredatesStudy' <=> Predates(hist', saved', study'.start)
  BY DEF BaselinePredatesStudy, Predates, SavedOf, SamplesOf, Ticks
<1>2. ASSUME WhyInv
      PROVE  /\ now \in Ticks /\ now \in Nat /\ study \in Studies /\ hist \in Profiles
             /\ saved \in SaveHistories /\ Hold(rollups, saved) /\ InTime
             /\ Predates(hist, saved, study.start)
             /\ study.start \in Nat /\ study.start <= MaxTime
  <2>1. now \in Ticks /\ study \in Studies /\ hist \in Profiles /\ saved \in SaveHistories
    BY <1>2 DEF WhyInv, WhyTypes, Profiles, SaveHistories
  <2>2. Hold(rollups, saved) /\ InTime /\ Predates(hist, saved, study.start)
    BY <1>1, <1>2 DEF WhyInv, RollupsAre
  <2>3. study.start \in Nat /\ now \in Nat /\ now <= MaxTime /\ MaxTime \in Nat
    BY <2>1, WhyAssumption DEF Studies, Ticks
  <2>4. study.start <= now
    BY <2>2 DEF InTime
  <2>5. study.start <= MaxTime
    BY <2>3, <2>4
  <2> QED
    BY <2>1, <2>2, <2>3, <2>5
<1>3. ASSUME now' \in Ticks, study' \in Studies, hist' \in Profiles, saved' \in SaveHistories,
             Hold(rollups', saved'), InTime', Predates(hist', saved', study'.start)
      PROVE  WhyInv'
  <2>1. WhyTypes'
    BY <1>3 DEF WhyTypes, Profiles, SaveHistories
  <2>2. RollupsAre' /\ BaselinePredatesStudy'
    BY <1>1, <1>3 DEF RollupsAre
  <2> QED
    BY <1>3, <2>1, <2>2 DEF WhyInv
<1> QED
  BY <1>2, <1>3

(* The store starts empty, and nothing is studied.                          *)
LEMMA WhyInvInit == WhyInit => WhyInv
<1> SUFFICES ASSUME WhyInit
             PROVE  WhyInv
  OBVIOUS
<1>0. MaxTime \in Nat
  BY WhyAssumption
<1>1. NoCounts \in Profiles
  BY DEF NoCounts, Profiles
<1>2. study \in Studies
  BY <1>1 DEF WhyInit, NoStudy, Studies, StudyPhases, Profiles
<1>3. saved \in SaveHistories /\ \A t \in Ticks : saved[t] = NoCounts
  BY <1>1 DEF WhyInit, SaveHistories, Ticks
<1>4. WhyTypes
  BY <1>0, <1>1, <1>2, <1>3 DEF WhyInit, WhyTypes, Ticks, Profiles, SaveHistories
<1>5. InTime
  <2>1. now = 0 /\ study.start = 0 /\ study.phase = "none"
    BY DEF WhyInit, NoStudy
  <2> QED
    BY <1>3, <2>1 DEF InTime
<1>6. \A c \in Classes, S \in SUBSET Ticks : SumFunctionOnSet(SamplesOf(saved, c), S) = 0
  <2> SUFFICES ASSUME NEW c \in Classes, NEW S \in SUBSET Ticks
               PROVE  SumFunctionOnSet(SamplesOf(saved, c), S) = 0
    OBVIOUS
  <2>1. \A t \in S : SamplesOf(saved, c)[t] = 0
    BY <1>3 DEF SamplesOf, NoCounts
  <2>2. IsFiniteSet(S)
    BY <1>0, TicksFinite
  <2> QED
    BY <2>1, <2>2, SumZero
<1>7. RollupsAre
  <2>1. DOMAIN rollups = {}
    BY DEF WhyInit, NoRows
  <2>2. \A k \in Keys : At(rollups, k) = 0
    BY <2>1 DEF At
  <2>3. \A k \in Keys : Due(saved, k, LastOf(saved)) = 0
    <3> SUFFICES ASSUME NEW k \in Keys
                 PROVE  Due(saved, k, LastOf(saved)) = 0
      OBVIOUS
    <3>1. k.bucket \in Ticks /\ k.class \in Classes
      BY DEF Keys
    <3>2. saved[k.bucket][k.class] = 0
      BY <1>3, <3>1 DEF NoCounts
    <3>3. AgedIn(k.bucket, LastOf(saved)) \in SUBSET Ticks
      BY DEF AgedIn, InHour
    <3> QED
      BY <1>6, <3>1, <3>2, <3>3 DEF Due
  <2> QED
    BY <2>1, <2>2, <2>3 DEF RollupsAre, Hold
<1>8. BaselinePredatesStudy
  <2>1. hist = NoCounts /\ study.start = 0
    BY DEF WhyInit, NoStudy
  <2>2. \A c \in Classes : hist[c] = 0
    BY <2>1 DEF NoCounts
  <2>3. 0 .. study.start - 1 = {}
    BY <2>1
  <2>4. \A c \in Classes : SumFunctionOnSet(SavedOf(c), 0 .. study.start - 1) = 0
    BY <2>3, SumEmpty
  <2> QED
    BY <2>2, <2>4 DEF BaselinePredatesStudy
<1> QED
  BY <1>4, <1>5, <1>7, <1>8 DEF WhyInv

(* A sample taken leaves the store and the baseline alone.                  *)
LEMMA SamplesKeep ==
  ASSUME WhyInv, study' \in Studies, study'.start = study.start,
         study'.phase \in {"sampling", "sampled", "read"} => study.phase \in {"sampling", "sampled", "read"},
         UNCHANGED <<now, rollups, hist, saved>>
  PROVE  WhyInv'
<1>1. /\ now \in Ticks /\ hist \in Profiles /\ saved \in SaveHistories /\ Hold(rollups, saved)
      /\ InTime /\ Predates(hist, saved, study.start)
  BY WhyInvParts
<1>2. InTime'
  BY <1>1 DEF InTime
<1> QED
  BY <1>1, <1>2, WhyInvParts
-----------------------------------------------------------------------------
(* Every inspection, poll, reading of the baseline and save keeps the       *)
(* invariant.                                                               *)
LEMMA WhyInvNext ==
  ASSUME WhyInv, [WhyNext]_whyVars
  PROVE  WhyInv'
<1>0. /\ now \in Ticks /\ now \in Nat /\ study \in Studies /\ hist \in Profiles
      /\ saved \in SaveHistories /\ Hold(rollups, saved) /\ InTime
      /\ Predates(hist, saved, study.start)
      /\ study.start \in Nat /\ study.start <= MaxTime /\ MaxTime \in Nat
  BY WhyInvParts, WhyAssumption
<1>1. /\ study.start <= now
      /\ study.phase \in {"sampling", "sampled", "read"} => now <= study.start + 1
      /\ \A t \in Ticks : saved[t] # NoCounts => t <= now
  BY <1>0 DEF InTime
<1> DEFINE polled == study.polls + Hz * Stretch
           failed == study.failures + Hz * Stretch
           snapped == study.snaps + 1
<1>2. Hz * Stretch \in Nat /\ NoCounts \in Profiles
  <2>1. Hz \in Nat /\ Stretch \in Nat
    BY WhyAssumption
  <2> QED
    BY <2>1 DEF NoCounts, Profiles
<1>3. polled \in Nat /\ failed \in Nat /\ snapped \in Nat
  <2>1. study.polls \in Nat /\ study.failures \in Nat /\ study.snaps \in Nat
    BY <1>0 DEF Studies
  <2> QED
    BY <1>2, <2>1
<1> HIDE DEF polled, failed, snapped
<1>4. ASSUME NEW load \in Loads, Inspect(load)
      PROVE  WhyInv'
  <2>1. /\ now' = now + 1 /\ now < MaxTime
        /\ study.phase \in {"sampling", "sampled", "read"} => now = study.start
        /\ Folds(load.waits, now + 1) /\ study' = study /\ hist' = hist
    BY <1>4 DEF Inspect, TickPasses
  <2>2. now + 1 \in Ticks /\ load.waits \in Profiles
    BY <1>0, <2>1, WhyAssumption DEF Ticks, Profiles
  <2>3. /\ rollups' = SaveWaitProfile(rollups, now + 1, load.waits)
        /\ saved' = Added(saved, now + 1, load.waits)
    BY <2>1 DEF Folds, Added
  <2>4. \A t \in Ticks : saved[t] # NoCounts => t <= now + 1
    BY <1>0, <1>1 DEF Ticks
  <2>5. /\ saved' \in SaveHistories /\ Hold(rollups', saved')
        /\ \A t \in Ticks : saved'[t] # NoCounts => t <= now + 1
        /\ Predates(hist, saved', study.start)
    BY <1>0, <2>2, <2>3, <2>4, FoldsKeep
  <2>6. InTime'
    BY <1>0, <1>1, <2>1, <2>5 DEF InTime
  <2> QED
    BY <1>0, <2>1, <2>2, <2>5, <2>6, WhyInvParts
<1>5. ASSUME Idle
      PROVE  WhyInv'
  <2>1. /\ now' = now + 1 /\ now < MaxTime
        /\ study.phase \in {"sampling", "sampled", "read"} => now = study.start
        /\ UNCHANGED <<rollups, study, hist, saved>>
    BY <1>5 DEF Idle, TickPasses
  <2>2. now' \in Ticks
    BY <1>0, <2>1 DEF Ticks
  <2>3. \A t \in Ticks : saved[t] # NoCounts => t <= now + 1
    BY <1>0, <1>1 DEF Ticks
  <2>4. InTime'
    BY <1>0, <1>1, <2>1, <2>3 DEF InTime
  <2> QED
    BY <1>0, <2>1, <2>2, <2>4, WhyInvParts
<1>6. ASSUME NEW s \in Starts, StartStudy(s)
      PROVE  WhyInv'
  <2>1. /\ study' = [NoStudy EXCEPT !.phase = "sampling", !.start = now, !.cmd = s.cmd, !.partial = s.partial]
        /\ hist' = NoCounts /\ UNCHANGED <<now, rollups, saved>>
    BY <1>6 DEF StartStudy
  <2>2. s.cmd \in {"why", "waits"} /\ s.partial \in BOOLEAN
    BY WhyAssumption
  <2>3. study' \in Studies /\ study'.start = now
    BY <1>0, <1>2, <2>1, <2>2 DEF NoStudy, Studies, StudyPhases, Profiles
  <2>4. InTime'
    BY <1>0, <1>1, <2>1, <2>3 DEF InTime
  <2>5. Predates(NoCounts, saved, now)
    <3> SUFFICES ASSUME NEW c \in Classes
                 PROVE  NoCounts[c] <= SumFunctionOnSet(SamplesOf(saved, c), 0 .. now - 1)
      BY DEF Predates
    <3>1. 0 .. now - 1 \in SUBSET Ticks
      BY <1>0 DEF Ticks
    <3>2. IsFiniteSet(0 .. now - 1)
      BY <1>0, <3>1, TicksFinite
    <3>3. Naturals(SamplesOf(saved, c), 0 .. now - 1)
      BY <1>0, <3>1 DEF Naturals, SamplesOf, SaveHistories, Profiles
    <3>4. SumFunctionOnSet(SamplesOf(saved, c), 0 .. now - 1) \in Nat
      BY <3>2, <3>3, SumRemoves
    <3> QED
      BY <3>4 DEF NoCounts
  <2> QED
    BY <1>0, <1>2, <2>1, <2>3, <2>4, <2>5, WhyInvParts
<1>7. ASSUME NEW active \in Polls, Poll(active)
      PROVE  WhyInv'
  <2> DEFINE more == [s \in Sessions |-> [c \in Classes |->
                         study.samples[s][c]
                           + (IF s \in DOMAIN active /\ active[s].class = c THEN active[s].polls ELSE 0)]]
  <2>1. /\ study' = [study EXCEPT !.polls = polled, !.samples = more]
        /\ UNCHANGED <<now, rollups, hist, saved>>
    BY <1>7 DEF Poll, Samples, polled
  <2>2. more \in [Sessions -> [Classes -> Nat]]
    <3>1. \A s \in Sessions : s \in DOMAIN active => active[s].polls \in Nat
      BY <1>2, WhyAssumption
    <3>2. \A s \in Sessions, c \in Classes : study.samples[s][c] \in Nat
      BY <1>0 DEF Studies
    <3>3. \A s \in Sessions, c \in Classes : more[s][c] \in Nat
      BY <3>1, <3>2
    <3> QED
      BY <3>3
  <2> HIDE DEF more
  <2>3. study' \in Studies /\ study'.start = study.start /\ study'.phase = study.phase
    BY <1>0, <1>3, <2>1, <2>2 DEF Studies
  <2> QED
    BY <2>1, <2>3, SamplesKeep
<1>8. ASSUME PollFails
      PROVE  WhyInv'
  <2>1. /\ study' = [study EXCEPT !.polls = polled, !.failures = failed]
        /\ UNCHANGED <<now, rollups, hist, saved>>
    BY <1>8 DEF PollFails, Samples, polled, failed
  <2>2. study' \in Studies /\ study'.start = study.start /\ study'.phase = study.phase
    BY <1>0, <1>3, <2>1 DEF Studies
  <2> QED
    BY <2>1, <2>2, SamplesKeep
<1>9. ASSUME NEW edges \in Sightings, Sight(edges)
      PROVE  WhyInv'
  <2> DEFINE Of(h) == {e[1] : e \in {d \in edges : d[2] = h}}
             times == [h \in Holders |-> study.sighted[h] + (IF Of(h) = {} THEN 0 ELSE 1)]
             whom == [h \in Holders |-> study.victims[h] \cup Of(h)]
  <2>1. /\ study' = [study EXCEPT !.snaps = snapped, !.sighted = times, !.victims = whom]
        /\ UNCHANGED <<now, rollups, hist, saved>>
    BY <1>9 DEF Sight, Samples, snapped
  <2>2. times \in [Holders -> Nat]
    BY <1>0 DEF Studies
  <2>3. whom \in [Holders -> SUBSET {e[1] : e \in UNION Sightings}]
    <3>1. \A h \in Holders : Of(h) \in SUBSET {e[1] : e \in UNION Sightings}
      OBVIOUS
    <3> QED
      BY <1>0, <3>1 DEF Studies
  <2> HIDE DEF times, whom
  <2>4. study' \in Studies /\ study'.start = study.start /\ study'.phase = study.phase
    BY <1>0, <1>3, <2>1, <2>2, <2>3 DEF Studies
  <2> QED
    BY <2>1, <2>4, SamplesKeep
<1>10. ASSUME SightFails
      PROVE  WhyInv'
  <2>1. study' = [study EXCEPT !.snaps = snapped] /\ UNCHANGED <<now, rollups, hist, saved>>
    BY <1>10 DEF SightFails, Samples, snapped
  <2>2. study' \in Studies /\ study'.start = study.start /\ study'.phase = study.phase
    BY <1>0, <1>3, <2>1 DEF Studies
  <2> QED
    BY <2>1, <2>2, SamplesKeep
<1>11. ASSUME EndStudy
       PROVE  WhyInv'
  <2>1. /\ study' = [study EXCEPT !.phase = "sampled"] /\ study.phase = "sampling"
        /\ UNCHANGED <<now, rollups, hist, saved>>
    BY <1>11 DEF EndStudy, Samples
  <2>2. study' \in Studies /\ study'.start = study.start
    BY <1>0, <2>1 DEF Studies, StudyPhases
  <2> QED
    BY <2>1, <2>2, SamplesKeep
<1>12. ASSUME NEW opens \in BOOLEAN, ReadBaseline(opens)
       PROVE  WhyInv'
  <2>1. /\ study.phase = "sampled" /\ study' = [study EXCEPT !.phase = IF opens THEN "read" ELSE "answered"]
        /\ hist' = (IF opens THEN Baseline ELSE NoCounts)
        /\ UNCHANGED <<now, rollups, saved>>
    BY <1>12 DEF ReadBaseline
  <2>2. study' \in Studies /\ study'.start = study.start
    BY <1>0, <2>1 DEF Studies, StudyPhases
  <2>3. InTime'
    BY <1>0, <1>1, <2>1, <2>2 DEF InTime
  <2>4. Baseline \in Profiles /\ Predates(Baseline, saved, study.start)
    <3>1. LastOf(saved) <= now
      <4>1. LastOf(saved) \in Ticks /\ (LastOf(saved) = 0 \/ saved[LastOf(saved)] # NoCounts)
        BY <1>0, LastIs
      <4>2. \A l \in Ticks : l = 0 \/ saved[l] # NoCounts => l <= now
        BY <1>0, <1>1
      <4> QED
        BY <4>1, <4>2
    <3>2. now <= study.start + 1
      BY <1>1, <2>1
    <3>3. \A c \in Classes :
             Baseline[c] \in Nat /\ Baseline[c] <= SumFunctionOnSet(SamplesOf(saved, c), 0 .. study.start - 1)
      BY <1>0, <1>1, <3>1, <3>2, BaselineIsOld DEF Baseline
    <3>4. Baseline = [c \in Classes |-> Baseline[c]]
      BY DEF Baseline, ReadWaitShares
    <3> QED
      BY <3>3, <3>4 DEF Profiles, Predates
  <2>5. ASSUME ~ opens
        PROVE  Predates(NoCounts, saved, study.start)
    <3> SUFFICES ASSUME NEW c \in Classes
                 PROVE  NoCounts[c] <= SumFunctionOnSet(SamplesOf(saved, c), 0 .. study.start - 1)
      BY DEF Predates
    <3>1. hist[c] \in Nat /\ hist[c] <= SumFunctionOnSet(SamplesOf(saved, c), 0 .. study.start - 1)
      BY <1>0 DEF Predates, Profiles
    <3>2. 0 .. study.start - 1 \in SUBSET Ticks
      BY <1>0 DEF Ticks
    <3>3. IsFiniteSet(0 .. study.start - 1) /\ Naturals(SamplesOf(saved, c), 0 .. study.start - 1)
      BY <1>0, <3>2, TicksFinite DEF Naturals, SamplesOf, SaveHistories, Profiles
    <3>4. SumFunctionOnSet(SamplesOf(saved, c), 0 .. study.start - 1) \in Nat
      BY <3>3, SumRemoves
    <3> QED
      BY <3>4 DEF NoCounts
  <2>6. hist' \in Profiles /\ Predates(hist', saved, study.start)
    BY <1>2, <2>1, <2>4, <2>5
  <2> QED
    BY <1>0, <2>1, <2>2, <2>3, <2>6, WhyInvParts
<1>13. ASSUME NEW saves \in BOOLEAN, SaveStudy(saves)
       PROVE  WhyInv'
  <2>1. /\ study' = [study EXCEPT !.phase = "answered"] /\ UNCHANGED <<now, hist>>
        /\ \/ Folds(Profile(study), now)
           \/ UNCHANGED <<rollups, saved>>
    BY <1>13 DEF SaveStudy
  <2>2. study' \in Studies /\ study'.start = study.start /\ study'.phase = "answered"
    BY <1>0, <2>1 DEF Studies, StudyPhases
  <2>3. CASE Folds(Profile(study), now)
    <3>1. Profile(study) \in Profiles
      BY <1>0, CountIs DEF Profiles
    <3>2. /\ rollups' = SaveWaitProfile(rollups, now, Profile(study))
          /\ saved' = Added(saved, now, Profile(study))
      BY <2>3 DEF Folds, Added
    <3>3. /\ saved' \in SaveHistories /\ Hold(rollups', saved')
          /\ \A t \in Ticks : saved'[t] # NoCounts => t <= now
          /\ Predates(hist, saved', study.start)
      BY <1>0, <1>1, <3>1, <3>2, FoldsKeep
    <3>4. InTime'
      BY <1>1, <2>1, <2>2, <3>3 DEF InTime
    <3> QED
      BY <1>0, <2>1, <2>2, <3>3, <3>4, WhyInvParts
  <2>4. CASE UNCHANGED <<rollups, saved>>
    BY <2>1, <2>2, <2>4, SamplesKeep
  <2> QED
    BY <2>1, <2>3, <2>4
<1>14. ASSUME UNCHANGED whyVars
       PROVE  WhyInv'
  BY <1>14 DEF whyVars, WhyInv, WhyTypes, InTime, RollupsAre, BaselinePredatesStudy, SavedOf
<1> QED
  BY <1>4, <1>5, <1>6, <1>7, <1>8, <1>9, <1>10, <1>11, <1>12, <1>13, <1>14 DEF WhyNext

(* Rows of wait_rollups always hold the samples due to them, and no study   *)
(* reads its own.                                                           *)
THEOREM WhyInvHolds == WhySpec => []WhyInv
  BY WhyInvInit, WhyInvNext, PTL DEF WhySpec

(* An hour of the store that is not beyond the horizon has what was saved   *)
(* in it, whatever was folded and when.                                     *)
THEOREM HoursConserved == WhySpec => []WaitsConserved
<1>1. WhyInv => WaitsConserved
  <2> SUFFICES ASSUME WhyInv, NEW h \in {HourOf(t) : t \in 0 .. MaxTime}, NEW c \in Classes
               PROVE  KeptIn(h, c) = IF h + KeepHours < LastSave THEN 0 ELSE SavedIn(h, c)
    BY DEF WaitsConserved
  <2>1. saved \in SaveHistories /\ Hold(rollups, saved) /\ MaxTime \in Nat
    BY WhyInvParts, WhyAssumption
  <2>2. SumFunctionOnSet(rollups, RowsIn(rollups, c, InHour(h)))
           = IF h + KeepHours < LastOf(saved) THEN 0 ELSE SumFunctionOnSet(SamplesOf(saved, c), InHour(h))
    BY <2>1, HourKept DEF Ticks
  <2>3. KeptIn(h, c) = SumFunctionOnSet(rollups, RowsIn(rollups, c, InHour(h)))
    <3>1. \A k \in DOMAIN rollups : k.bucket \in Ticks
      BY <2>1 DEF Hold, Keys
    <3>2. {k \in DOMAIN rollups : k.class = c /\ HourOf(k.bucket) = h} = RowsIn(rollups, c, InHour(h))
      BY <3>1 DEF RowsIn, InHour
    <3> QED
      BY <3>2 DEF KeptIn
  <2>4. LastSave = LastOf(saved) /\ SavedIn(h, c) = SumFunctionOnSet(SamplesOf(saved, c), InHour(h))
    BY DEF LastSave, LastOf, SavedIn, SavedOf, SamplesOf, InHour, Ticks
  <2> QED
    BY <2>2, <2>3, <2>4
<1> QED
  BY <1>1, WhyInvHolds, PTL

(* Whatever the baseline of a study counts was saved before the study began.*)
THEOREM NotCorroboratedByItself == WhySpec => []BaselinePredatesStudy
<1>1. WhyInv => BaselinePredatesStudy
  BY DEF WhyInv
<1> QED
  BY <1>1, WhyInvHolds, PTL
-----------------------------------------------------------------------------
(* The class sampled most, the first of the alphabet among equals, exists.  *)
LEMMA TopClassIs ==
  ASSUME NEW st \in Studies
  PROVE  TopClass(st) \in Classes
<1> DEFINE Ahead(c, d) == \/ Count(st, c) > Count(st, d)
                          \/ Count(st, c) = Count(st, d) /\ Alphabetical(c) < Alphabetical(d)
           n1 == Count(st, "CPU")  n2 == Count(st, "Client")
           n3 == Count(st, "IO")  n4 == Count(st, "Lock")
<1>1. /\ Alphabetical("CPU") = 1 /\ Alphabetical("Client") = 2
      /\ Alphabetical("IO") = 3 /\ Alphabetical("Lock") = 4
  BY DEF Alphabetical
<1>2. n1 \in Nat /\ n2 \in Nat /\ n3 \in Nat /\ n4 \in Nat
  BY CountIs DEF Classes
<1>3. Classes = {"CPU", "Client", "IO", "Lock"}
  BY DEF Classes
<1>4. \E c \in Classes : \A d \in Classes \ {c} : Ahead(c, d)
  <2>1. CASE n1 >= n2 /\ n1 >= n3 /\ n1 >= n4
    <3>1. Ahead("CPU", "Client") /\ Ahead("CPU", "IO") /\ Ahead("CPU", "Lock")
      BY <1>1, <1>2, <2>1
    <3> HIDE DEF Ahead
    <3> QED
      BY <1>3, <3>1
  <2>2. CASE n2 > n1 /\ n2 >= n3 /\ n2 >= n4
    <3>1. Ahead("Client", "CPU") /\ Ahead("Client", "IO") /\ Ahead("Client", "Lock")
      BY <1>1, <1>2, <2>2
    <3> HIDE DEF Ahead
    <3> QED
      BY <1>3, <3>1
  <2>3. CASE n3 > n1 /\ n3 > n2 /\ n3 >= n4
    <3>1. Ahead("IO", "CPU") /\ Ahead("IO", "Client") /\ Ahead("IO", "Lock")
      BY <1>1, <1>2, <2>3
    <3> HIDE DEF Ahead
    <3> QED
      BY <1>3, <3>1
  <2>4. CASE n4 > n1 /\ n4 > n2 /\ n4 > n3
    <3>1. Ahead("Lock", "CPU") /\ Ahead("Lock", "Client") /\ Ahead("Lock", "IO")
      BY <1>1, <1>2, <2>4
    <3> HIDE DEF Ahead
    <3> QED
      BY <1>3, <3>1
  <2>5. \/ n1 >= n2 /\ n1 >= n3 /\ n1 >= n4
        \/ n2 > n1 /\ n2 >= n3 /\ n2 >= n4
        \/ n3 > n1 /\ n3 > n2 /\ n3 >= n4
        \/ n4 > n1 /\ n4 > n2 /\ n4 > n3
    <3> HIDE DEF n1, n2, n3, n4
    <3> QED
      BY <1>2
  <2> QED
    BY <2>1, <2>2, <2>3, <2>4, <2>5
<1>5. TopClass(st) = CHOOSE c \in Classes : \A d \in Classes \ {c} : Ahead(c, d)
  BY DEF TopClass
<1> HIDE DEF Ahead
<1> QED
  BY <1>4, <1>5

(* Of finitely many blockers one was seen most often.                       *)
LEMMA ForemostIs ==
  ASSUME NEW st \in Studies, Blockers(st) # {}
  PROVE  /\ Foremost(st) # {}
         /\ \A h \in Foremost(st) : st.sighted[h] >= 2
<1> DEFINE B == Blockers(st)
           Most(s) == s = {} \/ \E h \in s : \A g \in s : st.sighted[h] >= st.sighted[g]
           F == {s \in SUBSET B : Most(s)}
<1>1. B \in SUBSET Holders /\ \A h \in B : st.sighted[h] \in Nat /\ st.sighted[h] >= 2
  BY DEF Blockers, Studies, SustainedObs, CorroboratedObs
<1>2. IsFiniteSet(B)
  BY <1>1, WhyAssumption, FS_Subset
<1> HIDE DEF B
<1>3. {} \in F
  OBVIOUS
<1>4. ASSUME NEW A \in F, NEW x \in B \ A
      PROVE  A \cup {x} \in F
  <2>1. CASE \E h \in A : \A g \in A : st.sighted[h] >= st.sighted[g]
    <3>1. PICK h \in A : \A g \in A : st.sighted[h] >= st.sighted[g]
      BY <2>1
    <3>2. \A g \in A \cup {x} : g \in B
      BY <1>4
    <3>3. CASE st.sighted[h] >= st.sighted[x]
      <4>1. \A g \in A \cup {x} : st.sighted[h] >= st.sighted[g]
        BY <3>1, <3>3
      <4> QED
        BY <3>2, <4>1
    <3>4. CASE ~ (st.sighted[h] >= st.sighted[x])
      <4>1. \A g \in A \cup {x} : st.sighted[x] >= st.sighted[g]
        BY <1>1, <3>1, <3>2, <3>4
      <4> QED
        BY <3>2, <4>1
    <3> QED
      BY <3>3, <3>4
  <2>2. CASE A = {}
    BY <1>1, <2>2
  <2> QED
    BY <1>4, <2>1, <2>2
<1>5. F \in SUBSET (SUBSET B)
  OBVIOUS
<1>6. B \in F
  <2> HIDE DEF F
  <2> QED
    BY <1>2, <1>3, <1>4, <1>5, OneByOne
<1>7. \E h \in B : \A g \in B : st.sighted[h] >= st.sighted[g]
  BY <1>6 DEF B
<1> QED
  BY <1>1, <1>7 DEF Foremost, B

(* A rounded quotient.                                                      *)
LEMMA Quotient ==
  ASSUME NEW x \in Nat, NEW y \in Nat, y > 0
  PROVE  x \div y \in Nat /\ (x \div y) * y <= x /\ x < (x \div y) * y + y
<1> DEFINE q == x \div y
<1>1. q \in Nat
  OBVIOUS
<1>2. x = q * y + (x % y) /\ x % y \in 0 .. y - 1
  OBVIOUS
<1> HIDE DEF q
<1>3. q * y \in Nat
  BY <1>1
<1>4. q * y <= x /\ x < q * y + y
  BY <1>2, <1>3
<1> QED
  BY <1>1, <1>4 DEF q

(* An average of half a session to two decimals is one of 0.495 or more.    *)
LEMMA HalfActive ==
  ASSUME NEW total \in Nat, NEW n \in Nat, n > 0, (200 * total + n) \div (2 * n) >= 50
  PROVE  200 * total >= 99 * n
<1> DEFINE x == 200 * total + n  y == 2 * n  q == x \div y
<1>1. x \in Nat /\ y \in Nat /\ y > 0
  OBVIOUS
<1>2. q \in Nat /\ q * y <= x
  <2> HIDE DEF x, y
  <2> QED
    BY <1>1, Quotient
<1>3. q * y >= 50 * y
  <2>1. q - 50 \in Nat
    BY <1>2
  <2> HIDE DEF q, y
  <2>2. (q - 50) * y \in Nat /\ q \in Nat
    BY <1>1, <1>2, <2>1
  <2> QED
    BY <1>1, <2>2
<1>4. x >= 50 * y
  <2> HIDE DEF x, y
  <2>1. q * y \in Nat
    BY <1>1, <1>2
  <2> QED
    BY <1>1, <1>2, <1>3, <2>1
<1> QED
  BY <1>4

(* Lock contention is only diagnosed of a session seen blocking, from       *)
(* enough samples of a server that was wholly visible, half of the polls of *)
(* which worked and found half a session active, to two decimals.           *)
THEOREM BlameEarned == WhySpec => []BlameIsEarned
<1>1. WhyInv => BlameIsEarned
  <2> SUFFICES ASSUME WhyInv, Answer \in {"lock_contention", "contention"}
               PROVE  /\ \A h \in Foremost(study) : study.sighted[h] >= 2
                      /\ Foremost(study) # {} /\ Total(study) >= WaitMinSamples
                      /\ study.cmd = "why" =>
                           /\ ~study.partial /\ 2 * study.failures <= study.polls
                           /\ 200 * Total(study) >= 99 * (study.polls - study.failures)
    BY DEF BlameIsEarned
  <2>1. study \in Studies /\ TopClass(study) \in Classes /\ Total(study) \in Nat
    BY WhyInvParts, TopClassIs, CountIs
  <2>2. CASE study.cmd = "why"
    <3>1. Cause(study) \in {"lock_contention", "contention"}
      BY <2>2 DEF Answer, ClassifyLive
    <3>2. Gate(study) = "passed" /\ Diagnosis(study) \in {"lock_contention", "contention"}
      BY <3>1 DEF Cause, Gate
    <3>3. /\ ~ Thin(study) /\ ~ study.partial /\ Covered(study) /\ Significant(study)
      BY <3>2 DEF Gate
    <3>4. Blockers(study) # {}
      BY <3>2 DEF Diagnosis
    <3>5. study.polls \in Nat /\ study.failures \in Nat
      BY <2>1 DEF Studies
    <3>6. 2 * study.failures <= study.polls
      BY <3>3, <3>5 DEF Covered
    <3>7. 200 * Total(study) >= 99 * (study.polls - study.failures)
      <4> DEFINE n == study.polls - study.failures  total == Total(study)
      <4>1. n > 0 /\ (200 * total + n) \div (2 * n) >= 50
        <5>1. AAS(study) >= 50
          BY <3>3 DEF Significant
        <5>2. AAS(study) = IF n > 0 THEN (200 * total + n) \div (2 * n) ELSE 0
          BY DEF AAS
        <5> HIDE DEF n, total
        <5>3. n > 0
          BY <5>1, <5>2
        <5> QED
          BY <5>1, <5>2, <5>3
      <4>2. n \in Nat /\ total \in Nat
        BY <2>1, <3>5, <4>1
      <4> HIDE DEF n, total
      <4>3. 200 * total >= 99 * n
        BY <4>1, <4>2, HalfActive
      <4> QED
        BY <4>3 DEF n, total
    <3> QED
      BY <2>1, <3>3, <3>4, <3>6, <3>7, ForemostIs DEF Thin, WaitMinSamples
  <2>3. CASE study.cmd # "why"
    <3>1. Concludes(study) \in {"lock_contention", "contention"}
      BY <2>3 DEF Answer
    <3>2. TopClass(study) \notin {"lock_contention", "contention"}
      BY <2>1 DEF Classes
    <3>3. ~ Thin(study) /\ Blockers(study) # {}
      BY <2>1, <3>1, <3>2 DEF Concludes
    <3> QED
      BY <2>1, <2>3, <3>3, ForemostIs DEF Thin, WaitMinSamples
  <2> QED
    BY <2>2, <2>3
<1> QED
  BY <1>1, WhyInvHolds, PTL
-----------------------------------------------------------------------------
(* Of a finite set the members below one of it and a whole beginning of the *)
(* naturals are counted by the last.                                        *)
LEMMA InitialIs ==
  ASSUME NEW L \in Nat, NEW T \in SUBSET (1 .. L), \A i \in T : \A j \in 1 .. i : j \in T
  PROVE  Cardinality(T) \in 0 .. L /\ T = 1 .. Cardinality(T)
<1> DEFINE Out == {k \in Nat : k >= 1 /\ k \notin T}
<1>1. Out \in SUBSET Nat /\ L + 1 \in Out
  OBVIOUS
<1>2. PICK m \in Out : \A k \in Out : m <= k
  <2> HIDE DEF Out
  <2> QED
    BY <1>1, LeastNatural
<1>3. m \in Nat /\ m >= 1 /\ m \notin T /\ m <= L + 1
  BY <1>1, <1>2
<1>4. T = 1 .. m - 1
  <2>1. ASSUME NEW i \in T
        PROVE  i \in 1 .. m - 1
    <3>1. i \in Nat /\ i >= 1
      BY <2>1
    <3>2. ~ (m <= i)
      BY <1>3, <2>1, <3>1
    <3> QED
      BY <1>3, <3>1, <3>2
  <2>2. ASSUME NEW i \in 1 .. m - 1
        PROVE  i \in T
    <3>1. i \in Nat /\ i >= 1 /\ ~ (m <= i)
      BY <1>3
    <3> QED
      BY <1>2, <3>1
  <2> QED
    BY <2>1, <2>2
<1>5. Cardinality(1 .. m - 1) = m - 1
  BY <1>3, FS_Interval
<1> QED
  BY <1>3, <1>4, <1>5

(* A sum of natural numbers, each scaled.                                   *)
LEMMA SumScaled ==
  ASSUME NEW S, IsFiniteSet(S), NEW f, NEW g, NEW n \in Nat, Naturals(g, S),
         \A x \in S : f[x] = n * g[x]
  PROVE  SumFunctionOnSet(f, S) = n * SumFunctionOnSet(g, S)
<1> DEFINE F == {s \in SUBSET S : SumFunctionOnSet(f, s) = n * SumFunctionOnSet(g, s)}
<1>0. \A x \in S : g[x] \in Nat /\ f[x] \in Nat
  BY DEF Naturals
<1>1. {} \in F
  BY SumEmpty
<1>2. ASSUME NEW A \in F, NEW x \in S \ A
      PROVE  A \cup {x} \in F
  <2>1. IsFiniteSet(A) /\ A \cup {x} \in SUBSET S
    BY FS_Subset
  <2>2. Naturals(f, A \cup {x}) /\ Naturals(g, A \cup {x})
    BY <1>0, <2>1 DEF Naturals
  <2>3. /\ SumFunctionOnSet(f, A \cup {x}) = f[x] + SumFunctionOnSet(f, A)
        /\ SumFunctionOnSet(g, A \cup {x}) = g[x] + SumFunctionOnSet(g, A)
        /\ SumFunctionOnSet(g, A) \in Nat
    BY <1>2, <2>1, <2>2, SumAdds
  <2>4. SumFunctionOnSet(f, A) = n * SumFunctionOnSet(g, A) /\ f[x] = n * g[x] /\ g[x] \in Nat
    BY <1>0, <1>2
  <2>5. \A a \in Nat, b \in Nat : n * a + n * b = n * (a + b)
    BY SMT
  <2>6. SumFunctionOnSet(f, A \cup {x}) = n * SumFunctionOnSet(g, A \cup {x})
    BY <2>3, <2>4, <2>5
  <2> QED
    BY <2>1, <2>6
<1>3. F \in SUBSET (SUBSET S)
  OBVIOUS
<1>4. S \in F
  <2> HIDE DEF F
  <2> QED
    BY <1>1, <1>2, <1>3, OneByOne
<1> QED
  BY <1>4

-----------------------------------------------------------------------------
(* An exact quotient.                                                       *)
LEMMA ExactQuotient ==
  ASSUME NEW x \in Nat, NEW y \in Nat, y > 0
  PROVE  (y * x) \div y = x
  OBVIOUS

(* The points of a series: the mean of some is a natural number, less than  *)
(* one off what they sum to.                                                *)
Measured(series) ==
  /\ DOMAIN series \in SUBSET Nat /\ IsFiniteSet(DOMAIN series)
  /\ \A i \in DOMAIN series : series[i] \in Nat

LEMMA MeanIs ==
  ASSUME NEW series, Measured(series), NEW P \in SUBSET (DOMAIN series), P # {}
  PROVE  /\ Mean(series, P) \in Nat /\ Cardinality(P) \in Nat \ {0}
         /\ SumFunctionOnSet(series, P) \in Nat
         /\ Mean(series, P) * Cardinality(P) <= Scale * SumFunctionOnSet(series, P)
         /\ Scale * SumFunctionOnSet(series, P) < Mean(series, P) * Cardinality(P) + Cardinality(P)
<1>1. IsFiniteSet(P) /\ Naturals(series, P)
  BY FS_Subset DEF Measured, Naturals
<1>2. Cardinality(P) \in Nat /\ Cardinality(P) # 0
  BY <1>1, FS_CardinalityType, FS_EmptySet
<1>3. SumFunctionOnSet(series, P) \in Nat
  BY <1>1, SumRemoves
<1>4. Scale * SumFunctionOnSet(series, P) \in Nat
  BY <1>3 DEF Scale
<1>5. Cardinality(P) > 0
  BY <1>2
<1> QED
  BY <1>2, <1>3, <1>4, <1>5, Quotient DEF Mean

(* Of finitely many shifts one is the steepest.                             *)
LEMMA SteepestIs ==
  ASSUME NEW I, IsFiniteSet(I), I # {}, NEW sh,
         \A i \in I : Rise(sh[i]) \in Int /\ sh[i].at \in Int
  PROVE  \E i \in I : \A j \in I : Steeper(sh[i], sh[j])
<1> DEFINE F == {s \in SUBSET I : s = {} \/ \E i \in s : \A j \in s : Steeper(sh[i], sh[j])}
<1>1. {} \in F
  OBVIOUS
<1>2. \A i \in I : Steeper(sh[i], sh[i])
  BY DEF Steeper
<1>3. \A i \in I, j \in I : Steeper(sh[i], sh[j]) \/ Steeper(sh[j], sh[i])
  BY DEF Steeper
<1>4. \A i \in I, j \in I, k \in I :
        Steeper(sh[i], sh[j]) /\ Steeper(sh[j], sh[k]) => Steeper(sh[i], sh[k])
  BY DEF Steeper
<1>5. ASSUME NEW A \in F, NEW x \in I \ A
      PROVE  A \cup {x} \in F
  <2>1. A \in SUBSET I
    OBVIOUS
  <2>2. CASE A = {}
    BY <1>2, <2>2
  <2>3. CASE A # {}
    <3>1. PICK i \in A : \A j \in A : Steeper(sh[i], sh[j])
      BY <1>5, <2>3
    <3>2. CASE Steeper(sh[i], sh[x])
      <4>1. \A j \in A \cup {x} : Steeper(sh[i], sh[j])
        BY <3>1, <3>2
      <4> QED
        BY <2>1, <4>1
    <3>3. CASE Steeper(sh[x], sh[i])
      <4>1. \A j \in A \cup {x} : Steeper(sh[x], sh[j])
        BY <1>2, <1>4, <2>1, <3>1, <3>3
      <4> QED
        BY <2>1, <4>1
    <3> QED
      BY <1>3, <2>1, <3>2, <3>3
  <2> QED
    BY <2>2, <2>3
<1>6. F \in SUBSET (SUBSET I)
  OBVIOUS
<1>7. I \in F
  <2> HIDE DEF F
  <2> QED
    BY <1>1, <1>5, <1>6, OneByOne
<1> QED
  BY <1>7

(* What detectShift reports is a shift at some onset of the series: a rise, *)
(* and every point from there on past the midpoint.                         *)
LEMMA DetectShiftIs ==
  ASSUME NEW s, NEW series, Measured(series), \A i \in DOMAIN series : s[i].at \in Int,
         DetectShift(s, series) # NoShift
  PROVE  \E i \in Onsets(series) :
            LET shift == DetectShift(s, series) IN
            /\ shift = ShiftAt(s, series, i) /\ Raised(shift) /\ Sustained(series, i, shift)
<1> DEFINE sh == [i \in Onsets(series) |-> ShiftAt(s, series, i)]
           I == {i \in Onsets(series) : Sustained(series, i, sh[i]) /\ Raised(sh[i])}
           raised == {shift \in Shifts(s, series) : Raised(shift)}
<1>1. raised = {sh[i] : i \in I}
  BY DEF Shifts
<1>2. DetectShift(s, series) = IF raised = {} THEN NoShift
          ELSE CHOOSE shift \in raised : \A other \in raised : Steeper(shift, other)
  BY DEF DetectShift
<1>3. I \in SUBSET (DOMAIN series) /\ IsFiniteSet(I)
  BY FS_Subset DEF Onsets, Measured
<1>4. \A i \in Onsets(series) : Rise(sh[i]) \in Int /\ sh[i].at \in Int
  <2> SUFFICES ASSUME NEW i \in Onsets(series)
               PROVE  Rise(sh[i]) \in Int /\ sh[i].at \in Int
    OBVIOUS
  <2>1. sh[i] = [at |-> s[i].at, before |-> Mean(series, PointsUntil(series, i)),
                 after |-> Mean(series, PointsFrom(series, i))]
    BY DEF ShiftAt
  <2>2. i \in DOMAIN series /\ i \in Nat /\ PointsUntil(series, i) # {}
    BY DEF Onsets, Measured
  <2>3. i \in PointsFrom(series, i)
    BY <2>2 DEF PointsFrom
  <2>4. Mean(series, PointsUntil(series, i)) \in Nat /\ Mean(series, PointsFrom(series, i)) \in Nat
    BY <2>2, <2>3, MeanIs DEF PointsUntil, PointsFrom
  <2> HIDE DEF sh
  <2>5. sh[i].at \in Int /\ sh[i].before \in Nat /\ sh[i].after \in Nat
    BY <2>1, <2>2, <2>4
  <2> QED
    BY <2>5 DEF Rise
<1> HIDE DEF raised, sh
<1>5. raised # {}
  BY <1>2
<1>6. I # {}
  BY <1>1, <1>5
<1>7. PICK i \in I : \A j \in I : Steeper(sh[i], sh[j])
  <2>1. \A i \in I : Rise(sh[i]) \in Int /\ sh[i].at \in Int
    BY <1>4
  <2> HIDE DEF I
  <2> QED
    BY <1>3, <1>6, <2>1, SteepestIs
<1>8. sh[i] \in raised /\ \A other \in raised : Steeper(sh[i], other)
  BY <1>1, <1>7
<1>9. DetectShift(s, series) \in raised
  BY <1>2, <1>5, <1>8
<1>10. PICK k \in I : DetectShift(s, series) = sh[k]
  BY <1>1, <1>9
<1> QED
  BY <1>10 DEF sh

-----------------------------------------------------------------------------
(* What an inspection may find, and what is remembered of a tick.           *)
CounterValues == [calls : Nat, ms : Nat, scans : [Tables -> Nat]]
Snapshots ==
  [at : Nat, query : [seen : BOOLEAN, calls : Nat, ms : Nat],
   tables : [Tables -> [seen : BOOLEAN, scans : Nat]]]
AnyLoad ==
  [calls : Nat, mean : Nat, rates : [Tables -> Nat], reset : BOOLEAN, seen : BOOLEAN,
   listed : SUBSET Tables, waits : [Classes -> Nat]]
Nothing == [calls |-> 0, rates |-> [t \in Tables |-> 0], reset |-> FALSE, seen |-> FALSE]

HistoryTypes ==
  /\ now \in Nat /\ work \in 0 .. MaxWork /\ counters \in CounterValues /\ masked \in BOOLEAN
  /\ history \in Seq(Snapshots) /\ Len(history) <= work
  /\ truth \in Seq(AnyLoad \cup {Nothing}) /\ Len(truth) = now

(* Snapshots are of the past, in order, and nothing happens but before one. *)
Dates ==
  /\ \A i \in 1 .. Len(history) : history[i].at \in 1 .. now
  /\ \A i \in 1 .. Len(history), j \in 1 .. Len(history) : i < j => history[i].at < history[j].at
  /\ \A k \in 1 .. now : truth[k] = Nothing \/ \E i \in 1 .. Len(history) : history[i].at = k

(* What two neighbouring snapshots tell of the load between them; a reset   *)
(* between them they may hide.                                              *)
Tells(s, r, load) ==
  /\ load \in AnyLoad
  /\ load.seen <=> load.calls > 0 /\ ~load.reset /\ s.query.seen /\ r.query.seen
  /\ ~load.reset => /\ r.query.calls = s.query.calls + load.calls
                    /\ r.query.ms = s.query.ms + load.calls * load.mean
                    /\ \A t \in Tables : r.tables[t].scans = s.tables[t].scans + load.rates[t]
Hides(s, r, load) == load.reset /\ r.query.calls > s.query.calls /\ r.query.ms >= s.query.ms
Neighbours ==
  \A i \in 2 .. Len(history) :
     /\ Tells(history[i - 1], history[i], truth[history[i].at])
     /\ ~masked => ~Hides(history[i - 1], history[i], truth[history[i].at])
Shows(s, c) ==
  s.query.calls = c.calls /\ s.query.ms = c.ms /\ \A t \in Tables : s.tables[t].scans = c.scans[t]
LatestShows == history # <<>> => Shows(history[Len(history)], counters)
HistoryInv == HistoryTypes /\ Dates /\ Neighbours /\ LatestShows
-----------------------------------------------------------------------------
(* An inspection: the counters after the load, the snapshot of them, and    *)
(* what is remembered of it.                                                *)
Remembered(load) ==
  [load EXCEPT !.seen = /\ @ /\ load.calls > 0 /\ ~load.reset
                        /\ history # <<>> /\ Last(history).query.seen]

LEMMA WorkedIs ==
  ASSUME counters \in CounterValues, NEW load \in AnyLoad
  PROVE  /\ Worked(load) \in CounterValues
         /\ ~load.reset => /\ Worked(load).calls = counters.calls + load.calls
                           /\ Worked(load).ms = counters.ms + load.calls * load.mean
                           /\ \A t \in Tables : Worked(load).scans[t] = counters.scans[t] + load.rates[t]
<1> DEFINE base == IF load.reset THEN [counters EXCEPT !.calls = 0, !.ms = 0, !.scans = [t \in Tables |-> 0]]
                   ELSE counters
           after == [calls |-> base.calls + load.calls, ms |-> base.ms + load.calls * load.mean,
                     scans |-> [t \in Tables |-> base.scans[t] + load.rates[t]]]
<1>1. Worked(load) = after
  BY DEF Worked
<1>2. base \in CounterValues /\ (~load.reset => base = counters)
  BY DEF CounterValues
<1>3. load.calls \in Nat /\ load.mean \in Nat /\ \A t \in Tables : load.rates[t] \in Nat
  BY DEF AnyLoad
<1>4. load.calls * load.mean \in Nat
  BY <1>3
<1> HIDE DEF base
<1>5. base.calls \in Nat /\ base.ms \in Nat /\ \A t \in Tables : base.scans[t] \in Nat
  BY <1>2 DEF CounterValues
<1>6. after.calls \in Nat /\ after.ms \in Nat
  BY <1>3, <1>4, <1>5
<1>7. after.scans \in [Tables -> Nat]
  BY <1>3, <1>5
<1>8. after \in CounterValues
  BY <1>6, <1>7 DEF CounterValues
<1> QED
  BY <1>1, <1>2, <1>8

LEMMA SnapshotIs ==
  ASSUME now \in Nat, NEW c \in CounterValues, NEW load \in AnyLoad
  PROVE  /\ Snapshot(c, load) \in Snapshots /\ Shows(Snapshot(c, load), c)
         /\ Snapshot(c, load).at = now + 1 /\ Snapshot(c, load).query.seen = load.seen
<1>1. c.calls \in Nat /\ c.ms \in Nat /\ c.scans \in [Tables -> Nat] /\ load.seen \in BOOLEAN
  BY DEF CounterValues, AnyLoad
<1>2. [t \in Tables |-> [seen |-> t \in load.listed, scans |-> c.scans[t]]]
         \in [Tables -> [seen : BOOLEAN, scans : Nat]]
  <2>1. \A t \in Tables : c.scans[t] \in Nat /\ (t \in load.listed) \in BOOLEAN
    BY <1>1
  <2> QED
    BY <2>1
<1>3. [seen |-> load.seen, calls |-> c.calls, ms |-> c.ms] \in [seen : BOOLEAN, calls : Nat, ms : Nat]
  BY <1>1
<1> QED
  BY <1>2, <1>3 DEF Snapshot, Snapshots, Shows

LEMMA RememberedIs ==
  ASSUME NEW load \in AnyLoad
  PROVE  /\ Remembered(load) \in AnyLoad
         /\ Remembered(load).seen <=> /\ load.seen /\ load.calls > 0 /\ ~load.reset
                                      /\ history # <<>> /\ Last(history).query.seen
         /\ \A field \in {"calls", "mean", "rates", "reset"} : Remembered(load)[field] = load[field]
<1> DEFINE seen == /\ load.seen /\ load.calls > 0 /\ ~load.reset
                   /\ history # <<>> /\ Last(history).query.seen
<1>1. Remembered(load) = [load EXCEPT !.seen = seen]
  BY DEF Remembered
<1>2. seen \in BOOLEAN
  OBVIOUS
<1> HIDE DEF seen
<1>3. Remembered(load) \in AnyLoad
  BY <1>1, <1>2 DEF AnyLoad
<1>4. Remembered(load).seen = seen
  BY <1>1 DEF AnyLoad
<1>5. \A field \in {"calls", "mean", "rates", "reset"} : Remembered(load)[field] = load[field]
  BY <1>1 DEF AnyLoad
<1> QED
  BY <1>3, <1>4, <1>5 DEF seen

(* What is assumed of the loads and the bounds.                             *)
LEMMA LoadsAre == Loads \in SUBSET AnyLoad /\ MaxWork \in Nat /\ StudyWork \in Nat /\ WhyWindow \in Nat
  BY WhyAssumption DEF AnyLoad, ExactWork

(* The invariant holds of an empty history, and each kind of step keeps it: *)
(* an inspection adds a snapshot and the load of its tick, an idle tick     *)
(* nothing to remember, and the studies touch neither.                      *)
LEMMA HistoryInit == WhyInit => HistoryInv
<1> SUFFICES ASSUME WhyInit
             PROVE  HistoryInv
  OBVIOUS
<1>1. now = 0 /\ work = 0 /\ history = <<>> /\ truth = <<>> /\ masked = FALSE
  BY DEF WhyInit
<1>2. counters \in CounterValues
  BY DEF WhyInit, CounterValues
<1>3. Len(history) = 0 /\ Len(truth) = 0 /\ history \in Seq(Snapshots)
      /\ truth \in Seq(AnyLoad \cup {Nothing})
  BY <1>1, EmptySeq
<1>4. HistoryTypes
  <2>1. now \in Nat /\ work \in 0 .. MaxWork /\ masked \in BOOLEAN /\ Len(history) <= work /\ Len(truth) = now
    <3>1. MaxWork \in Nat
      BY LoadsAre
    <3>2. masked \in BOOLEAN
      BY <1>1
    <3> QED
      BY <1>1, <1>3, <3>1, <3>2
  <2> QED
    BY <1>2, <1>3, <2>1, Zenon DEF HistoryTypes
<1>5. Dates /\ Neighbours /\ LatestShows
  BY <1>1, <1>3 DEF Dates, Neighbours, LatestShows
<1> QED
  BY <1>4, <1>5 DEF HistoryInv

(* What is appended stands at the end, and the rest where it was.           *)
LEMMA Appended ==
  ASSUME NEW S, NEW s \in Seq(S), NEW e \in S
  PROVE  /\ Append(s, e) \in Seq(S) /\ Len(Append(s, e)) = Len(s) + 1 /\ Len(s) \in Nat
         /\ Append(s, e)[Len(s) + 1] = e
         /\ \A i \in 1 .. Len(s) : Append(s, e)[i] = s[i]
  OBVIOUS

LEMMA InspectKeeps ==
  ASSUME HistoryInv, NEW load \in Loads, Inspect(load)
  PROVE  HistoryInv'
<1> DEFINE after == Worked(load)
           sn == Snapshot(after, load)
           n == Len(history)
<1>0. load \in AnyLoad /\ MaxWork \in Nat /\ load.seen \in BOOLEAN /\ load.reset \in BOOLEAN
  BY LoadsAre DEF AnyLoad
<1>1. /\ work < MaxWork /\ work' = work + 1 /\ now' = now + 1 /\ counters' = after
      /\ history' = Append(history, sn) /\ masked' = (masked \/ Masks(load, after))
      /\ truth' = Append(truth, Remembered(load))
  BY DEF Inspect, TickPasses, Remembered
<1>2. /\ now \in Nat /\ work \in 0 .. MaxWork /\ counters \in CounterValues /\ masked \in BOOLEAN
      /\ history \in Seq(Snapshots) /\ n <= work /\ n \in Nat
      /\ truth \in Seq(AnyLoad \cup {Nothing}) /\ Len(truth) = now
  BY DEF HistoryInv, HistoryTypes
<1>3. /\ after \in CounterValues
      /\ ~load.reset => /\ after.calls = counters.calls + load.calls
                        /\ after.ms = counters.ms + load.calls * load.mean
                        /\ \A t \in Tables : after.scans[t] = counters.scans[t] + load.rates[t]
  BY <1>0, <1>2, WorkedIs
<1> HIDE DEF after
<1>4. sn \in Snapshots /\ Shows(sn, after) /\ sn.at = now + 1 /\ sn.query.seen = load.seen
  BY <1>0, <1>2, <1>3, SnapshotIs
<1> HIDE DEF sn
<1>5. /\ Remembered(load) \in AnyLoad
      /\ Remembered(load).seen <=> /\ load.seen /\ load.calls > 0 /\ ~load.reset
                                   /\ history # <<>> /\ Last(history).query.seen
      /\ Remembered(load).calls = load.calls /\ Remembered(load).mean = load.mean
      /\ Remembered(load).rates = load.rates /\ Remembered(load).reset = load.reset
  BY <1>0, RememberedIs
<1> DEFINE entry == Remembered(load)
<1> HIDE DEF entry
<1>6. /\ history' \in Seq(Snapshots) /\ Len(history') = n + 1 /\ history'[n + 1] = sn
      /\ \A i \in 1 .. n : history'[i] = history[i]
  BY <1>1, <1>2, <1>4, Appended
<1>7. /\ truth' \in Seq(AnyLoad \cup {Nothing}) /\ Len(truth') = now + 1 /\ truth'[now + 1] = entry
      /\ \A k \in 1 .. now : truth'[k] = truth[k]
  <2>1. entry \in AnyLoad \cup {Nothing}
    BY <1>5 DEF entry
  <2>2. truth' = Append(truth, entry)
    BY <1>1 DEF entry
  <2> QED
    BY <1>2, <2>1, <2>2, Appended
<1>8. masked' \in BOOLEAN
  BY <1>1
<1>9. HistoryTypes'
  <2>1. now' \in Nat /\ work' \in 0 .. MaxWork /\ Len(history') <= work' /\ Len(truth') = now'
    BY <1>0, <1>1, <1>2, <1>6, <1>7
  <2>2. counters' \in CounterValues
    BY <1>1, <1>3
  <2> QED
    BY <1>6, <1>7, <1>8, <2>1, <2>2, Zenon DEF HistoryTypes
<1>10. /\ \A i \in 1 .. n : history[i].at \in 1 .. now
       /\ \A i \in 1 .. n, j \in 1 .. n : i < j => history[i].at < history[j].at
       /\ \A k \in 1 .. now : truth[k] = Nothing \/ \E i \in 1 .. n : history[i].at = k
  BY DEF HistoryInv, Dates
<1>11. Dates'
  <2>1. \A i \in 1 .. n + 1 : i \in 1 .. n \/ i = n + 1
    BY <1>2
  <2>2. ASSUME NEW i \in 1 .. n + 1
        PROVE  history'[i].at \in 1 .. now + 1
    <3>1. CASE i = n + 1
      <4>1. history'[i].at = now + 1
        BY <1>4, <1>6, <3>1
      <4> QED
        BY <1>2, <4>1
    <3>2. CASE i \in 1 .. n
      <4>1. history'[i].at = history[i].at /\ history[i].at \in 1 .. now
        BY <1>6, <1>10, <3>2
      <4> QED
        BY <1>2, <4>1
    <3> QED
      BY <2>1, <3>1, <3>2
  <2>3. ASSUME NEW i \in 1 .. n + 1, NEW j \in 1 .. n + 1, i < j
        PROVE  history'[i].at < history'[j].at
    <3>1. i \in 1 .. n
      BY <1>2, <2>3
    <3>2. history'[i] = history[i] /\ history[i].at \in 1 .. now
      BY <1>6, <1>10, <3>1
    <3>3. CASE j = n + 1
      BY <1>2, <1>4, <1>6, <3>2, <3>3
    <3>4. CASE j \in 1 .. n
      BY <1>6, <1>10, <2>3, <3>1, <3>4
    <3> QED
      BY <2>1, <3>3, <3>4
  <2>4. ASSUME NEW k \in 1 .. now + 1
        PROVE  truth'[k] = Nothing \/ \E i \in 1 .. n + 1 : history'[i].at = k
    <3>1. CASE k = now + 1
      BY <1>2, <1>4, <1>6, <3>1
    <3>2. CASE k \in 1 .. now
      <4>1. CASE truth[k] = Nothing
        BY <1>7, <3>2, <4>1
      <4>2. ASSUME NEW i \in 1 .. n, history[i].at = k
            PROVE  \E j \in 1 .. n + 1 : history'[j].at = k
        BY <1>2, <1>6, <4>2
      <4> QED
        BY <1>10, <3>2, <4>1, <4>2
    <3> QED
      BY <1>2, <3>1, <3>2
  <2> QED
    BY <1>1, <1>6, <2>2, <2>3, <2>4 DEF Dates
<1>12. n > 0 => history # <<>> /\ Last(history) = history[n] /\ Shows(history[n], counters)
  <2>1. n > 0 => history # <<>>
    BY <1>2
  <2> QED
    BY <2>1 DEF HistoryInv, LatestShows, Last
<1>13. ASSUME n > 0
       PROVE  Tells(history[n], sn, entry) /\ (~masked' => ~Hides(history[n], sn, entry))
  <2>1. history # <<>> /\ Last(history) = history[n] /\ Shows(history[n], counters)
    BY <1>12, <1>13
  <2>2. /\ history[n].query.calls = counters.calls /\ history[n].query.ms = counters.ms
        /\ \A t \in Tables : history[n].tables[t].scans = counters.scans[t]
        /\ sn.query.calls = after.calls /\ sn.query.ms = after.ms
        /\ \A t \in Tables : sn.tables[t].scans = after.scans[t]
    BY <1>4, <2>1 DEF Shows
  <2>3. /\ entry \in AnyLoad /\ entry.calls = load.calls /\ entry.mean = load.mean
        /\ entry.rates = load.rates /\ entry.reset = load.reset
        /\ entry.seen <=> load.seen /\ load.calls > 0 /\ ~load.reset /\ history[n].query.seen
    BY <1>5, <2>1 DEF entry
  <2>4. Tells(history[n], sn, entry)
    <3>1. entry.seen <=> entry.calls > 0 /\ ~entry.reset /\ history[n].query.seen /\ sn.query.seen
      BY <1>4, <2>3
    <3>2. ~entry.reset => /\ sn.query.calls = history[n].query.calls + entry.calls
                          /\ sn.query.ms = history[n].query.ms + entry.calls * entry.mean
                          /\ \A t \in Tables :
                               sn.tables[t].scans = history[n].tables[t].scans + entry.rates[t]
      BY <1>3, <2>2, <2>3
    <3> QED
      BY <2>3, <3>1, <3>2 DEF Tells
  <2>5. ~masked' => ~Hides(history[n], sn, entry)
    BY <1>1, <2>1, <2>2, <2>3 DEF Masks, Hides
  <2> QED
    BY <2>4, <2>5
<1>14. Neighbours'
  <2>1. ASSUME NEW i \in 2 .. n + 1
        PROVE  /\ Tells(history'[i - 1], history'[i], truth'[history'[i].at])
               /\ ~masked' => ~Hides(history'[i - 1], history'[i], truth'[history'[i].at])
    <3>1. CASE i = n + 1
      <4>1. n > 0 /\ n \in 1 .. n /\ i - 1 = n
        BY <1>2, <3>1
      <4>2. history'[i - 1] = history[n] /\ history'[i] = sn /\ truth'[history'[i].at] = entry
        BY <1>4, <1>6, <1>7, <3>1, <4>1
      <4> QED
        BY <1>13, <4>1, <4>2
    <3>2. CASE i \in 2 .. n
      <4>1. i \in 1 .. n /\ i - 1 \in 1 .. n
        BY <1>2, <3>2
      <4>2. history'[i] = history[i] /\ history'[i - 1] = history[i - 1]
        BY <1>6, <4>1
      <4>3. truth'[history'[i].at] = truth[history[i].at]
        BY <1>7, <1>10, <4>1, <4>2
      <4>4. ~masked' => ~masked
        BY <1>1
      <4>5. /\ Tells(history[i - 1], history[i], truth[history[i].at])
            /\ ~masked => ~Hides(history[i - 1], history[i], truth[history[i].at])
        BY <3>2 DEF HistoryInv, Neighbours
      <4> QED
        BY <4>2, <4>3, <4>4, <4>5
    <3> QED
      BY <1>2, <3>1, <3>2
  <2> QED
    BY <1>6, <2>1 DEF Neighbours
<1>15. LatestShows'
  BY <1>1, <1>4, <1>6 DEF LatestShows
<1> QED
  BY <1>9, <1>11, <1>14, <1>15 DEF HistoryInv

LEMMA IdleKeeps ==
  ASSUME HistoryInv, Idle
  PROVE  HistoryInv'
<1>1. /\ now' = now + 1 /\ UNCHANGED <<work, counters, history, masked>>
      /\ truth' = Append(truth, Nothing)
  BY DEF Idle, TickPasses, Nothing
<1>2. /\ now \in Nat /\ truth \in Seq(AnyLoad \cup {Nothing}) /\ Len(truth) = now
      /\ history \in Seq(Snapshots)
  BY DEF HistoryInv, HistoryTypes
<1>3. /\ truth' \in Seq(AnyLoad \cup {Nothing}) /\ Len(truth') = now + 1 /\ truth'[now + 1] = Nothing
      /\ \A k \in 1 .. now : truth'[k] = truth[k]
  <2>1. Nothing \in AnyLoad \cup {Nothing}
    OBVIOUS
  <2> HIDE DEF Nothing
  <2> QED
    BY <1>1, <1>2, <2>1, Appended
<1>4. HistoryTypes'
  BY <1>1, <1>2, <1>3 DEF HistoryInv, HistoryTypes
<1>5. /\ \A i \in 1 .. Len(history) : history[i].at \in 1 .. now
      /\ \A i \in 1 .. Len(history), j \in 1 .. Len(history) : i < j => history[i].at < history[j].at
      /\ \A k \in 1 .. now : truth[k] = Nothing \/ \E i \in 1 .. Len(history) : history[i].at = k
  BY DEF HistoryInv, Dates
<1>6. Dates'
  <2>1. \A k \in 1 .. now + 1 : truth'[k] = Nothing \/ \E i \in 1 .. Len(history) : history[i].at = k
    BY <1>2, <1>3, <1>5
  <2>2. \A i \in 1 .. Len(history) : history[i].at \in 1 .. now + 1
    BY <1>2, <1>5
  <2> QED
    BY <1>1, <1>5, <2>1, <2>2 DEF Dates
<1>7. Neighbours'
  <2>1. \A i \in 2 .. Len(history) : i \in 1 .. Len(history)
    BY <1>2
  <2>2. \A i \in 2 .. Len(history) : truth'[history[i].at] = truth[history[i].at]
    BY <1>3, <1>5, <2>1
  <2> QED
    BY <1>1, <2>2 DEF HistoryInv, Neighbours
<1>8. LatestShows'
  BY <1>1 DEF HistoryInv, LatestShows
<1> QED
  BY <1>4, <1>6, <1>7, <1>8 DEF HistoryInv

LEMMA OthersKeep ==
  ASSUME HistoryInv, UNCHANGED <<now, counters, history, truth, masked>>, work' \in work .. MaxWork
  PROVE  HistoryInv'
<1>1. HistoryTypes'
  BY LoadsAre DEF HistoryInv, HistoryTypes
<1>2. Dates' /\ Neighbours' /\ LatestShows'
  BY DEF HistoryInv, Dates, Neighbours, LatestShows
<1> QED
  BY <1>1, <1>2 DEF HistoryInv

LEMMA HistoryNext ==
  ASSUME HistoryInv, [WhyNext]_whyVars
  PROVE  HistoryInv'
<1>0. work \in 0 .. MaxWork /\ MaxWork \in Nat /\ StudyWork \in Nat
  BY LoadsAre DEF HistoryInv, HistoryTypes
<1>1. ASSUME NEW load \in Loads, Inspect(load)
      PROVE  HistoryInv'
  BY <1>1, InspectKeeps
<1>2. CASE Idle
  BY <1>2, IdleKeeps
<1>3. ASSUME NEW s \in Starts, StartStudy(s)
      PROVE  HistoryInv'
  <2>1. UNCHANGED <<now, counters, history, truth, masked>> /\ work' \in work .. MaxWork
    BY <1>0, <1>3 DEF StartStudy, ghosts
  <2> QED
    BY <2>1, OthersKeep
<1>4. CASE UNCHANGED <<now, work, counters, history, ghosts>>
  <2>1. UNCHANGED <<now, counters, history, truth, masked>> /\ work' \in work .. MaxWork
    BY <1>0, <1>4 DEF ghosts
  <2> QED
    BY <2>1, OthersKeep
<1>5. (\E active \in Polls : Poll(active)) \/ PollFails \/ (\E edges \in Sightings : Sight(edges)) \/ SightFails \/ EndStudy
        => UNCHANGED <<now, work, counters, history, ghosts>>
  BY DEF Poll, PollFails, Sight, SightFails, EndStudy, Samples
<1>6. (\E opens \in BOOLEAN : ReadBaseline(opens)) \/ (\E saves \in BOOLEAN : SaveStudy(saves)) \/ UNCHANGED whyVars
        => UNCHANGED <<now, work, counters, history, ghosts>>
  BY DEF ReadBaseline, SaveStudy, whyVars, ghosts
<1> QED
  BY <1>1, <1>2, <1>3, <1>4, <1>5, <1>6 DEF WhyNext

(* Snapshots are stored in order, each two neighbours tell the load of the  *)
(* tick of the later one, and an unmasked reset shows (inspect.go).         *)
THEOREM HistoryTells == WhySpec => []HistoryInv
  BY HistoryInit, HistoryNext, PTL DEF WhySpec

-----------------------------------------------------------------------------
(* The snapshots within the window are the latest of the history: they have *)
(* its order, and every two neighbours in them are neighbours there.        *)
LEMMA RecentIs ==
  ASSUME HistoryInv
  PROVE  /\ Len(Recent) \in 0 .. MaxWork
         /\ \A i \in 1 .. Len(Recent) : Recent[i] \in Snapshots /\ Recent[i].at \in 1 .. now
         /\ \A i \in 1 .. Len(Recent), j \in 1 .. Len(Recent) : i < j => Recent[i].at < Recent[j].at
         /\ \A i \in 2 .. Len(Recent) :
               /\ Tells(Recent[i - 1], Recent[i], truth[Recent[i].at])
               /\ ~masked => ~Hides(Recent[i - 1], Recent[i], truth[Recent[i].at])
         /\ \A i \in 1 .. Len(history) : Len(Recent) > 0 /\ history[i].at > Recent[1].at =>
               i > 1 /\ \E j \in 2 .. Len(Recent) : Recent[j] = history[i] /\ Recent[j - 1] = history[i - 1]
<1> DEFINE L == Len(history)
           older == {i \in DOMAIN history : history[i].at < now - WhyWindow}
           n == Cardinality(older)
<1>1. /\ now \in Nat /\ history \in Seq(Snapshots) /\ L \in Nat /\ L <= MaxWork /\ MaxWork \in Nat
      /\ DOMAIN history = 1 .. L /\ WhyWindow \in Nat
  <2>1. /\ now \in Nat /\ work \in 0 .. MaxWork /\ history \in Seq(Snapshots) /\ L <= work
    BY DEF HistoryInv, HistoryTypes
  <2>2. L \in Nat /\ DOMAIN history = 1 .. L
    BY <2>1
  <2>3. MaxWork \in Nat /\ WhyWindow \in Nat
    BY LoadsAre
  <2> QED
    BY <2>1, <2>2, <2>3
<1>2. /\ \A i \in 1 .. L : history[i].at \in 1 .. now
      /\ \A i \in 1 .. L, j \in 1 .. L : i < j => history[i].at < history[j].at
  BY DEF HistoryInv, Dates
<1>3. \A i \in 2 .. L : /\ Tells(history[i - 1], history[i], truth[history[i].at])
                        /\ ~masked => ~Hides(history[i - 1], history[i], truth[history[i].at])
  BY DEF HistoryInv, Neighbours
<1>4. n \in 0 .. L
  <2>1. older \in SUBSET (1 .. L)
    BY <1>1
  <2>2. ASSUME NEW i \in older, NEW j \in 1 .. i
        PROVE  j \in older
    <3>1. i \in 1 .. L /\ j \in 1 .. L /\ history[i].at < now - WhyWindow
      BY <1>1, <2>2
    <3>2. history[j].at <= history[i].at /\ history[j].at \in Int /\ history[i].at \in Int
      BY <1>2, <3>1
    <3>3. history[j].at < now - WhyWindow
      BY <1>1, <3>1, <3>2
    <3> QED
      BY <1>1, <3>1, <3>3
  <2> HIDE DEF older
  <2> QED
    BY <1>1, <2>1, <2>2, InitialIs
<1>5. Recent = SubSeq(history, n + 1, L)
  BY DEF Recent
<1> HIDE DEF n
<1>6. /\ Len(Recent) = L - n /\ Len(Recent) \in Nat
      /\ \A i \in 1 .. Len(Recent) : Recent[i] = history[n + i] /\ n + i \in 1 .. L
  <2>1. \A i \in n + 1 .. L : history[i] \in Snapshots
    BY <1>1, <1>4
  <2>2. /\ Len(Recent) = IF n + 1 <= L THEN L - (n + 1) + 1 ELSE 0
        /\ \A i \in 1 .. L - (n + 1) + 1 : Recent[i] = history[n + 1 + i - 1]
    BY <1>1, <1>4, <1>5, <2>1, SubSeqProperties
  <2>3. L - (n + 1) + 1 = L - n /\ (~ (n + 1 <= L) => L - n = 0) /\ L - n \in Nat
    <3>1. L \in Nat /\ n \in Nat /\ n <= L
      BY <1>1, <1>4
    <3> HIDE DEF L
    <3> QED
      BY <3>1
  <2>4. Len(Recent) = L - n /\ Len(Recent) \in Nat
    BY <2>2, <2>3
  <2>5. ASSUME NEW i \in 1 .. Len(Recent)
        PROVE  Recent[i] = history[n + i] /\ n + i \in 1 .. L
    <3>1. n + 1 + i - 1 = n + i /\ n + i \in 1 .. L
      BY <1>1, <1>4, <2>4, <2>5
    <3>2. i \in 1 .. L - (n + 1) + 1
      BY <2>3, <2>4, <2>5
    <3> QED
      BY <2>2, <3>1, <3>2
  <2> QED
    BY <2>4, <2>5
<1>7. Len(Recent) \in 0 .. MaxWork
  BY <1>1, <1>4, <1>6
<1>8. \A i \in 1 .. Len(Recent) : Recent[i] \in Snapshots /\ Recent[i].at \in 1 .. now
  BY <1>1, <1>2, <1>6
<1>9. ASSUME NEW i \in 1 .. Len(Recent), NEW j \in 1 .. Len(Recent), i < j
      PROVE  Recent[i].at < Recent[j].at
  <2>1. n + i < n + j
    BY <1>4, <1>6, <1>9
  <2> QED
    BY <1>2, <1>6, <2>1
<1>10. ASSUME NEW i \in 2 .. Len(Recent)
       PROVE  /\ Tells(Recent[i - 1], Recent[i], truth[Recent[i].at])
              /\ ~masked => ~Hides(Recent[i - 1], Recent[i], truth[Recent[i].at])
  <2>1. i \in 1 .. Len(Recent) /\ i - 1 \in 1 .. Len(Recent)
    BY <1>6, <1>10
  <2>2. Recent[i] = history[n + i] /\ Recent[i - 1] = history[n + (i - 1)]
    BY <1>6, <2>1
  <2>3. n + (i - 1) = (n + i) - 1 /\ n + i \in 2 .. L
    BY <1>1, <1>4, <1>6, <1>10
  <2> QED
    BY <1>3, <2>2, <2>3
<1>11. ASSUME NEW i \in 1 .. L, Len(Recent) > 0, history[i].at > Recent[1].at
       PROVE  i > 1 /\ \E j \in 2 .. Len(Recent) : Recent[j] = history[i] /\ Recent[j - 1] = history[i - 1]
  <2>1. 1 \in 1 .. Len(Recent) /\ Recent[1] = history[n + 1] /\ n + 1 \in 1 .. L
    BY <1>6, <1>11
  <2>2. history[i].at \in Int /\ history[n + 1].at \in Int /\ history[i].at > history[n + 1].at
    BY <1>2, <1>11, <2>1
  <2>3. i > n + 1
    <3>1. ~ (i < n + 1)
      <4>1. i < n + 1 => history[i].at < history[n + 1].at
        BY <1>2, <2>1
      <4> QED
        BY <2>2, <4>1
    <3>2. i # n + 1
      BY <2>2
    <3> QED
      BY <1>1, <1>4, <3>1, <3>2
  <2>4. i - n \in 2 .. Len(Recent) /\ n + (i - n) = i /\ i - n - 1 \in 1 .. Len(Recent) /\ n + (i - n - 1) = i - 1
    BY <1>1, <1>4, <1>6, <2>3
  <2>5. i - n \in 1 .. Len(Recent)
    BY <1>6, <2>4
  <2>6. Recent[i - n] = history[i] /\ Recent[i - n - 1] = history[i - 1]
    BY <1>6, <2>4, <2>5
  <2> QED
    BY <1>4, <2>3, <2>4, <2>6
<1> QED
  BY <1>7, <1>8, <1>9, <1>10, <1>11

(* The values of a snapshot are numbers.                                    *)
LEMMA SnapshotValues ==
  ASSUME NEW s \in Snapshots
  PROVE  /\ s.at \in Nat /\ s.query.seen \in BOOLEAN /\ s.query.calls \in Nat /\ s.query.ms \in Nat
         /\ \A t \in Tables : s.tables[t].seen \in BOOLEAN /\ s.tables[t].scans \in Nat
  BY DEF Snapshots

(* The rate of a table's scans between two snapshots, rounded down.         *)
LEMMA RatesAre ==
  ASSUME HistoryInv, NEW t \in Tables
  PROVE  LET rates == TableSeqScanRates(Recent, t) IN
         /\ Measured(rates) /\ DOMAIN rates \in SUBSET (2 .. Len(Recent))
         /\ \A i \in 2 .. Len(Recent) :
              LET scans == Recent[i].tables[t].scans - Recent[i - 1].tables[t].scans
                  seconds == Recent[i].at - Recent[i - 1].at
              IN  Recent[i - 1].tables[t].seen /\ Recent[i].tables[t].seen /\ scans >= 0 =>
                     i \in DOMAIN rates /\ rates[i] * seconds <= Scale * scans
<1> DEFINE rates == TableSeqScanRates(Recent, t)
           scans(i) == Recent[i].tables[t].scans - Recent[i - 1].tables[t].scans
           seconds(i) == Recent[i].at - Recent[i - 1].at
<1>1. DOMAIN rates = {i \in TableSeen(Recent, t) : seconds(i) > 0 /\ scans(i) >= 0}
      /\ \A i \in DOMAIN rates : rates[i] = (Scale * scans(i)) \div seconds(i)
  BY DEF TableSeqScanRates
<1> HIDE DEF rates
<1>2. ASSUME NEW i \in 2 .. Len(Recent)
      PROVE  scans(i) \in Int /\ seconds(i) \in Nat /\ seconds(i) > 0
  <2>1. i \in 1 .. Len(Recent) /\ i - 1 \in 1 .. Len(Recent) /\ i - 1 < i
    BY RecentIs, <1>2
  <2>2. /\ Recent[i] \in Snapshots /\ Recent[i - 1] \in Snapshots
        /\ Recent[i - 1].at < Recent[i].at
    BY RecentIs, <2>1
  <2>3. Recent[i].at \in Nat /\ Recent[i - 1].at \in Nat
    BY <2>2, SnapshotValues
  <2>4. Recent[i].tables[t].scans \in Nat /\ Recent[i - 1].tables[t].scans \in Nat
    BY <2>2, SnapshotValues
  <2> QED
    BY <2>2, <2>3, <2>4
<1>3. DOMAIN rates \in SUBSET (2 .. Len(Recent))
  BY <1>1 DEF TableSeen
<1>4. ASSUME NEW i \in DOMAIN rates
      PROVE  rates[i] \in Nat /\ rates[i] * seconds(i) <= Scale * scans(i)
  <2>1. scans(i) \in Nat /\ seconds(i) \in Nat /\ seconds(i) > 0
    BY <1>1, <1>2, <1>3
  <2> DEFINE x == Scale * scans(i)  y == seconds(i)
  <2>2. x \in Nat /\ y \in Nat /\ y > 0
    BY <2>1 DEF Scale
  <2>3. rates[i] = x \div y
    BY <1>1
  <2> HIDE DEF x, y
  <2>4. rates[i] \in Nat /\ rates[i] * y <= x
    BY <2>2, <2>3, Quotient
  <2> QED
    BY <2>4 DEF x, y
<1>5. Measured(rates)
  <2>1. IsFiniteSet(2 .. Len(Recent)) /\ 2 .. Len(Recent) \in SUBSET Nat
    BY RecentIs, FS_Interval
  <2> QED
    BY <1>3, <1>4, <2>1, FS_Subset DEF Measured
<1>6. \A i \in 2 .. Len(Recent) :
        Recent[i - 1].tables[t].seen /\ Recent[i].tables[t].seen /\ scans(i) >= 0 => i \in DOMAIN rates
  BY <1>1, <1>2 DEF TableSeen
<1> QED
  BY <1>3, <1>4, <1>5, <1>6 DEF rates

(* The scans of the ticks up to a snapshot since the one before are those   *)
(* of its own tick: in the others nothing happened.                         *)
LEMMA ScansAre ==
  ASSUME HistoryInv, NEW i \in 2 .. Len(history), NEW t \in Tables
  PROVE  Scans(t, history[i - 1].at + 1, history[i].at) = truth[history[i].at].rates[t]
<1> DEFINE a == history[i - 1].at + 1
           b == history[i].at
           f == [k \in a .. b |-> truth[k].rates[t]]
<1>0. Len(history) \in Nat /\ now \in Nat
  BY DEF HistoryInv, HistoryTypes
<1>1. i \in 1 .. Len(history) /\ i - 1 \in 1 .. Len(history) /\ i - 1 < i
  BY <1>0
<1>2. a \in Nat /\ b \in 1 .. now /\ a <= b /\ a >= 1
  BY <1>0, <1>1 DEF HistoryInv, Dates
<1>3. truth[b] \in AnyLoad
  BY DEF HistoryInv, Neighbours, Tells
<1>4. f[b] = truth[b].rates[t] /\ f[b] \in Nat
  BY <1>2, <1>3 DEF AnyLoad
<1>5. ASSUME NEW k \in (a .. b) \ {b}
      PROVE  f[k] = 0
  <2>1. k \in 1 .. now /\ history[i - 1].at < k /\ k < b
    <3>1. history[i - 1].at \in Nat /\ b \in Nat
      BY <1>1, <1>2 DEF HistoryInv, Dates
    <3>2. k \in Nat /\ a <= k /\ k < b /\ k <= now
      BY <1>0, <1>2, <1>5
    <3> QED
      BY <1>2, <3>1, <3>2
  <2>2. ASSUME NEW j \in 1 .. Len(history), history[j].at = k
        PROVE  FALSE
    <3>1. \A x \in 1 .. Len(history), y \in 1 .. Len(history) :
             /\ history[x].at \in Int
             /\ x < y => history[x].at < history[y].at
      BY <1>0 DEF HistoryInv, Dates
    <3>2. ~ (j < i - 1) /\ j # i - 1 /\ ~ (j > i) /\ j # i
      BY <1>1, <2>1, <2>2, <3>1
    <3> QED
      BY <1>0, <3>2
  <2>3. truth[k] = Nothing
    BY <2>1, <2>2 DEF HistoryInv, Dates
  <2>4. f[k] = truth[k].rates[t]
    OBVIOUS
  <2> QED
    BY <2>3, <2>4 DEF Nothing
<1>6. Scans(t, a, b) = SumFunctionOnSet(f, a .. b)
  BY DEF Scans, SumFunction
<1> HIDE DEF f
<1>7. IsFiniteSet(a .. b) /\ {b} \in SUBSET (a .. b) /\ Naturals(f, {b})
  <2>1. a \in Int /\ b \in Int /\ b \in a .. b
    BY <1>2
  <2> HIDE DEF a, b
  <2> QED
    BY <1>4, <2>1, FS_Interval DEF Naturals
<1>8. SumFunctionOnSet(f, a .. b) = SumFunctionOnSet(f, {b})
  BY <1>5, <1>7, SumSupport
<1>9. SumFunctionOnSet(f, {b}) = f[b]
  <2>1. SumFunctionOnSet(f, {} \cup {b}) = f[b] + SumFunctionOnSet(f, {})
    <3>1. Naturals(f, {} \cup {b}) /\ b \notin {}
      BY <1>7
    <3> QED
      BY <3>1, FS_EmptySet, SumAdds
  <2>2. {} \cup {b} = {b}
    OBVIOUS
  <2> QED
    BY <1>4, <2>1, <2>2, SumEmpty
<1> QED
  BY <1>4, <1>6, <1>8, <1>9

(* A shift reported of a series of the window: where it is, what it         *)
(* compares, and what every point since says.                               *)
LEMMA ShiftIs ==
  ASSUME HistoryInv, NEW series, Measured(series), DOMAIN series \in SUBSET (2 .. Len(Recent)),
         DetectShift(Recent, series) # NoShift
  PROVE  LET shift == DetectShift(Recent, series) IN
         \E k \in DOMAIN series :
            /\ shift.at = Recent[k].at /\ PointsUntil(series, k) # {}
            /\ shift.before = Mean(series, PointsUntil(series, k))
            /\ shift.before \in Nat /\ shift.after \in Nat /\ Raised(shift)
            /\ \A j \in DOMAIN series : j >= k => 2 * Scale * series[j] >= shift.before + shift.after
<1> DEFINE shift == DetectShift(Recent, series)
<1>1. \A j \in DOMAIN series : Recent[j].at \in Int
  <2>1. \A j \in 1 .. Len(Recent) : Recent[j].at \in 1 .. now
    BY RecentIs
  <2>2. Len(Recent) \in Nat /\ now \in Nat
    BY RecentIs DEF HistoryInv, HistoryTypes
  <2> QED
    BY <2>1, <2>2
<1>2. PICK k \in Onsets(series) : shift = ShiftAt(Recent, series, k) /\ Raised(shift) /\ Sustained(series, k, shift)
  BY <1>1, DetectShiftIs
<1> HIDE DEF shift
<1>3. k \in DOMAIN series /\ k \in Nat /\ PointsUntil(series, k) # {}
  BY DEF Onsets, Measured
<1>4. k \in PointsFrom(series, k)
  BY <1>3 DEF PointsFrom
<1>5. shift = [at |-> Recent[k].at, before |-> Mean(series, PointsUntil(series, k)),
               after |-> Mean(series, PointsFrom(series, k))]
  BY <1>2 DEF ShiftAt
<1>6. Mean(series, PointsUntil(series, k)) \in Nat /\ Mean(series, PointsFrom(series, k)) \in Nat
  BY <1>3, <1>4, MeanIs DEF PointsUntil, PointsFrom
<1>7. \A j \in DOMAIN series : j >= k => 2 * Scale * series[j] >= shift.before + shift.after
  BY <1>2 DEF Sustained, PointsFrom
<1> QED
  BY <1>2, <1>3, <1>5, <1>6, <1>7 DEF shift

(* The means of a query are natural numbers.                                *)
LEMMA MeansMeasured ==
  ASSUME HistoryInv
  PROVE  /\ Measured(QueryIntervalMeans(Recent))
         /\ DOMAIN QueryIntervalMeans(Recent) \in SUBSET (2 .. Len(Recent))
         /\ \A i \in 2 .. Len(Recent) :
              LET calls == Recent[i].query.calls - Recent[i - 1].query.calls
                  ms == Recent[i].query.ms - Recent[i - 1].query.ms
              IN  /\ calls \in Int /\ ms \in Int
                  /\ i \in DOMAIN QueryIntervalMeans(Recent) <=>
                       Recent[i - 1].query.seen /\ Recent[i].query.seen /\ calls > 0 /\ ms >= 0
                  /\ i \in DOMAIN QueryIntervalMeans(Recent) =>
                       QueryIntervalMeans(Recent)[i] = (Scale * ms) \div calls
<1> DEFINE means == QueryIntervalMeans(Recent)
           calls(i) == Recent[i].query.calls - Recent[i - 1].query.calls
           ms(i) == Recent[i].query.ms - Recent[i - 1].query.ms
<1>1. DOMAIN means = {i \in QuerySeen(Recent) : calls(i) > 0 /\ ms(i) >= 0}
      /\ \A i \in DOMAIN means : means[i] = (Scale * ms(i)) \div calls(i)
  BY DEF QueryIntervalMeans
<1> HIDE DEF means
<1>2. ASSUME NEW i \in 2 .. Len(Recent)
      PROVE  calls(i) \in Int /\ ms(i) \in Int
  <2>1. i \in 1 .. Len(Recent) /\ i - 1 \in 1 .. Len(Recent)
    BY RecentIs, <1>2
  <2>2. Recent[i] \in Snapshots /\ Recent[i - 1] \in Snapshots
    BY RecentIs, <2>1
  <2>3. /\ Recent[i].query.calls \in Nat /\ Recent[i - 1].query.calls \in Nat
        /\ Recent[i].query.ms \in Nat /\ Recent[i - 1].query.ms \in Nat
    BY <2>2, SnapshotValues
  <2> QED
    BY <2>3
<1>3. DOMAIN means \in SUBSET (2 .. Len(Recent))
  BY <1>1 DEF QuerySeen
<1>4. ASSUME NEW i \in DOMAIN means
      PROVE  means[i] \in Nat
  <2> DEFINE x == Scale * ms(i)  y == calls(i)
  <2>1. ms(i) \in Nat /\ y \in Nat /\ y > 0
    BY <1>1, <1>2, <1>3
  <2>2. x \in Nat
    BY <2>1 DEF Scale
  <2>3. means[i] = x \div y
    BY <1>1
  <2> HIDE DEF x, y
  <2> QED
    BY <2>1, <2>2, <2>3, Quotient
<1>5. Measured(means)
  <2>1. IsFiniteSet(2 .. Len(Recent)) /\ 2 .. Len(Recent) \in SUBSET Nat
    BY RecentIs, FS_Interval
  <2> QED
    BY <1>3, <1>4, <2>1, FS_Subset DEF Measured
<1>6. \A i \in 2 .. Len(Recent) :
        i \in DOMAIN means <=> Recent[i - 1].query.seen /\ Recent[i].query.seen /\ calls(i) > 0 /\ ms(i) >= 0
  BY <1>1 DEF QuerySeen
<1> QED
  BY <1>1, <1>2, <1>3, <1>5, <1>6 DEF means

(* What makes a chain: a shift of the query's means, and for each table the *)
(* surge of its scans if that came no later.                                *)
LEMMA ChainIs ==
  ASSUME Chains # NoChain
  PROVE  /\ Chains.symptom = DetectShift(Recent, QueryIntervalMeans(Recent))
         /\ Chains.symptom # NoShift
         /\ \A t \in Tables : Chains.causes[t] = Mechanism(Recent, Chains.symptom, t)
<1> DEFINE symptom == DetectShift(Recent, QueryIntervalMeans(Recent))
<1>1. /\ symptom # NoShift
      /\ Chains = [symptom |-> symptom, causes |-> [t \in Tables |-> Mechanism(Recent, symptom, t)]]
  BY DEF Chains, Analyze, QuerySlowdownChains
<1> HIDE DEF symptom
<1>2. Chains.symptom = symptom /\ Chains.causes = [t \in Tables |-> Mechanism(Recent, symptom, t)]
  BY <1>1
<1> QED
  BY <1>1, <1>2 DEF symptom

(* What is named as the mechanism of a slowdown was there when it began:    *)
(* the table is scanned faster than before the surge in every interval      *)
(* since the slowdown's onset at both of whose ends it was collected        *)
(* (querySlowdownChains, tableSeqScanRates).                                *)
THEOREM CausesPrecede == WhySpec => []CauseHoldsAtOnset
<1>1. HistoryInv => CauseHoldsAtOnset
  <2> SUFFICES ASSUME HistoryInv, Chains # NoChain, NEW t \in Tables, Chains.causes[t] # NoShift,
                      NEW i \in 2 .. Len(history),
                      history[i].at >= Chains.symptom.at,
                      history[i - 1].tables[t].seen, history[i].tables[t].seen,
                      \A k \in history[i - 1].at + 1 .. history[i].at : ~truth[k].reset
               PROVE  Scale * Scale * Scans(t, history[i - 1].at + 1, history[i].at)
                        > Chains.causes[t].before * (history[i].at - (history[i - 1].at + 1) + 1)
    BY DEF CauseHoldsAtOnset, Reported
  <2> DEFINE rates == TableSeqScanRates(Recent, t)
             surge == DetectShift(Recent, rates)
             symptom == Chains.symptom
  <2>1. surge # NoShift /\ Chains.causes[t] = surge /\ ~ (surge.at > symptom.at)
    BY ChainIs DEF Mechanism, NoLaterThan
  <2>2. Measured(rates) /\ DOMAIN rates \in SUBSET (2 .. Len(Recent))
    BY RatesAre
  <2>3. PICK k \in DOMAIN rates :
           /\ surge.at = Recent[k].at /\ surge.before \in Nat /\ surge.after \in Nat /\ Raised(surge)
           /\ \A j \in DOMAIN rates : j >= k => 2 * Scale * rates[j] >= surge.before + surge.after
    <3> HIDE DEF rates
    <3> QED
      BY <2>1, <2>2, ShiftIs
  <2>4. PICK m \in 2 .. Len(Recent) : symptom.at = Recent[m].at
    BY ChainIs, MeansMeasured, ShiftIs
  <2>5. \A n \in 1 .. Len(Recent) : Recent[n].at \in Nat /\ Recent[n] \in Snapshots
    BY RecentIs, SnapshotValues
  <2>6. Len(Recent) \in Nat /\ Len(history) \in Nat /\ now \in Nat
    BY RecentIs DEF HistoryInv, HistoryTypes
  <2>7. /\ k \in 1 .. Len(Recent) /\ m \in 1 .. Len(Recent) /\ 1 \in 1 .. Len(Recent) /\ 1 < k
    BY <2>2, <2>6
  <2>8. i \in 1 .. Len(history) /\ history[i].at \in Nat
    BY <2>6 DEF HistoryInv, Dates
  <2>9. Recent[1].at < Recent[k].at /\ Recent[k].at <= history[i].at
    <3>1. Recent[1].at < Recent[k].at
      BY <2>7, RecentIs
    <3> HIDE DEF symptom, surge
    <3>2. Recent[k].at <= symptom.at /\ symptom.at <= history[i].at
      BY <2>1, <2>3, <2>4, <2>5, <2>7, <2>8 DEF symptom
    <3> QED
      BY <2>4, <2>5, <2>7, <2>8, <3>1, <3>2
  <2>10. PICK j \in 2 .. Len(Recent) : Recent[j] = history[i] /\ Recent[j - 1] = history[i - 1]
    <3>1. Len(Recent) > 0 /\ history[i].at > Recent[1].at
      BY <2>5, <2>6, <2>7, <2>8, <2>9
    <3> QED
      BY <2>8, <3>1, RecentIs
  <2>11. j \in 1 .. Len(Recent) /\ j - 1 \in 1 .. Len(Recent) /\ j - 1 < j
    BY <2>6
  <2>12. j >= k
    <3>1. j < k => Recent[j].at < Recent[k].at
      BY <2>7, <2>11, RecentIs
    <3>2. Recent[j].at \in Nat /\ Recent[k].at \in Nat
      BY <2>5, <2>7, <2>11
    <3>3. ~ (j < k)
      BY <2>9, <2>10, <3>1, <3>2
    <3> QED
      BY <2>7, <2>11, <3>3
  <2> DEFINE a == history[i - 1].at
             b == history[i].at
             scans == Scans(t, a + 1, b)
  <2>13. a \in Nat /\ b \in Nat /\ a < b
    BY <2>5, <2>10, <2>11, RecentIs
  <2>14. scans \in Nat /\ Recent[j].tables[t].scans - Recent[j - 1].tables[t].scans = scans
    <3>1. scans = truth[b].rates[t]
      BY ScansAre
    <3>2. ~truth[b].reset
      BY <2>13
    <3>3. Tells(history[i - 1], history[i], truth[b])
      BY DEF HistoryInv, Neighbours
    <3>4. truth[b].rates[t] \in Nat
      BY <3>3 DEF Tells, AnyLoad
    <3>5. history[i].tables[t].scans = history[i - 1].tables[t].scans + truth[b].rates[t]
      BY <3>2, <3>3 DEF Tells
    <3>6. history[i - 1].tables[t].scans \in Nat
      BY <2>5, <2>10, <2>11, SnapshotValues
    <3> HIDE DEF scans, b
    <3> QED
      BY <2>10, <3>1, <3>4, <3>5, <3>6 DEF b
  <2>15. j \in DOMAIN rates /\ rates[j] * (b - a) <= Scale * scans
    <3>1. Recent[j].at - Recent[j - 1].at = b - a
      BY <2>10
    <3>2. scans >= 0
      BY <2>14
    <3>3. Recent[j - 1].tables[t].seen /\ Recent[j].tables[t].seen
      BY <2>10
    <3> HIDE DEF scans, a, b
    <3> QED
      BY <2>14, <3>1, <3>2, <3>3, RatesAre
  <2>16. rates[j] \in Nat /\ Scale * rates[j] > surge.before
    <3>1. rates[j] \in Nat /\ 2 * Scale * rates[j] >= surge.before + surge.after /\ surge.after > surge.before
      BY <2>2, <2>3, <2>12, <2>15 DEF Measured, Raised
    <3> HIDE DEF rates, surge
    <3> QED
      BY <2>3, <3>1 DEF Scale
  <2>17. b - (a + 1) + 1 = b - a /\ b - a \in Nat /\ b - a > 0
    BY <2>13
  <2>18. \A r \in Nat, c \in Nat, d \in Nat, n \in Nat :
           d > 0 /\ r * d <= 60 * n /\ 60 * r > c => 60 * 60 * n > c * d
    <3>1. ASSUME NEW r \in Nat, NEW c \in Nat, NEW d \in Nat, NEW n \in Nat,
                 d > 0, r * d <= 60 * n, 60 * r > c
          PROVE  60 * 60 * n > c * d
      <4>1. (60 * r - c) * d > 0
        <5>1. 60 * r - c \in Nat /\ 60 * r - c > 0
          BY <3>1
        <5> QED
          BY <3>1, <5>1
      <4>2. (60 * r - c) * d = 60 * (r * d) - c * d /\ r * d \in Nat /\ c * d \in Nat
        OBVIOUS
      <4> QED
        BY <3>1, <4>1, <4>2
    <3> QED
      BY <3>1
  <2> HIDE DEF scans, rates, surge, a, b
  <2>19. Scale * Scale * scans > surge.before * (b - a)
    BY <2>3, <2>14, <2>15, <2>16, <2>17, <2>18 DEF Scale
  <2> QED
    BY <2>1, <2>17, <2>19 DEF scans, a, b
<1> QED
  BY <1>1, HistoryTells, PTL

-----------------------------------------------------------------------------
(* Unless a reset is masked, the means of the query have a point where the  *)
(* neighbours show the work of a tick whole, and it is the mean of a call   *)
(* in that tick.                                                            *)
LEMMA PointsAre ==
  ASSUME HistoryInv, ~masked, NEW i \in 2 .. Len(Recent)
  PROVE  /\ i \in DOMAIN QueryIntervalMeans(Recent) <=> truth[Recent[i].at].seen
         /\ i \in DOMAIN QueryIntervalMeans(Recent) =>
              /\ truth[Recent[i].at].mean \in Nat
              /\ QueryIntervalMeans(Recent)[i] = Scale * truth[Recent[i].at].mean
<1> DEFINE means == QueryIntervalMeans(Recent)
           s == Recent[i - 1]
           r == Recent[i]
           load == truth[r.at]
           calls == r.query.calls - s.query.calls
           ms == r.query.ms - s.query.ms
<1>1. Tells(s, r, load) /\ ~Hides(s, r, load)
  BY RecentIs
<1>2. i \in 1 .. Len(Recent) /\ i - 1 \in 1 .. Len(Recent)
  BY RecentIs
<1>3. r \in Snapshots /\ s \in Snapshots
  BY <1>2, RecentIs
<1>4. /\ r.query.calls \in Nat /\ r.query.ms \in Nat /\ s.query.calls \in Nat /\ s.query.ms \in Nat
      /\ r.query.seen \in BOOLEAN /\ s.query.seen \in BOOLEAN
  BY <1>3, SnapshotValues
<1>5. /\ i \in DOMAIN means <=> s.query.seen /\ r.query.seen /\ calls > 0 /\ ms >= 0
      /\ i \in DOMAIN means => means[i] = (Scale * ms) \div calls
  BY MeansMeasured
<1> HIDE DEF means, s, r, load
<1>6. load \in AnyLoad /\ (load.seen <=> load.calls > 0 /\ ~load.reset /\ s.query.seen /\ r.query.seen)
  BY <1>1 DEF Tells
<1>7. load.calls \in Nat /\ load.mean \in Nat /\ load.reset \in BOOLEAN /\ load.seen \in BOOLEAN
  BY <1>6 DEF AnyLoad
<1>8. load.calls * load.mean \in Nat
  BY <1>7
<1>9. CASE load.reset
  <2>1. ~ (calls > 0 /\ ms >= 0)
    BY <1>1, <1>4, <1>9 DEF Hides
  <2>2. i \notin DOMAIN means /\ ~load.seen
    BY <1>5, <1>6, <1>9, <2>1
  <2> QED
    BY <2>2 DEF means, load, r
<1>10. CASE ~load.reset
  <2>1. r.query.calls = s.query.calls + load.calls /\ r.query.ms = s.query.ms + load.calls * load.mean
    BY <1>1, <1>10 DEF Tells
  <2> DEFINE work1 == load.calls * load.mean
  <2>2. ms = load.calls * load.mean
    <3>1. work1 \in Nat /\ r.query.ms = s.query.ms + work1
      BY <1>8, <2>1
    <3> HIDE DEF work1
    <3>2. ms = work1
      BY <1>4, <3>1
    <3> QED
      BY <3>2 DEF work1
  <2>3. calls = load.calls
    BY <1>4, <1>7, <2>1
  <2> HIDE DEF calls, ms
  <2>4. i \in DOMAIN means <=> load.seen
    <3>1. ms >= 0
      BY <1>8, <2>2
    <3> QED
      BY <1>5, <1>6, <1>10, <2>3, <3>1
  <2>5. ASSUME i \in DOMAIN means
        PROVE  means[i] = Scale * load.mean
    <3> DEFINE x == Scale * load.mean  y == load.calls
    <3>1. x \in Nat /\ y \in Nat /\ y > 0
      BY <1>5, <1>7, <2>3, <2>5 DEF Scale
    <3>2. Scale * ms = y * x
      <4>1. \A a \in Nat, b \in Nat : 60 * (a * b) = a * (60 * b)
        BY SMT
      <4> QED
        BY <1>7, <2>2, <4>1 DEF Scale
    <3>3. means[i] = (y * x) \div y
      BY <1>5, <2>3, <2>5, <3>2
    <3> HIDE DEF x, y
    <3>4. means[i] = x
      BY <3>1, <3>3, ExactQuotient
    <3> QED
      BY <3>4 DEF x
  <2> QED
    BY <1>7, <2>4, <2>5 DEF means, load, r
<1> QED
  BY <1>7, <1>9, <1>10

(* A tick since the window's first snapshot whose work is shown whole is    *)
(* the tick of another of its snapshots.                                    *)
LEMMA ShownAre ==
  ASSUME HistoryInv, Len(Recent) > 0, NEW k \in Recent[1].at + 1 .. now, truth[k].seen
  PROVE  \E j \in 2 .. Len(Recent) : Recent[j].at = k
<1>1. Len(Recent) \in Nat /\ now \in Nat
  BY RecentIs DEF HistoryInv, HistoryTypes
<1>2. 1 \in 1 .. Len(Recent)
  BY <1>1
<1>3. Recent[1].at \in 1 .. now
  BY <1>2, RecentIs
<1>4. k \in 1 .. now /\ k > Recent[1].at
  BY <1>1, <1>3
<1>5. truth[k] # Nothing
  BY DEF Nothing
<1>6. PICK i \in 1 .. Len(history) : history[i].at = k
  BY <1>4, <1>5 DEF HistoryInv, Dates
<1>7. PICK j \in 2 .. Len(Recent) : Recent[j] = history[i]
  BY <1>4, <1>6, RecentIs
<1> QED
  BY <1>6, <1>7

(* Finite sets one of which renames the other have as many elements.        *)
LEMMA CountRenamed ==
  ASSUME NEW T, IsFiniteSet(T), NEW S, NEW r \in [T -> S],
         S = {r[t] : t \in T}, \A t, u \in T : r[t] = r[u] => t = u
  PROVE  Cardinality(S) = Cardinality(T)
<1>1. r \in Injection(T, S)
  BY DEF Injection, IsInjective
<1>2. r \in Surjection(T, S)
  BY DEF Surjection
<1>3. ExistsBijection(T, S)
  BY <1>1, <1>2 DEF ExistsBijection, Bijection
<1> QED
  BY <1>3, FS_Bijection

(* What the earlier points of the query's means are: the ticks before the   *)
(* onset whose work is shown whole, one point each.                         *)
LEMMA EarlierAre ==
  ASSUME HistoryInv, ~masked, NEW k \in DOMAIN QueryIntervalMeans(Recent)
  PROVE  LET means == QueryIntervalMeans(Recent)
             earlier == Shown(First + 1, Recent[k].at - 1)
             sum == SumFunction([b \in earlier |-> truth[b].mean])
         IN  /\ Cardinality(earlier) = Cardinality(PointsUntil(means, k))
             /\ Cardinality(earlier) <= MaxWork
             /\ sum \in Nat /\ SumFunctionOnSet(means, PointsUntil(means, k)) = Scale * sum
<1> DEFINE means == QueryIntervalMeans(Recent)
           T == PointsUntil(means, k)
           earlier == Shown(First + 1, Recent[k].at - 1)
           r == [j \in T |-> Recent[j].at]
           f == [b \in earlier |-> truth[b].mean]
           g == [j \in T |-> truth[Recent[j].at].mean]
<1>1. /\ Len(Recent) \in Nat /\ Len(Recent) <= MaxWork /\ MaxWork \in Nat /\ now \in Nat
      /\ \A i \in 1 .. Len(Recent) : Recent[i].at \in 1 .. now
      /\ \A i \in 1 .. Len(Recent), j \in 1 .. Len(Recent) : i < j => Recent[i].at < Recent[j].at
  <2>1. MaxWork \in Nat /\ now \in Nat /\ Len(Recent) \in 0 .. MaxWork
    BY LoadsAre, RecentIs DEF HistoryInv, HistoryTypes
  <2> QED
    BY <2>1, RecentIs
<1>2. DOMAIN means \in SUBSET (2 .. Len(Recent))
  BY MeansMeasured
<1>3. /\ k \in 2 .. Len(Recent) /\ T \in SUBSET (2 .. Len(Recent))
      /\ \A j \in T : j \in DOMAIN means /\ j < k
      /\ \A j \in DOMAIN means : j < k => j \in T
  BY <1>2 DEF PointsUntil
<1>4. /\ \A j \in T : truth[Recent[j].at].seen /\ g[j] \in Nat /\ means[j] = Scale * g[j]
      /\ \A j \in 2 .. Len(Recent) : truth[Recent[j].at].seen => j \in DOMAIN means
  BY <1>3, PointsAre
<1> HIDE DEF means
<1>5. First = Recent[1].at /\ 1 \in 1 .. Len(Recent) /\ k \in 1 .. Len(Recent)
  BY <1>1, <1>3 DEF First
<1>6. \A j \in 2 .. Len(Recent) : j \in 1 .. Len(Recent) /\ 1 < j
  BY <1>1
<1>7. earlier = {r[j] : j \in T}
  <2>1. ASSUME NEW j \in T
        PROVE  Recent[j].at \in earlier
    <3>1. j \in 1 .. Len(Recent) /\ 1 < j /\ j < k
      BY <1>3, <1>6
    <3>2. First < Recent[j].at /\ Recent[j].at < Recent[k].at
      BY <1>1, <1>5, <3>1
    <3>3. First \in Nat /\ Recent[j].at \in Nat /\ Recent[k].at \in Nat
      BY <1>1, <1>5, <3>1
    <3>4. Recent[j].at \in First + 1 .. Recent[k].at - 1
      BY <3>2, <3>3
    <3> QED
      BY <1>4, <3>4 DEF Shown
  <2>2. ASSUME NEW b \in earlier
        PROVE  \E j \in T : b = Recent[j].at
    <3>1. b \in First + 1 .. Recent[k].at - 1 /\ truth[b].seen
      BY DEF Shown
    <3>2. First \in 1 .. now /\ Recent[k].at \in 1 .. now
      BY <1>1, <1>5
    <3>3. b \in Recent[1].at + 1 .. now /\ b < Recent[k].at
      BY <1>1, <1>5, <3>1, <3>2
    <3>4. PICK j \in 2 .. Len(Recent) : Recent[j].at = b
      BY <1>1, <1>3, <3>1, <3>3, ShownAre
    <3>5. ~ (k < j) /\ k # j
      <4>1. k < j => Recent[k].at < Recent[j].at
        BY <1>1, <1>5, <1>6
      <4>2. Recent[k].at \in Nat /\ b \in Nat
        BY <3>1, <3>2
      <4> QED
        BY <3>3, <3>4, <4>1, <4>2
    <3>6. j < k
      BY <1>3, <3>5
    <3> QED
      BY <1>3, <1>4, <3>1, <3>4, <3>6
  <2> QED
    BY <2>1, <2>2
<1>8. \A j, l \in T : r[j] = r[l] => j = l
  <2> SUFFICES ASSUME NEW j \in T, NEW l \in T, Recent[j].at = Recent[l].at
               PROVE  j = l
    OBVIOUS
  <2>1. j \in 1 .. Len(Recent) /\ l \in 1 .. Len(Recent)
    BY <1>3, <1>6
  <2>2. Recent[j].at \in Nat /\ ~ (Recent[j].at < Recent[l].at) /\ ~ (Recent[l].at < Recent[j].at)
    BY <1>1, <2>1
  <2>3. ~ (j < l) /\ ~ (l < j)
    BY <1>1, <2>1, <2>2
  <2> QED
    BY <2>1, <2>3
<1>9. IsFiniteSet(T) /\ Cardinality(T) <= MaxWork
  <2>1. IsFiniteSet(1 .. Len(Recent)) /\ Cardinality(1 .. Len(Recent)) = Len(Recent)
    <3>1. \A l \in Nat : IsFiniteSet(1 .. l) /\ Cardinality(1 .. l) = l
      <4>1. ASSUME NEW l \in Nat
            PROVE  IsFiniteSet(1 .. l) /\ Cardinality(1 .. l) = l
        <5>1. IsFiniteSet(1 .. l) /\ Cardinality(1 .. l) = IF 1 > l THEN 0 ELSE l - 1 + 1
          BY FS_Interval
        <5>2. (IF 1 > l THEN 0 ELSE l - 1 + 1) = l
          OBVIOUS
        <5> QED
          BY <5>1, <5>2
      <4> QED
        BY <4>1
    <3> QED
      BY <1>1, <3>1
  <2>2. T \in SUBSET (1 .. Len(Recent))
    BY <1>3, <1>6
  <2>3. IsFiniteSet(T) /\ Cardinality(T) <= Len(Recent) /\ Cardinality(T) \in Nat
    BY <2>1, <2>2, FS_Subset, FS_CardinalityType
  <2> QED
    BY <1>1, <2>3
<1>10. \A j \in T : f[r[j]] = g[j]
  BY <1>7
<1>11. Naturals(g, T)
  BY <1>4 DEF Naturals
<1>12. r \in [T -> earlier]
  BY <1>7
<1>13. SumFunction(f) = SumFunctionOnSet(f, earlier)
  BY DEF SumFunction
<1>14. \A j \in T : means[j] = Scale * g[j]
  BY <1>4
<1> HIDE DEF T, r, f, g, earlier
<1>15. Cardinality(earlier) = Cardinality(T)
  BY <1>7, <1>8, <1>9, <1>12, CountRenamed
<1>16. SumFunctionOnSet(f, earlier) = SumFunctionOnSet(g, T)
  BY <1>7, <1>8, <1>9, <1>10, <1>11, SumRenamed
<1>17. SumFunctionOnSet(g, T) \in Nat
  BY <1>9, <1>11, SumRemoves
<1>18. SumFunctionOnSet(means, T) = Scale * SumFunctionOnSet(g, T)
  BY <1>9, <1>11, <1>14, SumScaled DEF Scale
<1> QED
  BY <1>9, <1>13, <1>15, <1>16, <1>17, <1>18 DEF T, means, earlier, f

(* A rise of half on a rounded mean of at most ExactWork points, and past   *)
(* the midpoint, is a rise of a quarter on the mean itself.                 *)
LEMMA QuarterUp ==
  ASSUME NEW before \in Nat, NEW after \in Nat, NEW m \in Nat, NEW n \in Nat, NEW sum \in Nat,
         n <= ExactWork, 2 * after >= 3 * before, 2 * Scale * (Scale * m) >= before + after,
         Scale * (Scale * sum) < before * n + n
  PROVE  4 * m * n >= 5 * sum
<1>1. 14400 * m >= 5 * before
  BY DEF Scale
<1>2. 14400 * (m * n) >= 5 * (before * n)
  <2>1. (14400 * m - 5 * before) * n >= 0
    <3>1. 14400 * m - 5 * before \in Nat
      BY <1>1
    <3> QED
      BY <3>1
  <2>2. (14400 * m - 5 * before) * n = 14400 * (m * n) - 5 * (before * n)
    OBVIOUS
  <2>3. m * n \in Nat /\ before * n \in Nat
    OBVIOUS
  <2> QED
    BY <2>1, <2>2, <2>3
<1> DEFINE p == m * n  q == before * n
<1>3. p \in Nat /\ q \in Nat /\ 14400 * p >= 5 * q /\ 3600 * sum < q + n /\ n <= 720
  BY <1>2 DEF Scale, ExactWork
<1>4. 4 * m * n = 4 * p
  OBVIOUS
<1> HIDE DEF p, q
<1>5. 4 * p >= 5 * sum
  BY <1>3
<1> QED
  BY <1>4, <1>5

(* A slowdown that is reported happened: in every tick since its onset      *)
(* whose work the snapshots show whole a call took at least a quarter       *)
(* longer than before on average (detectShift, Analyze).                    *)
THEOREM SlowdownsHappened == WhySpec => []SlowdownIsReal
<1>1. HistoryInv => SlowdownIsReal
  <2> DEFINE symptom == Chains.symptom
             earlier == Shown(First + 1, symptom.at - 1)
             sum == SumFunction([b \in earlier |-> truth[b].mean])
  <2> SUFFICES ASSUME HistoryInv, Chains # NoChain, ~masked, NEW t \in Shown(symptom.at, now)
               PROVE  4 * truth[t].mean * Cardinality(earlier) >= 5 * sum
    BY DEF SlowdownIsReal, Reported
  <2> DEFINE means == QueryIntervalMeans(Recent)
  <2>1. Measured(means) /\ DOMAIN means \in SUBSET (2 .. Len(Recent))
    BY MeansMeasured
  <2>2. symptom = DetectShift(Recent, means) /\ symptom # NoShift
    BY ChainIs
  <2>3. PICK k \in DOMAIN means :
           /\ symptom.at = Recent[k].at /\ PointsUntil(means, k) # {}
           /\ symptom.before = Mean(means, PointsUntil(means, k))
           /\ symptom.before \in Nat /\ symptom.after \in Nat /\ Raised(symptom)
           /\ \A j \in DOMAIN means : j >= k => 2 * Scale * means[j] >= symptom.before + symptom.after
    <3> HIDE DEF means, symptom
    <3> QED
      BY <2>1, <2>2, ShiftIs
  <2>4. /\ Cardinality(earlier) = Cardinality(PointsUntil(means, k))
        /\ Cardinality(earlier) <= MaxWork
        /\ sum \in Nat /\ SumFunctionOnSet(means, PointsUntil(means, k)) = Scale * sum
    BY <2>3, EarlierAre
  <2>5. /\ Cardinality(PointsUntil(means, k)) \in Nat
        /\ Scale * SumFunctionOnSet(means, PointsUntil(means, k))
             < symptom.before * Cardinality(PointsUntil(means, k)) + Cardinality(PointsUntil(means, k))
    <3> HIDE DEF means
    <3>1. PointsUntil(means, k) \in SUBSET (DOMAIN means)
      BY DEF PointsUntil
    <3> QED
      BY <2>1, <2>3, <3>1, MeanIs
  <2>6. t \in symptom.at .. now /\ truth[t].seen
    BY DEF Shown
  <2>7. /\ Len(Recent) \in Nat /\ k \in 1 .. Len(Recent) /\ 1 \in 1 .. Len(Recent) /\ 1 < k
        /\ k \in 2 .. Len(Recent) /\ now \in Nat
    <3>1. Len(Recent) \in Nat /\ now \in Nat
      BY RecentIs DEF HistoryInv, HistoryTypes
    <3> QED
      BY <2>1, <3>1
  <2>8. Recent[1].at \in Nat /\ Recent[k].at \in Nat /\ Recent[1].at < Recent[k].at
    <3>1. Recent[1].at \in 1 .. now /\ Recent[k].at \in 1 .. now /\ Recent[1].at < Recent[k].at
      BY <2>7, RecentIs
    <3> QED
      BY <2>7, <3>1
  <2>9. Len(Recent) > 0 /\ t \in Recent[1].at + 1 .. now /\ t >= Recent[k].at /\ t \in Nat
    BY <2>3, <2>6, <2>7, <2>8
  <2>10. PICK j \in 2 .. Len(Recent) : Recent[j].at = t
    BY <2>6, <2>9, ShownAre
  <2>11. j \in DOMAIN means /\ truth[t].mean \in Nat /\ means[j] = Scale * truth[t].mean
    BY <2>6, <2>10, PointsAre
  <2>12. j >= k
    <3>1. j \in 1 .. Len(Recent)
      BY <2>7
    <3>2. j < k => Recent[j].at < Recent[k].at
      BY <2>7, <3>1, RecentIs
    <3>3. ~ (j < k)
      BY <2>8, <2>9, <2>10, <3>2
    <3> QED
      BY <2>7, <3>1, <3>3
  <2>13. MaxWork \in Nat /\ MaxWork <= ExactWork
    <3>1. MaxWork \in 0 .. ExactWork
      BY WhyAssumption
    <3> QED
      BY <3>1 DEF ExactWork
  <2> DEFINE n == Cardinality(earlier)  m == truth[t].mean
  <2>14. n \in Nat /\ m \in Nat /\ n <= ExactWork
    <3>1. n \in Nat /\ n <= MaxWork
      BY <2>4, <2>5
    <3> HIDE DEF n, m
    <3>2. n <= ExactWork
      BY <2>13, <3>1 DEF ExactWork
    <3> QED
      BY <2>11, <3>1, <3>2 DEF m
  <2>15. 2 * Scale * (Scale * m) >= symptom.before + symptom.after
    BY <2>3, <2>11, <2>12
  <2>16. 2 * symptom.after >= 3 * symptom.before
    BY <2>3 DEF Raised
  <2>17. Scale * (Scale * sum) < symptom.before * n + n
    BY <2>4, <2>5
  <2> HIDE DEF n, m, sum, symptom
  <2>18. 4 * m * n >= 5 * sum
    BY <2>3, <2>4, <2>14, <2>15, <2>16, <2>17, QuarterUp DEF sum
  <2> QED
    BY <2>18 DEF n, m
<1> QED
  BY <1>1, HistoryTells, PTL
=============================================================================
