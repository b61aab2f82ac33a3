------------------------------ MODULE CollectRun ------------------------------
(***************************************************************************)
(* One collection (Run, internal/collect/runner.go): the first sample of    *)
(* every collector, concurrently; then the window, opened and closed by the *)
(* health collector, with the wait-event sampler in it; then the second     *)
(* sample of the counters.  The health collector takes the sampler's own    *)
(* commits off the commit rate it reports.                                  *)
(*                                                                          *)
(* PostgreSQL (external) adds a commit to pg_stat_database at once or some  *)
(* time later; a query may be left without an answer for ever.              *)
(***************************************************************************)
EXTENDS Integers, FiniteSets

CONSTANTS
    Gauges,      \* collectors read once
    Counters,    \* collectors read twice, health left out
    Schema,      \* those that --profile=schema runs
    Limit,       \* errgroup's SetLimit
    MaxPolls,    \* bound on the sampler's polls
    MaxApps,     \* bound on the applications' commits
    MaxResets    \* bound on pg_stat_reset calls

Collectors == Gauges \cup Counters

ASSUME CollectAssumption ==
    /\ Gauges \cap Counters = {} /\ Schema \subseteq Collectors
    /\ Limit \in Nat \ {0}
    /\ MaxPolls \in Nat /\ MaxApps \in Nat /\ MaxResets \in Nat

VARIABLES
    opts,      \* the options: schemaOnly, ash
    avail,     \* collectors the server's capabilities allow
    pc,        \* where Run is
    ctx,       \* the run's context
    gctx,      \* the errgroup's context
    todo,      \* collectors of this phase not started yet
    running,   \* collectors in flight
    res,       \* what each collector's entry of results holds
    sampler,   \* the sampler goroutine
    polls,     \* its attempts and failures
    hA, hB,    \* health's two samples
    health,    \* the health section: the kind, and the commits rated
    stat,      \* pg_stat_database: xact_commit and stats_reset
    late,      \* pgbot's commits not yet in it
    apps,      \* history: the applications' commits since sample A
    hurt       \* history: collectors whose own query failed

run == <<pc, ctx, gctx, todo, running, res>>
server == <<stat, late, apps>>
vars == <<opts, avail, run, sampler, polls, hA, hB, health, server, hurt>>

NoSample == [ok |-> FALSE, commits |-> 0, epoch |-> 0, late |-> 0, apps |-> 0]
Returned == {"returned", "failed"}
Polling == {"poll", "rest"}

Wanted == {c \in avail : opts.schemaOnly => c \in Schema}
-----------------------------------------------------------------------------
(* What Assemble makes of the two health samples.                           *)
(* A slip of OwnTxns: failed polls are subtracted too.                      *)
OwnAttempts == polls.attempts

OwnTxns == polls.attempts - polls.failures
CommitsB(own) == IF own > 0 /\ hB.commits - own >= hA.commits THEN hB.commits - own ELSE hB.commits
EpochChanged == hA.epoch # hB.epoch

Health(a, b, commitsB) ==
    IF ~(a.ok /\ b.ok) THEN [kind |-> "unavailable", commits |-> 0]
    ELSE IF EpochChanged \/ commitsB < a.commits THEN [kind |-> "reset", commits |-> 0]
    ELSE [kind |-> "sampled", commits |-> commitsB - a.commits]

(* A transaction of pgbot commits.                                          *)
OwnCommit ==
    \/ stat' = [stat EXCEPT !.commits = @ + 1] /\ UNCHANGED late
    \/ late' = late + 1 /\ UNCHANGED stat
-----------------------------------------------------------------------------
Init ==
    /\ opts \in [schemaOnly : BOOLEAN, ash : BOOLEAN]
    /\ avail \in SUBSET Collectors
    /\ pc = "phase1" /\ ctx = "live" /\ gctx = "live"
    /\ todo = Wanted /\ running = {}
    /\ res = [c \in Collectors |-> "empty"]
    /\ sampler = "off"
    /\ polls = [attempts |-> 0, failures |-> 0]
    /\ hA = NoSample /\ hB = NoSample
    /\ health = [kind |-> "none", commits |-> 0]
    /\ stat = [commits |-> 0, epoch |-> 0] /\ late = 0 /\ apps = 0
    /\ hurt = {}

(* g.Go, which waits while Limit collectors are in flight.                  *)
Launch(c) ==
    /\ pc \in {"phase1", "phase2"} /\ c \in todo
    /\ Cardinality(running) < Limit
    /\ todo' = todo \ {c} /\ running' = running \cup {c}
    /\ UNCHANGED <<opts, avail, pc, ctx, gctx, res, sampler, polls, hA, hB, health, server, hurt>>

(* A collector's query answers; its read-only transaction commits.          *)
Sampled(c) ==
    /\ c \in running
    /\ running' = running \ {c}
    /\ res' = [res EXCEPT ![c] = IF @ = "error" THEN @ ELSE "sampled"]
    /\ OwnCommit
    /\ UNCHANGED <<opts, avail, pc, ctx, gctx, todo, sampler, polls, hA, hB, health, apps, hurt>>

(* A collector's query fails, of itself or because its context is done; the *)
(* goroutine returns nil to the group all the same.                         *)
Fails(c) ==
    /\ c \in running
    /\ running' = running \ {c}
    /\ res' = [res EXCEPT ![c] = "error"]
    /\ hurt' = IF ctx = "live" /\ gctx = "live" THEN hurt \cup {c} ELSE hurt
    /\ UNCHANGED <<opts, avail, pc, ctx, gctx, todo, sampler, polls, hA, hB, health, server>>

(* A slip of EndPhase1: the window opens before g1.Wait().                  *)
EndPhase1Early ==
    /\ pc = "phase1" /\ todo = {}
    /\ pc' = IF opts.schemaOnly THEN "window closed" ELSE "sample A"
    /\ UNCHANGED <<opts, avail, ctx, gctx, todo, running, res, sampler, polls, hA, hB, health, server, hurt>>

(* g1.Wait() returns.  --profile=schema has no window.                      *)
EndPhase1 ==
    /\ pc = "phase1" /\ todo = {} /\ running = {}
    /\ pc' = IF opts.schemaOnly THEN "window closed" ELSE "sample A"
    /\ UNCHANGED <<opts, avail, ctx, gctx, todo, running, res, sampler, polls, hA, hB, health, server, hurt>>

(* Health's sample A, which commits after it has read; then the sampler is  *)
(* launched and polls at once.                                              *)
SampleA ==
    /\ pc = "sample A"
    /\ \/ /\ hA' = [ok |-> TRUE, commits |-> stat.commits, epoch |-> stat.epoch, late |-> late,
                   apps |-> 0]
          /\ OwnCommit
       \/ UNCHANGED <<hA, stat, late>>
    /\ apps' = 0
    /\ sampler' = IF opts.ash THEN "poll" ELSE "off"
    /\ polls' = IF opts.ash THEN [polls EXCEPT !.attempts = 1] ELSE polls
    /\ pc' = "wait"
    /\ UNCHANGED <<opts, avail, ctx, gctx, todo, running, res, hB, health, hurt>>

(* A poll ends; one that failed may have committed on the server.           *)
PollEnds ==
    /\ sampler = "poll" /\ sampler' = "rest"
    /\ \/ OwnCommit /\ UNCHANGED polls
       \/ /\ polls' = [polls EXCEPT !.failures = @ + 1]
          /\ OwnCommit \/ UNCHANGED <<stat, late>>
    /\ UNCHANGED <<opts, avail, run, hA, hB, health, apps, hurt>>

PollStarts ==
    /\ sampler = "rest" /\ polls.attempts < MaxPolls
    /\ sampler' = "poll"
    /\ polls' = [polls EXCEPT !.attempts = @ + 1]
    /\ UNCHANGED <<opts, avail, run, hA, hB, health, server, hurt>>

(* Its window is over, or the context is done.                              *)
SamplerEnds ==
    /\ sampler = "rest" /\ sampler' = "ended"
    /\ UNCHANGED <<opts, avail, run, polls, hA, hB, health, server, hurt>>

(* The select: the interval has passed, or the context is done.             *)
IntervalPasses ==
    /\ pc = "wait"
    /\ pc' = "join"
    /\ UNCHANGED <<opts, avail, ctx, gctx, todo, running, res, sampler, polls, hA, hB, health, server, hurt>>

GiveUp ==
    /\ pc = "wait" /\ ctx = "done"
    /\ pc' = "leave"
    /\ UNCHANGED <<opts, avail, ctx, gctx, todo, running, res, sampler, polls, hA, hB, health, server, hurt>>

(* The deferred <-ashDone, before Run returns the error.                    *)
Leave ==
    /\ pc = "leave" /\ sampler \notin Polling
    /\ pc' = "failed"
    /\ UNCHANGED <<opts, avail, ctx, gctx, todo, running, res, sampler, polls, hA, hB, health, server, hurt>>

(* <-ashDone, then health's sample B.                                       *)
SampleB ==
    /\ pc = "join" /\ sampler \notin Polling
    /\ \/ /\ hB' = [ok |-> TRUE, commits |-> stat.commits, epoch |-> stat.epoch, late |-> late,
                   apps |-> apps]
          /\ OwnCommit
       \/ UNCHANGED <<hB, stat, late>>
    /\ pc' = "window closed"
    /\ UNCHANGED <<opts, avail, ctx, gctx, todo, running, res, sampler, polls, hA, health, apps, hurt>>

(* Phase 2: a group and a context of its own, the counters only.            *)
StartPhase2 ==
    /\ pc = "window closed"
    /\ pc' = "phase2" /\ gctx' = ctx
    /\ todo' = Wanted \cap Counters
    /\ UNCHANGED <<opts, avail, ctx, running, res, sampler, polls, hA, hB, health, server, hurt>>

(* g2.Wait() returns; every collector assembles its section.                *)
Assemble ==
    /\ pc = "phase2" /\ todo = {} /\ running = {}
    /\ health' = IF opts.schemaOnly
                   THEN [kind |-> "unavailable", commits |-> 0]
                   ELSE Health(hA, hB, CommitsB(OwnTxns))
    /\ pc' = "returned"
    /\ UNCHANGED <<opts, avail, ctx, gctx, todo, running, res, sampler, polls, hA, hB, server, hurt>>

(* A slip of Deadline: an unset Options.Deadline is no deadline.            *)
NoDeadline == FALSE

(* The timeout, or the user's interrupt.                                    *)
Deadline ==
    /\ ctx = "live" /\ pc \notin Returned
    /\ ctx' = "done" /\ gctx' = "done"
    /\ UNCHANGED <<opts, avail, pc, todo, running, res, sampler, polls, hA, hB, health, server, hurt>>

(* The server: an application commits, pgbot's commits reach the view,      *)
(* somebody resets the statistics.  Before sample A that only changes where *)
(* the counters start, after sample B nothing reads them.                   *)
Window == {"wait", "leave", "join"}

AppCommit ==
    /\ apps < MaxApps /\ pc \in Window
    /\ apps' = apps + 1
    /\ stat' = [stat EXCEPT !.commits = @ + 1]
    /\ UNCHANGED <<opts, avail, run, sampler, polls, hA, hB, health, late, hurt>>

LateReport ==
    /\ late > 0 /\ pc \in Window \cup {"phase1", "sample A"}
    /\ stat' = [stat EXCEPT !.commits = @ + late]
    /\ late' = 0
    /\ UNCHANGED <<opts, avail, run, sampler, polls, hA, hB, health, apps, hurt>>

Reset ==
    /\ stat.epoch < MaxResets /\ pc \in Window
    /\ stat' = [commits |-> 0, epoch |-> stat.epoch + 1]
    /\ UNCHANGED <<opts, avail, run, sampler, polls, hA, hB, health, late, apps, hurt>>

Phase == EndPhase1 \/ SampleA \/ IntervalPasses \/ GiveUp \/ Leave \/ SampleB \/ StartPhase2 \/ Assemble

Next ==
    \/ \E c \in Collectors : Launch(c) \/ Sampled(c) \/ Fails(c)
    \/ Phase \/ PollEnds \/ PollStarts \/ SamplerEnds
    \/ Deadline \/ AppCommit \/ LateReport \/ Reset

Spec == Init /\ [][Next]_vars

(* Nothing obliges a query to be answered.  Assumed: the deadline passes, a *)
(* query whose context is done returns an error, a poll returns within its  *)
(* budget, and goroutines that can run do.                                  *)
FairSpec ==
    /\ Spec
    /\ WF_vars(Deadline) /\ WF_vars(Phase)
    /\ WF_vars(PollEnds) /\ WF_vars(SamplerEnds)
    /\ \A c \in Collectors : WF_vars(Launch(c)) /\ WF_vars(ctx = "done" /\ Fails(c))
-----------------------------------------------------------------------------
(* Between health's two samples the sampler's polls are pgbot's only        *)
(* traffic: the commits taken off the rate are all there is to take off.    *)
SamplerAlone ==
    sampler \in Polling => running = {} /\ pc \in Window

(* When the view lags at neither sample, the rate is the applications' own: *)
(* pgbot adds at most the polls that failed on its side only and sample A   *)
(* itself, and never takes off what an application committed.               *)
ThroughputBounds ==
    health.kind = "sampled" /\ hA.late = 0 /\ hB.late = 0 =>
        hB.apps <= health.commits /\ health.commits <= hB.apps + polls.failures + 1

(* Rates are omitted as reset exactly when the statistics were reset in the *)
(* window, even when the view has not yet caught up with the commits that   *)
(* are taken off.                                                           *)
ResetExactlyThen ==
    health.kind \in {"reset", "sampled"} => (health.kind = "reset" <=> hA.epoch # hB.epoch)

(* The rate a reader sees is the applications' throughput, and where there  *)
(* is none it is because the counters started over.                         *)
RateIsHonest == ThroughputBounds /\ ResetExactlyThen

(* A failing collector costs its own section only: while the run's context  *)
(* lives, a section is lost only to its own query.                          *)
FailsAlone == \A c \in Collectors : res[c] = "error" /\ ctx = "live" => c \in hurt

(* When Run returns, with a report or an error, none of its goroutines is   *)
(* left that would use the pool its caller closes.                          *)
JoinedOnReturn == pc \in Returned => sampler \notin Polling /\ running = {}

(* What runs side by side in a collection stays contained: the sampler in   *)
(* the window, a failure in its section, everything within Run.             *)
Contained == SamplerAlone /\ FailsAlone /\ JoinedOnReturn

(* Run returns, even if the server answers nothing.                         *)
RunReturns == <>(pc \in Returned)
=============================================================================
