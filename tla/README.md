# pgbot in TLA+

pgbot inspects a PostgreSQL server from outside: it connects read-only,
samples the server's statistics, compares them with earlier runs kept in a
local SQLite file, and reports findings whose severity becomes the exit code.
Beside that it explains slowdowns from the kept history, answers an AI
assistant over MCP, and says which indexes can go.

This directory holds TLA+ models of pgbot, the TLC runs that check them on
small instances, and TLAPS proofs of central properties for every instance.
`PROJECT.json` maps each definition to the lines of `src/` it stands for, and
lists every hazard of the code with the properties that cover it.

    tlc -workers 2 -config MCBaselineStore.cfg MCBaselineStore
    tlapm FanOut_proofs.tla

## The system

| part | state | operations | interacts with | hard because |
|---|---|---|---|---|
| baseline store (`internal/store`) | one SQLite file: `snapshots`, `schema_objects`, `events`, `wait_rollups`, `suppression_stats`, `verdicts`, `meta` | Save with its retention, Previous, SaveSchema, AppendEvents, SaveWaitProfile, RecordSuppressions, RecordVerdict, Prune | every run opens a handle of its own, several at a time under `--all-databases` | each SQL statement is its own transaction; handles overlap, statements fail, processes die |
| run history (`withStore`, `internal/diff`, `internal/events`) | what one run read so far | previous run, events, baseline, save | the store, in eight calls | a run observes other runs half done |
| collection (`internal/collect`) | the results of each collector, the window, the sampler's counts | two phases, the window, the sampler | shares the pool with its own goroutines, the counters with the applications | concurrency, a deadline, cancellation, counters that lag and reset |
| wait study (`waitstudy.go`) | samples of sessions, sightings of lock chains | two sampling planes, a conclusion | the store's rollups | thin or failed samples, a blocker blamed by accident |
| connection (`internal/conn`) | the pool, own backend PIDs, the process-wide SSH client | Connect, Warm, tunnel dial and teardown | every target of a process shares the SSH client | a shared resource that dies, is replaced and must not leak or be cut |
| fan-out (`cmd/pgbot/alldbs.go`) | the targets, the semaphore, the contexts | plan, inspect each, dedupe, exit code | collection and history, once per target | goroutines finish in any order, some fail |
| log tail (`internal/pglog`) | file position, partial line, pending entry | Follow, Parse, Flush | the server writes and rotates the file meanwhile | three queries per poll, chunk boundaries, rotation |
| findings (`internal/findings`) | none (a function of the report) | some forty rules and their catalogue | the report, the deltas, each other's findings | independent thresholds over absent, stale and contradictory measures |
| configuration, suppressions, `--fail-on` (`internal/config`, `cmd/pgbot/inspect.go`) | the file, the record of which rules matched | validate, remap, ignore whole findings or rows, expire, count unused, compare with a saved report | the findings, the store | order of remap and ignore, partial cuts, expiry, views that must agree |
| why engine (`internal/why`) | none (a function of the stored series) | onset detection, causal chains, live diagnosis | the store, the wait study | resets, evictions, spikes, effects taken for causes |
| index to code correlation (`internal/correlate`) | recorded verdicts | grade each removable index, guard, corroborate | collectors, store, MCP | evidence about an index that is no longer the one it was about |
| MCP server (`internal/mcp`, `cmd/pgbot/mcp*.go`) | the session | the serve loop, the tools | stdin, stdout, the context | cancellation against a blocked read, a running tool and a blocked write |
| advisor, plans, ERD, AI, layout, packaging | none | pure functions and I/O | | layout and wording |

What must be right, part by part:

* *store*: rows go only where the retention policy sends them; the size cap
  of a handle that is alone spares the newest row and needs one pass.
* *run history*: no comparison across a reset the run knows of; an event tells
  of a change that was made, and of when as far as pgbot can know; fingerprints
  stay with their snapshots and never go backwards.
* *collection*: the reported rate is the applications' own; one collector's
  failure costs one section; Run always returns, with nothing still running.
* *SSH tunnel*: nobody cuts a transport others ride on, none leaks, every dial
  returns.
* *fan-out*: reports carry the right label; cluster-wide findings come exactly
  once; partial coverage fails the run.
* *log tail*: nothing read is lost, repeated or mixed; complete entries come
  out whole and without waiting for the next.
* *findings*: tuning hides no critical finding; a section that is missing
  raises nothing; a measure that gets worse never makes its finding milder;
  the findings of one report do not contradict each other or the catalogue.
* *decisions*: a rule mutes what it names and nothing else; the exit code
  fails for what is new and above the bar and for nothing else; what is shown,
  counted and failed agree; a rule is called dead only when it is.
* *why*: a reported slowdown happened; a named cause was there by then; samples
  are neither lost nor counted twice; a diagnosis is not corroborated by the
  incident itself; a blocker is blamed on enough evidence.
* *correlation*: a verdict recorded by a person or an agent never raises a
  grade; evidence about an index that was rebuilt, or whose statistics were
  reset, is not passed off as current; dropping everything that is proven
  redundant leaves a cover for each dropped index.
* *MCP*: lines in order, at most one answer each, an end only for a cause; a
  clean end has answered everything; cancellation ends the server; nothing
  acts after the return.

## The modules

Each component has a module with its variables, one action per operation, its
specification and its properties, and an MC module that gives the constants of
the small instance. The operators introduced by a comment "A slip of X" are
deliberately wrong variants of X, no part of the specification: with X
replaced by its slip a run must fail, which shows that the property has teeth.

### BaselineStore

`snaps` is the `snapshots` table (id, fingerprint, `collected_at`), `nextId`
its AUTOINCREMENT sequence, `free` the file's free list, `other` the pages of
the tables retention leaves alone, `run` the place each handle has reached in
`Save`. Each SQL statement of `Save`, `prune` and `enforceSizeCap` is an action
(`Insert`, `DropOld`, `Thin`, `Measure`, `Vacuum`, `Remeasure`, `Count`,
`Evict`, `VacuumAfter`); between two of them any other handle may act, and
`Abort` ends the sequence when a statement fails or the process dies. Time is
counted in ticks and the file in pages, so `keepAllFor`, `keepRollupFor`, the
hour and the cap are constants.

### RunHistory

`withStore` of `cmd/pgbot/inspect.go` for one target: `ReadLast`,
`DeriveEvents`, `Compare`, `Save`, `SaveSchema`, `AppendEvents`, one action per
store call, each of which may fail in the way the code tolerates. What
BaselineStore's retention may do to one target's rows appears as `Forget`: any
row may be gone at any time. The same-hour-yesterday baseline is left out
because `Compute` ignores it.

The server's catalog, settings, `stats_reset` and start time change at any
moment, also while a run reads them, which it does piece by piece: the start
time with the probe of the connection (`Connect`), settings and schema in any
order in the first phase (`Sample`), `stats_reset` with health's sample after
the window (`ReadHealth`), and only then the clock that dates the run
(`DateRun`). Each but the first may fail; without health, or in the schema
profile, `stats_reset` is unknown, which the code takes for "never reset".

History, read by properties only: `changes`, the changes in the order made; a
snapshot's `seen` (how many were made when its run connected) and `schema`; an
event's `exact` (it was derived from what the very run read that opens its
window) and `early` (the changes made before that run was dated, but after it,
or the run that derives the event, had connected).

### SSHTunnel

`internal/conn/sshtunnel.go`: `mutex` is `tunnelMu`, `shared` is `tunnelConn`,
`status` what each TCP connection made so far is worth, `pc` the place of each
dialer in `sshDialFunc`, `tunnelClient`, `dialSSH` and `dropTunnelClient`.
`Callback` is the function given to `context.AfterFunc`, `Publish`,
`StopLate` and `Join` the two outcomes of stopping it. `Expire` and
`NetworkDrop` are the world's, `CloseSSHTunnel` the process's exit.

### LogTail

`Follow` with the SQL source and the stderr parser. The server writes whole
entries of three pieces (half of the first line, its rest, a continuation
line) and rotates to a new name, or truncates one in use. A poll is three
actions (`StatName`, `StatSize`, `Read`) because it is three queries; reads are
capped, so they cut lines and entries anywhere. `got` and the generations are
history; `slipped` records that a truncated file had grown past the reader's
offset before it looked, which no size comparison can see, and excuses the
properties from then on.

### FanOut

`runInspectAll`: `task[i]` is the place of target i's goroutine, `sem` the
semaphore channel, `contexts` the slice the goroutines fill. Collection and
the rules are one choice from `Reports`; a derived endpoint may lead to any
member. `Report` is everything after `wg.Wait()`, which is sequential: order,
`DuplicateFingerprint`, `Dedupe`, the exit code. A slice that Go filters is a
function on some of the indices here (`Got`, the findings `Dedupe` keeps):
entries keep their index, and so their order. `Tag` is the object
`mergeContexts` writes into the aggregate formats.

### CollectRun

`Run` of `internal/collect/runner.go`: `todo` and `running` are the phase's
errgroup, `pc` the place of Run itself, `sampler` and `polls` the goroutine of
`ash.go`, `hA` and `hB` health's two samples, `health` what its `Assemble`
makes of them. `stat` is `pg_stat_database` and `late` the commits of pgbot's
own that it does not show yet. Collectors are started in any order. What the
server does outside the window is left out, as nothing reads it. Of health's
counters only `xact_commit` is kept: it is the one pgbot itself moves.

### Report, TableRules, ServerRules, ReplicationRules, Findings

`Report` is the report as the rules read it: an absent section or pointer is
the empty set, a collected one a singleton; `Healthy` is a report with nothing
to say about it. Ratios are percents, memory kB, volumes MiB, ages seconds.
The three rule modules have one operator per rule of `internal/findings`,
which yields the set of findings it raises: objects and tables
(`TableRules`), the instance, its settings and its load (`ServerRules`),
replication, archiving and the xmin horizon (`ReplicationRules`). Thresholds,
severities, confidence, the order of tests and the guards on destructive
actions are the code's; of the text only which finding it refers to and which
destructive action it advises is kept. `Findings` is
`ComputeWithTunables`, the catalogue, and a run: each step is an inspection
that finds one section changed to a value next to a threshold (`Observed`) or
not collected. Its state and actions are named for themselves (`FindingsSpec`,
`RunFinds`), as one module proves about it and about `Decisions`.

### Suppressions, Views, Decisions

`Suppressions` is `.pgbot.toml` (`internal/config`): validation, remapping,
ignore rules on whole findings and on single rows, specificity, expiry, and
the misses counted in `suppression_stats`. `Views` is what the terminal, the
dashboard, SARIF, the digest and the exit code make of the result. `Decisions`
composes them: the database, the file, the date and the saved report change,
and `Run` is a whole invocation from the findings to the exit code and the
record it leaves. `uses` is history: the rules of each run with a store, also of
one whose file had none, and those that matched.

### McpSession, McpServer

`McpSession` is the abstract session: lines are taken in order, each gets an
answer of a kind it may get or none, the store changes only for the line at
hand, and the session ends only for a cause. `McpServer` is `serveMCP` around
`Server.Serve`: `pc` is the place in them, `fetched` and `taken` the
`bufio.Reader`, `buffer` the `bufio.Writer`, `callback` the
`context.AfterFunc` that closes the input, `stage` the place in a tool. The
client may leave the last line without its newline, stall, go away; connecting,
collecting and storing may each fail. A read ends by bytes, the end of the
input or its closing (`ReadEnds`); that it fails is possible and never due
(`ReadFaults`), so a read may block for ever. `RefinesSession` maps the line at
hand to a line not dealt with yet.

### IndexCorrelation

The catalog's indexes (by name, so a name can come back as another index), the
redundant, unused and invalid lists the collectors derive, `Build` with its
grades and guards, and the verdicts recorded through MCP. Indexes are built,
concurrently too, used, dropped and made again under their name; statistics are
reset; the server crashes. Any of the collected sections may be missing from a
report. Each incarnation of a name has an identity the properties know and
pgbot does not.

### WhyEngine, WaitStudy, WaitRollups, Why

`WhyEngine` has `internal/why` as functions of a series of snapshots:
`DetectShift`, the interval means and rates, a chain's symptom and its
mechanisms. What explains a mechanism in turn (growth, a dropped index) and the
confidence of a chain are left out, as no property is about them.
The code's list of points is a function from the positions of the snapshots
measured, which has no value where the code skips an interval. Fractions are
scaled integers. A query is in a snapshot when it is among the top ones, a table
when it is among the 30 largest. `WaitStudy` is the two sampling planes of
`RunWaitStudy`, the profile and blockers they give and what `waits` and
`why --duration` conclude, with the average of active sessions rounded to
hundredths before it is compared (`AAS`). `WaitRollups` is the `wait_rollups` table:
`SaveWaitProfile` with its folding of minutes into hours and its horizon, and
`ReadWaitShares`. `Why` composes them with a database under a changing load,
inspections that store its counters, and studies started from another terminal.

## The runs

| run | module and configuration | instance | shows |
|---|---|---|---|
| retention | MCBaselineStore | two handles, two targets, four snapshots, four ticks | the retention and size-cap properties under every interleaving of statements, deaths included |
| history | MCRunHistory | two runs at a time, three in all, one object, two ids, one tick, one server change, any reading failing | no delta across a reset the run knows of, events of changes that were made, fingerprints |
| tunnel | MCSSHTunnel | two dialers, three connections | no leak, no cut, every dial returns |
| tail | MCLogTail | two file names, reads of two pieces, three entries, two rotations | accounting, whole entries, prompt emission |
| fanout | MCFanOut | two members, two databases, four possible reports, `--parallel` unset or 2 | labels, exact deduplicated output, exit code, termination |
| collect | MCCollectRun | two gauges, a counter, two in flight, two polls, one application commit, one reset | containment of failures, honest rates, termination |
| rules | MCFindings | every rule; up to two sections away from healthy, each at values next to a threshold or missing; two sets of tunables | tuning, consistency, absence, monotony |
| decisions | MCDecisions | four rows, seven config files, two other databases, six invocations, two changes, three runs with a store | muting, exit code, views, unused rules |
| mcp | MCMcpServer | two of thirteen kinds of line, the three kinds of input | refinement of the abstract session, clean end, quiet return, cancellation |
| correlation | MCIndexCorrelation | two names, six shapes, three ticks, two builds, one verdict | honest corroboration, no authority of verdicts, "do not drop" where statistics cannot decide, a cover for every drop |
| invalid_cover | MCIndexCorrelation, MCInvalidCover.cfg | the same | expects a violation: a cover that serves nothing |
| why | MCWhy | one query, one table, two sessions, two holders, six loads, six ticks, five inspections or one and a study | real slowdowns, causes, conservation, baseline, blame |

Why these bounds are enough to make the interesting cases happen:

* *retention*: `KeepAll` = 1, `KeepRollup` = 3 and `Hour` = 2 ticks let a row
  age through all three regimes within four ticks and let two rows share a
  bucket; a cap of two rows makes four rows overflow it; `MaxOther` = 1 makes
  a file that is too big for other reasons. Two handles suffice for every
  statement of one to fall between any two of the other.
* *history*: one change is enough for a window to be wrong: it falls before,
  between and after the readings of a run, whether or not the clock moves
  meanwhile; `MinAge` of a tick makes the aged base
  differ from the previous run. Two ids let a run store its snapshot without
  its fingerprint while another reads, and a third run compares with both.
* *tunnel*: two dialers can disagree about which client is shared; the third
  connection is one that nobody refers to, so the model never runs out of
  connections where the code would open one.
* *tail*: entries of three pieces against reads of two meet every cut; two
  rotations allow a name to come back truncated.
* *fanout*: two by two targets give two databases per server and two servers;
  the reports contain a cluster-wide finding for one object and for two, and a
  per-database one that is muted or not. An unset `--parallel` means one worker.
* *collect*: two collectors in flight of three make the limit bind; two polls
  of which any may fail, one commit of an application and one reset put the
  subtraction into each of its cases.
* *rules*: no rule reads more than a few sections and a contradiction takes two
  findings, so `MaxUnusual` = 2 makes each pair of sections meet; the values
  lie on either side of every threshold compared. A step between two unusual
  values is taken where a measure is graded (`Graded`), since only there two
  such values are compared.
* *decisions*: `SuppressionUnusedAfter` is 2 where the code has 5, and three
  runs with a store let a rule miss, be deleted and put back, alone in its file
  or beside others; a row joins an aggregate,
  gets worse and is cut in part; rules expire, are garbled, duplicated,
  object-less, or globs.
* *mcp*: every kind of line is met, and two lines are enough for one to be in
  the buffer, at hand, answered or cut off while the other is in another of
  these places.
* *correlation*: time is counted in half rounding units of
  `stats_window_days`, so that rounding up and down both happen; two builds
  and two names give a duplicate, a longer index, and a name that comes back;
  the shapes are a narrow and a wide btree, a GIN index, a partial one, one on
  an expression and one of a constraint.
* *why*: `MinSnapshots`, the factors 1.5 and 3, `WaitMinSamples` and the
  shares are the code's. Five inspections allow a shift with two points on
  either side, and loads that leave the query or the table out of a snapshot
  make gaps in either series. A study of 15 seconds at 20 polls is three
  stretches in each of which the load stays the same (`Stretch`): a session in
  19, 99 or 100 of the 100 polls of a stretch puts a study on either side of
  `WaitMinSamples`, of half a session active and of 0.495, which the code
  rounds to a half. Three lock snapshots (`MaxSnaps`) reach `SustainedObs`;
  hours of two ticks and a
  horizon of four let an hour be folded, written to again and dropped.

`CHECK_DEADLOCK FALSE` stands where the system may stop: the bounded clocks
and ids of the stores and of the history, the commands that end (collection,
the MCP server), and decisions, whose bound on runs with a store can rule out
every invocation. The fan-out, the tunnel, the tail, the rules and the
correlation are checked for deadlock.

The type invariants are kept where a proof needs them and run nowhere.

### Where the code leaves a sentence of its own

One run expects a violation and `findings` quotes the sentence. The others
below were met while modelling; the properties say, as an exception with its
comment, what does hold.

* A stale count of another handle lets the size cap evict the newest row
  (`retention.go:79`); `SoleEvictionKeepsNewest` assumes that no other handle
  evicted in between.
* A run that stored its snapshot but not its fingerprint dates the next run's
  schema events outside their window (`inspect.go:219` and
  `context.go:81-84`), and a gap is reported without deltas and without a
  reason (`inspect.go:230`, `context.go:63-64`); `ExactEventsHappened` is
  about events whose inputs come from one snapshot.
* A run reads settings and schema in its first phase (`runner.go:82-103`) and is
  dated after the sample window (`runner.go:129-130`). A change made between
  the two is an event of the next run's window, in which it did not happen,
  where `derive.go:14-15` says that it did; and of two runs that overlap the
  one dated later may have read first. `ExactEventsHappened` allows a change
  before the window if it was made after one of the two runs had connected
  (`early`), and none after it.
* A failed health section, and the schema profile, leave `stats_reset` unknown
  (`health.go:60-63`, `runner.go:136-138`), and `resetMoved` takes that for "no
  reset" (`reset.go:36-39`): deltas are then computed across `pg_stat_reset`,
  where `inspect.go:222-223` promises to suppress them. Nor does any check know
  of a reset made while the base itself was being collected but after its
  counters were read, when the base shows the reset already.
  `NoDeltaAcrossReset` is about restarts, and about resets when the run knows
  `stats_reset` (`Breaks`), made between the date of the base and the run's
  connection.
* The unread rest of a log file is lost on rotation (`tail.go:110`, where
  86-88 promises a clean switch); `ConsumedIsAccounted` speaks of one file.
* Deduplication drops the report of a second object of the same cluster-wide
  finding (`alldbs.go:294` and 280-285), and members of one cluster share a
  fingerprint (`alldbs.go:247` and 99-103); `OutputIsExact` counts per finding
  ID.
* `docs/configuration.md:88-91` says that an ignored critical finding stays
  visible; one remapped to a lower severity first (`apply.go:29-32`) does not
  (`dashboard.go:77`, `terminal.go:177`).
* `docs/configuration.md:127-128` says the notes on the rules never block;
  under `--fail-on=info` they set the exit code. `ExitIsExact` allows it.
* `CHANGELOG.md:549-552` promises a guard on every destructive action;
  `vacuum_horizon_blocked` (dropping a slot) and `collation_version_mismatch`
  have none (`Unguarded`).
* A rule without object beats "the most specific rule wins"
  (`docs/configuration.md:75`) when it comes last; a rule a file lists twice
  counts its misses twice per run and is called unused too soon
  (`suppressions.go:40-62`), so `UnusedIsDead` speaks of rules that no run with
  a store lists twice; an expired rule counts as active; the rows a rule cut out
  of a saved report look new to `--fail-on-new` once it expires; the severity
  of an aggregate stays that of its worst row when that row is cut.
* `suppressions.go:14-15` says that rules no longer in the file are pruned, so
  that one put back starts afresh. A file without any rule does not get there
  (`pgconfig.go:36`, `len(fileRules) > 0`): the only rule, deleted and put back,
  keeps the misses it had. `UnusedIsDead` speaks of all runs with a store and
  names the exception: a run whose file has no rules neither counts as a miss
  nor ends the row of misses.
* `pgaudit_silent` fires when the settings could not be collected.
* A known method without an id is answered with id null, where the comment at
  `internal/mcp/mcp.go:69` speaks of notifications without answers.
  `inspect` over MCP stores its run before the findings are computed. Rows
  whose scan fails are skipped (`mcp_tools.go:220`).
* A flush to a client that does not read outlasts a cancellation; so
  `CancelReturns` rests on the client reading again. It is about inputs that
  can be closed: on Windows `prepareMCPInput` leaves standard input as it is
  (`mcp_input_windows.go`), and whether closing it ends a read that blocks is
  the operating system's affair.
* A verdict is kept by the index's name, so one that comes back as another
  index inherits it; a health section that could not be collected hides the
  reset that made a verdict stale; `CorroborationIsHonest` excuses both. The
  redundancy query compares operator classes and no collations.
* In the chains, a dropped index has no lower time bound and growth is that of
  the whole window (`analyze.go:125-128`), and a later table resets the
  confidence an earlier one earned (`analyze.go:161`); none of this is
  modelled. A table that leaves the 30 largest (`tables.sql:36-37`) has no
  point for an interval at one of whose ends it is missing
  (`analyze.go:276-279`), so a surge may have paused there and still be called
  sustained; `CauseHoldsAtOnset` speaks of the other intervals. A diagnosis
  compares the load rounded to two decimals (`waitstudy.go:102`, `live.go:75`),
  so 0.495 sessions pass for a half, and `BlameIsEarned` says so. The analysis never asks
  whether statistics were reset between two snapshots: counters that regrew
  past the earlier sample go unnoticed, which `SlowdownIsReal` excuses
  (`masked`). `waits --pid` folds a profile of one backend into the server's
  history (`waits.go:123-131`).

### Fairness

* *SSHTunnel*: the network may leave a dial or handshake without answer for
  ever. Assumed are that a request's context ends (`--timeout`, the pool's
  connect timeout), that a callback started runs, that calls which cannot
  block return, and strong fairness of taking the mutex, which Go's
  starvation mode of `sync.Mutex` gives.
* *LogTail*: the ticker keeps ticking (weak) and queries do not fail for ever
  (strong, because a failing poll returns to the ticker).
* *FanOut*: each inspection returns, for its connections have timeouts and its
  collection the deadline that CollectRun's `RunReturns` is about.
* *CollectRun*: no query need ever be answered. The context's deadline passes,
  a query whose context is done returns an error (pgx closes the connection),
  a poll returns within its budget of its own, goroutines that can run do.
* *McpServer*: the server's own steps end (weak; each tool has a deadline), but
  a read only for bytes, the end of the input or its closing, which ends a read
  that blocks (the wakeup descriptor of `mcp_input_unix.go`, for other inputs the
  `io.Closer`'s own promise): a fault is not among the fair steps; the
  runtime starts a callback that is due (weak), a client that stalls reads
  again some time (weak), and a flush that finds it reading again and again is
  done (strong). A client need never send, and may go away.
* The other modules claim no liveness: their programs may die, and their
  steps are chosen from outside.

## The refinement

`McpServer` implements `McpSession` (`RefinesSession`): `seen` is the line
before the one at hand, `answers` what the client received whole, `cause` that
the client hung up or stopped reading, the user cancelled, or the input
failed, and `over` that Serve has returned. Reading ahead, the stages of a
tool, the buffer and the callback are stuttering; taking a blank line, a
flush, and an end are its steps. TLC checks it over the instance above, the
prover for all clients, inputs and protocols.

## The proofs

All proofs hold for every value of the constants that satisfies the module's
named assumption, if it has one: any number of handles, targets, dialers,
connections, any set of lines and protocols, any indexes and clock. Two modules
prove about two components each, the tunnel and the log follower that reads
through it, and the two samplers; the names of LogTail and Why carry the prefix
Tail and Why where both would have the same.

**BaselineStore_proofs.** `Inductive` proves `Spec => []IInv` for
`IInv == TypeOK /\ IdsIdentify /\ Progress`. `TypeOK` alone is not inductive:
`Evict` divides by the size it read and clamps to the row count it read, so
`Progress` records, for each place in `Save`, that the size is positive and
the count at least two, and that no row or cutoff is ahead of the clock; an
insert keeps ids apart only if the sequence is ahead of all of them
(`IdsIdentify`). From it follow `TypeCorrect`; `RetentionHolds`, where the hour of a deleted row
has a row of greatest id (`Greatest`), which `HourIsKept` shows to be kept;
`SoleEvictionSpares`, where the number evicted is at most rows - 1
(`EvictCountBound`) and the oldest k rows of more than k omit one of the
latest (`OldestSparesNewest`); and `OneSizedPass`, which is arithmetic: the
rounded-up share covers the excess (`CeilDiv`, `ShareCovers`,
`EvictCountSuffices`).

**TunnelAndTail_proofs.** For the tunnel, `IInv == TypeOK /\ MutexOK /\ MineOK /\ DetachOK /\
LiveOK`: a dialer in its critical section holds the mutex and vice versa; an
open connection belongs to the dialer that is making it or is shared; the
shared one has neither deadline nor armed callback; and a dialer about to drop
the shared client has seen it die. One lemma per conjunct shows that every
action keeps it. `TypeCorrect`, `SharedDetached` and `NothingLeaks` are parts
or consequences; `LiveTunnelIsSafe` is an action property: only
`CloseSSHTunnel` closes a shared client whose transport is up.

For the follower, `TailInv == TailTypes /\ Generations /\ Accounting`. The log is
whole entries of three pieces, so what is at a position says what may be pending
and carried there (`Holds`), and `Accounting` says of every place of the follower
that it holds this for the file it reads, and that what was emitted, is pending
and carried is that file up to the offset. `Generations` says that no two
files are of one generation, the first aside, so that a file of the offset's
generation is the one the offset is about.
`Parse` folds over a chunk; `ParsePieces` unrolls the fold, which the naturals'
being well ordered allows without an induction schema, and shows that each piece
carries what is held one position on. `BytesAccounted` is then the part of
`Accounting` between polls, and `OnlyWholeEntries` reads off the same steps that
an entry is closed where the next one begins.

**McpServer_proofs.** `CallbackJoined` is inductive by itself: past stopClose
the callback is neither armed nor running. `ServerReturnedIsQuiet` follows,
because every step of the server starts somewhere else and those of the client
leave its result alone. `ServerRefinesSession` needs `LoopInv`: what was taken
was fetched and what was fetched was sent (`Count`), the line at hand is the
last one taken (`AtHand`), what is in the buffer is one of the answers its line
may get, or nothing when it may get none (`Written`), and an error or a closed
input has a cause the abstract session knows (`Errors`, `Reasons`). One lemma
per group of actions shows that they keep it (`LoopInvNext`), and one that
they map to an abstract step or a stutter (`OutsideMaps`, `ReadsMap`,
`HandlingMaps`, `EndsMap`). `CleanEndAnswersAll` needs more
(`Settled`): without an error the answers received are those owed for the lines
dealt with so far, the end of the input is seen only when every line was taken,
and a loop left without an error has seen that end.

**IndexCorrelation_proofs.** `VerdictsChangeNoGrade` follows from `Build`
alone: `BuildGrades` says which grade each reported index has, without
mentioning verdicts; an index statistics cannot decide gets "inconclusive", with
its guard and note, unless the catalog proves it, and a verdict notes nothing on
it. `CorroborationHolds` needs an invariant that dates scans:
an index scanned after the verdict on its name, and not made again, still
counts as scanned or its statistics were lost after the scan (`ScansKnown`),
and no date is ahead of the clock (`Clock`, `Dated`). A fresh verdict is not
older than the window, and the rounding of the window adds at most half a unit
(`FreshIsAfterLoss`), which is the precision the property grants.
`DropsAreCovered`: with all indexes valid,
what is called proven is what the redundancy query reports
(`ProvenIsRedundant`). Of the indexes that start with a redundant one's columns
those with most columns are considered, and of these the oldest; whatever
covered it would be longer or older still, so it is not redundant itself and
stays (`TopIsKept`). `Bounded` says that the columns' number is bounded, so that
a longest exists.

**FanOut_proofs.** `LabelsAreRight` rests on two facts about a goroutine: past
the verification of its identity its connection is to the member its target
names (`Verified`), and a context filed under a member was read through such a
connection (`Labelled`); `Aligned` says that the arrays of the run have one
entry per target. A step of one goroutine touches its own entries only
(`IInvStep`). `CoverageIsWhole` adds that a target that
ended without a context was counted (`Counted`) and that the codes of the
findings stay below that of a failure; `NoTokenLost`, that the semaphore holds
as many tokens as goroutines are at work, the safety that the run's `RunEnds`
rests on. `OutputFollowsThePlan` needs the plan to be sound
(`ComposedIsSound`: targets of a server follow one another and no two are the
same, which is arithmetic on rows and columns), a context to be filed as its
target (`Filled`) and the output to be the deduplicated contexts (`Rendered`);
the first finding of an ID on a server, which stays, exists because the
naturals are well ordered (`FirstStays`), and no other does (`OneStays`).
The assumption says that members and databases are lists without repetition, as
`aurora_replica_status()` and `pg_database` give them.

**Sampling_proofs.** For a collection, `CollectionIsContained`: a polling sampler means the
window, collectors in flight mean one of the phases (`Joined`), and an error
seen while the context lives belongs to a collector whose own query failed
(`Blame`). `RateHolds` needs a ledger: as long as the statistics are not reset,
what the view shows and still owes (`stat.commits + late`) exceeds what it
showed and owed at sample A, plus sample A's own commit and the applications'
commits, by the polls that succeeded, and by at most the failed ones more
(`Ledger`, `Adds`). `OwnCommitAdds` and one step per action keep it;
`AssembledIsHonest` reads the rate off it.

For Why, `WhyInv == WhyTypes /\ InTime /\ RollupsAre /\ BaselinePredatesStudy`.
Conservation is not inductive, as it does not say which row has which sample.
`RollupsAre` does, for every possible key (`Due`): a minute has what was saved
in it until it is older than `KeepMinutes` at the latest save, an hour the sum of
its minutes that are, until it is beyond `KeepHours`. `FoldHolds` shows that a
save keeps this: of the minutes aged by now those aged before are already in
their hour, and the rest is what the fold adds. `HoursConserved` adds up the
rows of an hour; `NotCorroboratedByItself` those of a baseline, whose minutes
and whose hours' minutes are apart and all earlier than the study
(`BaselineIsOld`), and notes that later saves only add (`SumLess`). All of this
needs sums over finite sets, which the library defines by recursion over the
set with CHOOSE. `SumExists` shows that the recursion has a solution and
`SumRemoves` that the order does not matter, both from a smallest set that
fails, of which there is none (`SmallestMissing`). `BlameEarned` needs no
history: a class sampled most and a blocker seen most exist (`TopClassIs`,
`ForemostIs`), each way to the conclusion passes the gates, and an average that
rounds to a half is 0.495 or more (`HalfActive`).

`CausesPrecede` and `SlowdownsHappened` speak of what the snapshots tell, and
rest on `HistoryInv == HistoryTypes /\ Dates /\ Neighbours /\ LatestShows`:
snapshots are stored in order, a tick without one is idle (`Dates`), and of two
neighbours the counters differ by the load of the later one's tick, or a reset
lies between them that they show unless `masked` (`Neighbours`); the last one
shows the counters as they are (`LatestShows`). The window keeps the latest of
them, hence neighbours (`RecentIs`). A shift that is reported is one at an onset
of the series, as a steepest exists (`SteepestIs`, `DetectShiftIs`), so
each point since is past the midpoint. `CausesPrecede` reads off that where
the table was collected at both ends the rate is above the one before the
surge, and that the ticks between two snapshots add
nothing (`ScansAre`). For `SlowdownsHappened` the points are shown to be the
ticks whose work is shown whole, one each (`PointsAre`, `ShownAre`,
`EarlierAre`), and a rise of half on a rounded mean to be one of a quarter on
the mean itself (`QuarterUp`). That needs at most `ExactWork` = 720 points, a
bound of the model alone: the code has floating point, and with a mean scaled by
60 twice the rounding stays below the margin for so many; the runs have five.

Assumed is that an hour and the minutes kept fit in the hours kept (`waits.go:14-15`: 7 and 90
days), and that the baseline (`why.go:231`: 25 hours to 15 minutes ago) does not
reach back beyond the minutes kept.

**RunHistory_proofs.** `IInv == Types /\ Witnessed /\ Filed /\ Progress`. The
property speaks of one run's inputs, but is inductive only over all that was
ever observed. A view is what is known of the server in the store, in the hands
of a run, finished or not, or what is to be had now; it knows how many changes
had been made when its run connected and when it was dated. It tells of no
reset or restart that was not made and, if it knows `stats_reset` at all, of
none older than those it had seen (`Honest`), and of two views that differ in a
piece both have read there is a change that one of them had not seen and that
was made before the later one ended (`Explained`). `Witnessed` says this of all
views; a reading adds to a view a piece of the server as it is, which agrees
with the others (`ReadingFits`). Ids come from the sequence, and
a fingerprint, or a run about to store one, has the schema of the snapshot of
its id (`Filed`); what a run has derived and chosen so far is sound, and stays
so when others act (`Progress`). `EventsHappened` and `DeltasAreUnbroken` are
parts of it; `FingerprintsKeepTheirRun` is `Filed` and an action property: a
fingerprint goes only when one of a greater id comes. Assumed is that no object
is called like pgbot's own topics and that None and Absent are neither a
definition nor a schema.

**Decisions_proofs**, from a report to what is decided on it.

*The rules.* `FindingsInv` says that the report is one a run may find, section by
section (`Observable`), and that the findings are those its rules compute of it.
By itself a report is any record: with two rows for one table, or a maximum of
connections that is no number, findings may contradict one another, so the
values of every section are needed; from them follows what the rules count on
(`WellFormed`: one value or none, numbers, a table listed once, nothing evicted
without the extension). `MaxUnusual` plays no part: the theorems
hold of reports in which every section is out of the ordinary at once, TLC's
runs of those with two.

The four properties rest on one description per rule, never on its text.
What it emits is described by `Emitted`: id, severity, dimension, class of object,
the references it owes and that the destructive actions it advises are guarded;
the constructors of findings are described once, field by field (`FindingMade`).
`EveryFindingSound` and `EveryFindingHasOrigin` collect them for the union of
all rules, and `ReportsAreConsistent` reads the catalogue, the guards and the
references off them; that a reference resolves is the one place where two rules
must be looked at together (`ReferredIsFound`), as is each pair that must not
contradict (`NothingContradicts`). `TuningSparesCriticals` holds of any two
configurations and any report at all: only three rules read a threshold of the
configuration, two of them never emit a critical finding, and the third keeps
every lag past the critical one. For `WorseMeasuresAreNeverQuieter` a rule of one
finding is given by when it holds and at which severity (`Grades`); both grow
with the measure (`LimitsGrow` and its likes), and no other rule emits the id
(`RuleGrows`). For `AbsentSectionsAreQuiet` every rule is shown to emit no new id
when sections are gone (`Lost`), or one of `ReadAbsence`; the rules that join
several sections one by one (`AutovacuumFades`, `ArchivingFades` and their
likes).

*The decisions.* `IInv == TypeInv /\ BaseKept /\ Counting /\ LastUse`: the
base is a report of the rows it was made from (`BaseKept`), and the misses in
the store are what the runs with a store whose file had rules add up to, from
the last of them that matched the rule or did not list it (`Counting`); a run
whose file has none leaves them as they are (`CountingIsKeptWithoutRules`).
The four theorems rest on lemmas about
one invocation: `ComputedFindings` says what the rules of the code see in the
rows, `ApplyIgnoreDecides` and `CoveringIsMatching` which rows a file mutes and
that specificity does not change that, `ReportTells` and `JudgedFindings` what
becomes of each finding, `BaseRankOfRow` at which rank a row counts as known.
`MutingFollowsTheRules`, `ExitFollowsTheRows`, `ViewsTellTheSame` and
`UnusedRulesAreDead` read the properties off them. Assumed is that rows are
pairs of a finding and an object, finitely many and none of them a note on the
rules, that severities are pgbot's, and that ignore lists, validated or inline,
are lists with expiries that are days: the prover knows nothing of `SelectSeq`,
by which the validated list is made.

Every safety invariant and action property a passing run checks is proved. Only
model-checked are the liveness properties (`DialReturns`, `PendingIsEmitted`,
`RunEnds`, `RunReturns`, `CancelReturns`), as the prover handles neither
fairness nor ENABLED. Induction over data has no schema here, but where a sum or
a fold has a smallest counterexample it is in reach, as for `Parse` and the sums
of the wait rows. `Dedupe` is no fold but a set of positions.

## Not modelled

The SQL of most collectors, redaction, the detection of provider, pooler and
capabilities, ssh_config parsing, csvlog and jsonlog, the thresholds of single
deltas, the advisor, plans, ERD, AI, layout, the command line, packaging, the
store's migrations, `.pgbot.toml` scaffolding. Reasons are in `components` of
`PROJECT.json`; in short they are one-shot queries, string work or layout, and
where they are not they are in the plan. Of what is modelled, wording, impact
scores, JSON, the lookup of a query's tables in its text, and the antecedents and
confidence of causal chains are left out.

## Plan

1. The double-sampled counters (queries, WAL, I/O, archiver) and their
   detection of resets, composed with CollectRun.
2. SelfExclusion: the set of pgbot's own PIDs against connection churn and PID
   reuse, composed with CollectRun's sampler.
3. The migration of the fingerprint scheme by concurrent handles, and List on
   a single connection.
4. An abstract store (a map from target to snapshots with atomic Save) that
   BaselineStore is shown to implement up to retention, and RunHistory over it
   in place of `Forget`.
5. The csvlog and jsonlog parsers in LogTail; the advisor and plans.
