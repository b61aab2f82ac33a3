------------------------------- MODULE Decisions -------------------------------
(***************************************************************************)
(* From the rows a run finds to the decisions made on them: computeFindings *)
(* of cmd/pgbot (thresholds aside), --fail-on-new, the exit code and the    *)
(* views, over runs in which the database, the file and the day change.     *)
(***************************************************************************)
EXTENDS Suppressions, Views

CONSTANTS Levels,         \* row <<id, object>> -> the severities it may have
          Aggregates,     \* ids whose rows share one finding
          SchemaScoped,   \* ids derivable from the catalog alone
          Files,          \* the contents of .pgbot.toml
          Databases,      \* the rows there are at first
          Invocations,    \* the flags of a run
          MaxChanges,     \* bound: changes of the database, the file or the day
          MaxUses         \* bound: runs with a store

Hygiene == {"suppression_expired", "suppression_unused"}

(* Finitely many rows, none of them a note on the rules.  That a filtered   *)
(* list is a list is said here because the prover knows nothing of          *)
(* SelectSeq.                                                               *)
ASSUME DecisionsAssumption ==
    /\ Aggregates \union SchemaScoped \subseteq KnownIDs
    /\ MaxChanges \in Nat /\ MaxUses \in Nat
    /\ IsFiniteSet(DOMAIN Levels)
    /\ \A r \in DOMAIN Levels :
          r = <<r[1], r[2]>> /\ r[1] \notin Hygiene /\ Levels[r] \subseteq Severities
    /\ Databases \subseteq [DOMAIN Levels -> Severities \union {"none"}]
    /\ \A f \in Files : LET rules == Validated(f).ignore
                        IN  /\ rules \in Seq(Range(rules))
                            /\ \A i \in DOMAIN rules : rules[i].expires \subseteq Int
    /\ \A call \in Invocations : call.inline \in Seq(Range(call.inline)) /\ call.against \in BOOLEAN

VARIABLES db,             \* row -> its severity, "none" when it is not there
          file, today,
          misses,         \* suppression_rules of the store
          base,           \* a saved report, or none
          out,            \* the run since the last change, or none
          uses,           \* history: the rules of each run with a store, and those that matched
          changes
vars == <<db, file, today, misses, base, out, uses, changes>>

Rows == DOMAIN Levels
-----------------------------------------------------------------------------
(* The findings of a run: one per aggregate, with the severity of its worst *)
(* row, and one per row of the others.  --profile=schema skips the          *)
(* collectors of the rest.                                                  *)
Present(rows, profile) ==
    {r \in Rows : rows[r] # "none" /\ (profile = "schema" => r[1] \in SchemaScoped)}
NewFinding(id, object, objects, severity) ==
    [id |-> id, object |-> object, objects |-> objects, severity |-> severity, cut |-> {},
     remapped |-> "", suppressed |-> FALSE, rule |-> <<>>, preexisting |-> FALSE]
Worst(rows, id, present) ==
    IF \E r \in present : r[1] = id /\ rows[r] = "critical" THEN "critical" ELSE "warn"
Compute(rows, profile) ==
    LET present == Present(rows, profile)
    IN  {NewFinding(id, NoObject, {r[2] : r \in {r \in present : r[1] = id}}, Worst(rows, id, present))
           : id \in {r[1] : r \in present} \cap Aggregates}
        \union {NewFinding(r[1], r[2], {}, rows[r]) : r \in {r \in present : r[1] \notin Aggregates}}

ExpiredFindings(rules, day) ==
    {[NewFinding("suppression_expired", NoObject, {}, "info") EXCEPT !.rule = RuleString(rules[i])]
       : i \in {i \in DOMAIN rules : Expired(rules[i], day)}}
UnusedFindings(unused) ==
    {NewFinding("suppression_unused", NoObject, {}, "info") : x \in {x \in {1} : unused # {}}}
-----------------------------------------------------------------------------
(* --fail-on-new.  The identity of a finding is (id, object), per row for   *)
(* an aggregate; it is preexisting when the base has every one of them at   *)
(* the same severity or a higher one.                                       *)
ExpandKeys(f) == IF f.objects # {} THEN {f.id} \X f.objects ELSE {<<f.id, f.object>>}
BaseRank(bs, k) ==
    Max({0} \union {SeverityRank(f.severity) : f \in {f \in bs : k \in ExpandKeys(f)}})
(* A slip of MarkPreexisting: one old row makes the finding old.            *)
MarkPreexistingAny(fs, bs) ==
    {[f EXCEPT !.preexisting = \E k \in ExpandKeys(f) :
        BaseRank(bs, k) > 0 /\ SeverityRank(f.severity) <= BaseRank(bs, k)] : f \in fs}

MarkPreexisting(fs, bs) ==
    {[f EXCEPT !.preexisting = \A k \in ExpandKeys(f) :
        BaseRank(bs, k) > 0 /\ SeverityRank(f.severity) <= BaseRank(bs, k)] : f \in fs}

(* validateBase: reports of two profiles are not compared.                  *)
Comparable(b, profile) == b.profile = profile
-----------------------------------------------------------------------------
None == [findings |-> {}, profile |-> "none"]
Init ==
    /\ db \in Databases /\ file \in Files
    /\ today = 0 /\ misses = <<>> /\ base = None /\ out = None /\ uses = <<>> /\ changes = 0

Changed == changes < MaxChanges /\ changes' = changes + 1 /\ out' = None
DatabaseChanges ==
    /\ Changed
    /\ \E r \in Rows : \E level \in Levels[r] \union {"none"} :
          level # db[r] /\ db' = [db EXCEPT ![r] = level]
    /\ UNCHANGED <<file, today, misses, base, uses>>
EditConfig ==
    /\ Changed
    /\ \E other \in Files : other # file /\ file' = other
    /\ UNCHANGED <<db, today, misses, base, uses>>
NextDay ==
    /\ Changed /\ today' = today + 1
    /\ UNCHANGED <<db, file, misses, base, uses>>

(* The report, before --fail-on-new: the severities and the rules applied,  *)
(* then the notes on the rules themselves, then the filter of the profile.  *)
Report(cfg, profile, unused) ==
    LET all == Apply(cfg, Compute(db, profile), today)
                 \union ExpiredFindings(cfg.ignore, today) \union UnusedFindings(unused)
    IN  IF profile = "schema" THEN {f \in all : f.id \in SchemaScoped} ELSE all

(* Only the rules of the file are tracked, the flags come and go; a run     *)
(* without a store, or whose file has no rules, leaves the store alone.  A  *)
(* base that cannot be compared ends the run after that.                    *)
Run(profile, inline, store, against, save) ==
    /\ against => base # None /\ ~save
    /\ \E loaded \in Load(file, "") :
        LET cfg == AddInlineIgnores(loaded, inline)
            active == [i \in DOMAIN loaded.ignore |-> RuleString(loaded.ignore[i])]
            matched == Matched(cfg, Compute(db, profile), today)
            records == store /\ active # <<>>
            unused == IF records THEN Unused(misses', active, matched) ELSE {}
            report == Report(cfg, profile, unused)
            refused == against /\ ~Comparable(base, profile)
        IN  /\ store => Len(uses) < MaxUses
            /\ misses' = IF records THEN RecordUsage(misses, active, matched) ELSE misses
            /\ uses' = IF store
                 THEN Append(uses, [active |-> active, matched |-> matched]) ELSE uses
            /\ out' = [profile |-> IF refused THEN "none" ELSE profile,
                       findings |-> IF refused THEN {}
                                    ELSE IF against THEN MarkPreexisting(report, base.findings)
                                    ELSE report,
                       rules |-> cfg.ignore, severity |-> cfg.severity, unused |-> unused,
                       store |-> store, against |-> against]
            /\ base' = IF save THEN [profile |-> profile, findings |-> report, rows |-> db,
                                     severity |-> cfg.severity]
                       ELSE base
    /\ UNCHANGED <<db, file, today, changes>>
RunFails(explicit) ==
    /\ Load(file, explicit) = {} /\ out' = None
    /\ UNCHANGED <<db, file, today, misses, base, uses, changes>>

Next ==
    \/ DatabaseChanges \/ EditConfig \/ NextDay
    \/ \E call \in Invocations : Run(call.profile, call.inline, call.store, call.against, call.save)
    \/ \E explicit \in {"", "unreadable"} : RunFails(explicit)

Spec == Init /\ [][Next]_vars
-----------------------------------------------------------------------------
Ran == out.profile # "none"
(* What a reader of the file expects of a row, said without the matching.   *)
Covers(rule, r) ==
    /\ rule.finding = r[1] /\ \A day \in rule.expires : today <= day
    /\ \/ rule.object \in {NoObject, r[2]}
       \/ rule.object \in DOMAIN GlobMatches /\ r[2] \in GlobMatches[rule.object]
Muted(r) == \E i \in DOMAIN out.rules : Covers(out.rules[i], r)
Effective(rows, severity, r) ==
    IF r[1] \in DOMAIN severity THEN severity[r[1]]
    ELSE IF r[1] \in Aggregates THEN Worst(rows, r[1], {q \in Rows : rows[q] # "none"}) ELSE rows[r]
LevelNow(r) == SeverityRank(Effective(db, out.severity, r))
LevelInBase(r) ==
    IF base.rows[r] = "none" THEN 0
    ELSE SeverityRank(Effective(base.rows, base.severity, r))
Shown == {r \in Rows : \E f \in out.findings : ~f.suppressed /\ r \in ExpandKeys(f)}
FailOns == {"none", "info", "warn", "critical"}

(* A rule mutes the rows it covers through its last day and no other row:   *)
(* muting one sequence does not swallow the next one (suppressRows).        *)
MutingIsExact == Ran => Shown = {r \in Present(db, out.profile) : ~Muted(r)}

(* Under --fail-on-new a row the base's database did not have, or an        *)
(* aggregate that got worse, fails the run unless a rule mutes it.          *)
NewRowFails ==
    Ran /\ out.against =>
        \A r \in Present(db, out.profile), failOn \in FailOns \ {"none"} :
            /\ ~Muted(r) /\ LevelNow(r) >= SeverityRank(failOn) /\ LevelInBase(r) < LevelNow(r)
            => ExitCode(out.findings, failOn) # "clean"

(* Nothing else fails it: a run that does not exit clean has a row that no  *)
(* rule mutes and, against a base, that is new, worse, or was cut out of    *)
(* the base by a rule; or it is a note on the rules and --fail-on=info.     *)
ExitIsJustified ==
    Ran => \A failOn \in FailOns \ {"none"} :
        ExitCode(out.findings, failOn) # "clean" =>
            \/ \E r \in Present(db, out.profile) :
                  /\ ~Muted(r) /\ LevelNow(r) >= SeverityRank(failOn)
                  /\ out.against =>
                        \/ LevelInBase(r) < LevelNow(r)
                        \/ \E f \in base.findings : f.id = r[1] /\ r[2] \in f.cut
            \/ failOn = "info" /\ Hygiene \cap {f.id : f \in out.findings} # {}

(* The exit code fails the pipeline for what is new, and for nothing else   *)
(* (MarkPreexisting, ExitCode).                                             *)
ExitIsExact == NewRowFails /\ ExitIsJustified

(* The views agree with the exit code: the test pane, the counts an alert   *)
(* is raised on and the annotations tell of a failure exactly when the run  *)
(* fails, and both terminal views list what made it fail.                   *)
ViewsAgree ==
    \A failOn \in FailOns :
        LET failing == Counted(out.findings, failOn)
        IN  /\ JUnitFailures(out.findings, failOn) = failing
            /\ JUnitSkipped(out.findings) \cap failing = {}
            /\ failing \subseteq DashboardListed(out.findings)
                            \cap TerminalHeadline(out.findings) \cap SARIFResults(out.findings)
            /\ failOn # "none" => (failing # {} <=>
                  \E sev \in Severities : /\ SeverityRank(sev) >= SeverityRank(failOn)
                                          /\ PrometheusTotal(out.findings, sev) > 0)

(* After a run with a store, a rule is called unused exactly when there are *)
(* SuppressionUnusedAfter runs with a store, the last one among them, that  *)
(* had it in their file and did not see it match, and no run since the      *)
(* first of them saw it match or had only other rules in its file.  A run   *)
(* whose file had no rules at all is the exception: it does not count, but  *)
(* it does not end the row of misses either, because computeFindings then   *)
(* skips the store, so that a rule deleted and put back starts afresh only  *)
(* when a run saw the file with other rules meanwhile.  (A rule written     *)
(* twice counts twice per run and is called unused sooner.)                 *)
MissedIn(use, r) == r \in Range(use.active) \ use.matched
ListedOnce(r) == \A i \in DOMAIN uses : Listed(uses[i].active, r) <= 1
HasRules(use) == use.active # <<>>
RunsSince(k) == {i \in k .. Len(uses) : HasRules(uses[i])}
UnusedIsDead ==
    Ran /\ out.store =>
        LET active == Range(uses[Len(uses)].active)
        IN  /\ out.unused \subseteq active
            /\ \A r \in active : ListedOnce(r) =>
                  (r \in out.unused <=>
                      \E k \in DOMAIN uses :
                          /\ Cardinality(RunsSince(k)) >= SuppressionUnusedAfter
                          /\ \A i \in RunsSince(k) : MissedIn(uses[i], r))

=============================================================================
