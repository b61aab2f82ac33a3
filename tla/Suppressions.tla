----------------------------- MODULE Suppressions -----------------------------
(***************************************************************************)
(* .pgbot.toml: loading it, applying its severities and [[ignore]] rules to *)
(* the findings, and the bookkeeping that finds rules gone dead.            *)
(* A rule is [finding, object, expires]: without an object it stands for    *)
(* every one, expires is empty or a day.                                    *)
(***************************************************************************)
EXTENDS Integers, FiniteSets, Sequences, Functions, FiniteSetsExt

CONSTANTS KnownIDs,                 \* the findings this pgbot can emit
          GlobMatches,              \* pattern -> the objects it matches
          BadGlobs,                 \* patterns path.Match rejects
          SuppressionUnusedAfter    \* runs without a match before a rule is dead

ASSUME SuppressionsAssumption == SuppressionUnusedAfter \in Nat \ {0}

NoObject == ""
RuleString(r) == <<r.finding, r.object>>
Garbled == -1                       \* an expires that is not a date
Severities == {"critical", "warn", "info"}
-----------------------------------------------------------------------------
(* Load: the file as it is validated.  Rules without a finding and with a   *)
(* bad glob are dropped, an unknown id is kept, a garbled expiry is none.   *)
Usable(r) == r.finding # "" /\ r.object \notin BadGlobs
Validated(file) ==
    [severity |-> Restrict(file.severity, {id \in DOMAIN file.severity :
                      id \in KnownIDs /\ file.severity[id] \in Severities}),
     ignore |-> LET kept == SelectSeq(file.ignore, Usable)
                IN  [i \in DOMAIN kept |-> [kept[i] EXCEPT !.expires = @ \ {Garbled}]]]

(* An explicit path that cannot be read, or a credential-shaped key, is an  *)
(* error: no other file is tried.                                           *)
Load(file, explicit) ==
    IF explicit = "unreadable" \/ file.credential THEN {} ELSE {Validated(file)}

(* --ignore finding[:object]                                                *)
AddInlineIgnores(cfg, specs) ==
    [cfg EXCEPT !.ignore = @ \o [i \in DOMAIN specs |->
        [finding |-> specs[i][1], object |-> specs[i][2], expires |-> {}]]]
-----------------------------------------------------------------------------
(* A rule is active through the whole of its last day.                      *)
Expired(r, today) == \E day \in r.expires : today > day

Specificity(pattern, object) ==
    IF pattern = NoObject THEN 1
    ELSE IF pattern = object THEN 3
    ELSE IF pattern \in DOMAIN GlobMatches /\ object \in GlobMatches[pattern] THEN 2 ELSE 0

(* The rules that match an object, and the one that counts: the most        *)
(* specific, the earliest in the file among equals.                         *)
Matching(rules, id, object, today) ==
    {i \in DOMAIN rules : /\ rules[i].finding = id /\ ~Expired(rules[i], today)
                          /\ Specificity(rules[i].object, object) > 0}
MatchIgnore(rules, id, object, today) ==
    LET spec(i) == Specificity(rules[i].object, object)
        found == Matching(rules, id, object, today)
    IN  CHOOSE i \in found : \A j \in found : spec(i) > spec(j) \/ (spec(i) = spec(j) /\ i <= j)

Suppress(f, r) == [f EXCEPT !.suppressed = TRUE, !.rule = RuleString(r)]

(* An aggregate loses the rows a rule matches; a rule without object, or    *)
(* rules for all its rows, suppress it whole.  Its severity stays that of   *)
(* all the rows.                                                            *)
Wholesale(rules, id, today) ==
    {i \in DOMAIN rules : rules[i].finding = id /\ rules[i].object = NoObject /\ ~Expired(rules[i], today)}
Cut(rules, f, today) == {o \in f.objects : Matching(rules, f.id, o, today) # {}}
(* A slip of SuppressRows: one row that matches mutes them all.             *)
SuppressAnyRow(rules, f, today) ==
    LET cut == Cut(rules, f, today)
    IN  IF cut = {} THEN f
        ELSE Suppress(f, rules[MatchIgnore(rules, f.id, CHOOSE o \in cut : TRUE, today)])

SuppressRows(rules, f, today) ==
    LET whole == Wholesale(rules, f.id, today)
        cut == Cut(rules, f, today)
    IN  IF whole # {} THEN Suppress(f, rules[Min(whole)])
        ELSE IF cut = {} THEN f
        ELSE IF cut = f.objects
          THEN Suppress(f, rules[MatchIgnore(rules, f.id, CHOOSE o \in cut : TRUE, today)])
        ELSE [f EXCEPT !.objects = @ \ cut, !.cut = cut]

ApplyIgnore(rules, f, today) ==
    IF f.objects # {} THEN SuppressRows(rules, f, today)
    ELSE LET found == Matching(rules, f.id, f.object, today)
         IN  IF found = {} THEN f
             ELSE Suppress(f, rules[MatchIgnore(rules, f.id, f.object, today)])

(* The rules that fired on a finding.                                       *)
Fired(rules, f, today) ==
    IF f.objects = {}
      THEN {RuleString(rules[MatchIgnore(rules, f.id, f.object, today)]) :
              x \in {x \in {f} : Matching(rules, f.id, f.object, today) # {}}}
    ELSE IF Wholesale(rules, f.id, today) # {}
      THEN {RuleString(rules[Min(Wholesale(rules, f.id, today))])}
    ELSE {RuleString(rules[MatchIgnore(rules, f.id, o, today)]) : o \in Cut(rules, f, today)}

Remap(cfg, f) ==
    IF f.id \in DOMAIN cfg.severity /\ cfg.severity[f.id] # f.severity
      THEN [f EXCEPT !.remapped = f.severity, !.severity = cfg.severity[f.id]] ELSE f

Apply(cfg, fs, today) == {ApplyIgnore(cfg.ignore, Remap(cfg, f), today) : f \in fs}
Matched(cfg, fs, today) == UNION {Fired(cfg.ignore, f, today) : f \in fs}
-----------------------------------------------------------------------------
(* RecordSuppressionUsage: rules no longer configured lose their history, a *)
(* rule that matched restarts, every other one counts a miss for each time  *)
(* it is listed.                                                            *)
Listed(active, r) == Cardinality({i \in DOMAIN active : active[i] = r})
(* A slip of RecordUsage: the rows of rules that were deleted stay.         *)
RecordUsageUnpruned(misses, active, matched) ==
    [r \in Range(active) \union DOMAIN misses |->
        IF r \in matched THEN 0
        ELSE (IF r \in DOMAIN misses THEN misses[r] ELSE 0) + Listed(active, r)]

RecordUsage(misses, active, matched) ==
    [r \in Range(active) |->
        IF r \in matched THEN 0
        ELSE (IF r \in DOMAIN misses THEN misses[r] ELSE 0) + Listed(active, r)]
Unused(misses, active, matched) ==
    {r \in Range(active) : r \notin matched /\ misses[r] >= SuppressionUnusedAfter}
=============================================================================
