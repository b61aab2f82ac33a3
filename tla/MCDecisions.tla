------------------------------ MODULE MCDecisions ------------------------------
(* Decisions for TLC: a sequence that may join another near its ceiling, an *)
(* invalid index and a setting, under seven versions of .pgbot.toml.        *)
EXTENDS Decisions, TLC
MCKnownIDs == {"sequence_exhaustion", "index_invalid", "fsync_off"} \union Hygiene
MCAggregates == {"sequence_exhaustion", "index_invalid"}
MCSchemaScoped == {"index_invalid"}
MCLevels == (<<"sequence_exhaustion", "s1">> :> {"warn", "critical"})
         @@ (<<"sequence_exhaustion", "s2">> :> {"warn"})
         @@ (<<"index_invalid", "i1">> :> {"critical"})
         @@ (<<"fsync_off", "setting:fsync">> :> {"critical"})
MCGlobMatches == ("s*" :> {"s1", "s2"})
MCBadGlobs == {"["}

Rule(finding, object, expires) == [finding |-> finding, object |-> object, expires |-> expires]
File(rules, severity) == [credential |-> FALSE, ignore |-> rules, severity |-> severity]
Seq1 == Rule("sequence_exhaustion", "s1", {0})
SeqGlob == Rule("sequence_exhaustion", "s*", {})
SeqAll == Rule("sequence_exhaustion", "", {})
Fsync == Rule("fsync_off", "setting:fsync", {Garbled})
MCFiles ==
    {File(<<>>, <<>>), File(<<Seq1, Fsync>>, <<>>), File(<<SeqGlob, Seq1>>, [fsync_off |-> "info"]),
     File(<<Seq1, SeqAll, Rule("fsync_off", "[", {})>>, [fsync_off |-> "fatal", typo |-> "info"]),
     File(<<Fsync, Rule("", "s1", {})>>, [fsync_off |-> "info", sequence_exhaustion |-> "info"]),
     File(<<SeqGlob, Seq1, SeqGlob>>, <<>>), [File(<<Fsync>>, <<>>) EXCEPT !.credential = TRUE]}
MCDatabases == {[r \in DOMAIN MCLevels |-> IF r[1] = "sequence_exhaustion" THEN "warn" ELSE "critical"],
                [r \in DOMAIN MCLevels |-> IF r[2] = "s1" THEN "warn" ELSE "none"]}

Call(profile, inline, store, against, save) ==
    [profile |-> profile, inline |-> inline, store |-> store, against |-> against, save |-> save]
MuteIndex == <<<<"index_invalid", "">>>>
MCInvocations ==
    {Call("full", <<>>, TRUE, FALSE, TRUE), Call("full", <<>>, TRUE, TRUE, FALSE),
     Call("full", MuteIndex, TRUE, FALSE, FALSE), Call("full", MuteIndex, FALSE, TRUE, FALSE),
     Call("schema", <<>>, FALSE, FALSE, TRUE), Call("schema", <<>>, FALSE, TRUE, FALSE)}
=============================================================================
