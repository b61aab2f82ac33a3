-------------------------------- MODULE FanOut --------------------------------
(***************************************************************************)
(* `pgbot inspect --all-databases / --all-instances` (cmd/pgbot/alldbs.go): *)
(* one goroutine per target, at most --parallel of them inspecting at a     *)
(* time; then, in one thread, the contexts are put in plan order, their     *)
(* fingerprints checked, cluster-wide findings reduced to one per server,   *)
(* and the exit code computed.                                              *)
(*                                                                          *)
(* A finding is reduced to its ID, its object, its severity and whether it  *)
(* is muted (suppressed or pre-existing); collection and the rules of       *)
(* internal/findings are the choice of one of Reports.  A slice that is     *)
(* filtered keeps its entries at the positions they had before: a function  *)
(* on some of the indices, in their order.                                  *)
(***************************************************************************)
EXTENDS Integers, FiniteSets, Sequences, SequencesExt

CONSTANTS
    Members,      \* the cluster's members as discovery lists them, a sequence
    Databases,    \* the server's databases as listed, a sequence
    Home,         \* the database the connection string names
    NoMember,     \* a target without a member
    None,         \* a target without a context
    ClusterWide,  \* finding IDs whose source is cluster-wide
    Reports,      \* the sequences of findings a collection may end with
    Parallels     \* the values of --parallel

Finding == [id : STRING, object : STRING, sev : {"critical", "warn", "info"},
            muted : BOOLEAN, scoped : {FALSE}]

(* A collected target: who and what it is, what was found, its fingerprint. *)
Context ==
    LET members == Range(Members) \cup {NoMember}
        dbs == Range(Databases) \cup {Home}
    IN  [member : members, db : dbs, findings : Reports, fp : ({"system"} \cup members) \X dbs]

ASSUME FanOutAssumption ==
    /\ Members \in Seq(Range(Members)) /\ Members # <<>> /\ IsInjective(Members)
    /\ Databases \in Seq(Range(Databases)) /\ Databases # <<>> /\ IsInjective(Databases)
    /\ None \notin Context
    /\ NoMember \notin Range(Members)
    /\ Parallels \subseteq Int
    /\ \A findings \in Reports :
          findings \in Seq(Range(findings)) /\ Range(findings) \subseteq Finding

VARIABLES
    flags,     \* the command line: allInstances, allDatabases, parallel
    readable,  \* pg_control_system() is readable on the servers
    pc,        \* where runInspectAll is
    targets,   \* the plan
    task,      \* where each target's goroutine is
    sem,       \* tokens in the semaphore channel
    reached,   \* the member each target's connection is to
    contexts,  \* contexts[i], None until target i is inspected
    skipped,   \* the number of targets that failed
    out,       \* the contexts that are rendered
    exit,      \* the exit code
    clash      \* the run ended in the duplicate-fingerprint error

vars == <<flags, readable, pc, targets, task, sem, reached, contexts, skipped, out, exit, clash>>

Clean == 0
Warn == 1
Critical == 2
Failure == 3
-----------------------------------------------------------------------------
(* composeTargets: every database of one member before the next member.     *)
ComposeTargets(instances, dbs) ==
    IF instances = <<>>
      THEN [i \in 1 .. Len(dbs) |-> [member |-> NoMember, db |-> dbs[i]]]
      ELSE [k \in 1 .. Len(instances) * Len(dbs) |->
               [member |-> instances[(k - 1) \div Len(dbs) + 1],
                db |-> dbs[((k - 1) % Len(dbs)) + 1]]]

(* Fingerprint: the system identifier, when readable, replaces the host.    *)
(* The members of one cluster are physical replicas and share it.           *)
Fingerprint(member, db) == IF readable THEN <<"system", db>> ELSE <<member, db>>

DuplicateFingerprint(cs) ==
    \E i, j \in DOMAIN cs : i # j /\ cs[i].fp = cs[j].fp

(* A slip of Dedupe: the first context is taken to carry every cluster-wide *)
(* finding.                                                                 *)
DedupeToFirst(cs) ==
    [i \in DOMAIN cs |->
        [cs[i] EXCEPT !.findings =
            IF i = 1 THEN @ ELSE Restrict(@, {j \in DOMAIN @ : @[j].id \notin ClusterWide})]]

(* dedupeClusterWide: the first occurrence of each cluster-wide ID of a     *)
(* server is marked and kept, in the order of contexts and findings.        *)
Dedupe(cs) ==
    LET Seen(i, j) ==          \* an earlier finding of that ID on that server
            \E a \in DOMAIN cs : \E b \in DOMAIN cs[a].findings :
                /\ a < i \/ (a = i /\ b < j)
                /\ cs[a].member = cs[i].member
                /\ cs[a].findings[b].id = cs[i].findings[j].id
        Scoped(f) == f.id \in ClusterWide
        Kept(i) ==
            LET fs == cs[i].findings
            IN  [j \in {j \in DOMAIN fs : Scoped(fs[j]) => ~Seen(i, j)} |->
                    [fs[j] EXCEPT !.scoped = Scoped(fs[j])]]
    IN  [i \in DOMAIN cs |-> [cs[i] EXCEPT !.findings = Kept(i)]]

(* exitCode under --fail-on; "none" never fails.                            *)
SeverityRank(sev) == CASE sev = "critical" -> 3 [] sev = "warn" -> 2 [] sev = "info" -> 1
ExitCode(fs, failOn) ==
    LET Counts(f) == ~f.muted /\ SeverityRank(f.sev) >= SeverityRank(failOn)
        counted == {f.sev : f \in {f \in Range(fs) : Counts(f)}}
    IN  IF failOn = "none" \/ counted = {} THEN Clean
        ELSE IF "critical" \in counted THEN Critical ELSE Warn

(* A slip of PartialCoverageExit: only a clean run is failed.               *)
PartialCoverageIfClean(worst) == IF worst = Clean THEN Failure ELSE worst
PartialCoverageExit(worst) == IF worst < Failure THEN Failure ELSE worst

(* mergeContexts: the object a finding has in the SARIF and JUnit output.   *)
Tag(c, f) ==
    IF ~f.scoped THEN <<c.member, c.db, f.object>>
    ELSE IF c.member # NoMember THEN <<c.member>> ELSE <<f.object>>
-----------------------------------------------------------------------------
Init ==
    /\ flags \in [allInstances : BOOLEAN, allDatabases : BOOLEAN, parallel : Parallels]
    /\ flags.allInstances \/ flags.allDatabases
    /\ readable \in BOOLEAN
    /\ pc = "plan"
    /\ targets = <<>> /\ task = <<>> /\ reached = <<>> /\ contexts = <<>>
    /\ sem = 0 /\ skipped = 0
    /\ out = <<>> /\ exit = Clean /\ clash = FALSE

(* planTargets fails: no connection, no databases, not an Aurora cluster.   *)
PlanFails ==
    /\ pc = "plan"
    /\ pc' = "exited" /\ exit' = Failure
    /\ UNCHANGED <<flags, readable, targets, task, sem, reached, contexts, skipped, out, clash>>

PlanTargets ==
    /\ pc = "plan"
    /\ targets' = ComposeTargets(IF flags.allInstances THEN Members ELSE <<>>,
                                 IF flags.allDatabases THEN Databases ELSE <<Home>>)
    /\ task' = [i \in DOMAIN targets' |-> "spawned"]
    /\ reached' = [i \in DOMAIN targets' |-> NoMember]
    /\ contexts' = [i \in DOMAIN targets' |-> None]
    /\ pc' = "run"
    /\ UNCHANGED <<flags, readable, sem, skipped, out, exit, clash>>

Workers == IF flags.parallel < 1 THEN 1 ELSE flags.parallel

(* sem <- struct{}{}                                                        *)
Acquire(i) ==
    /\ task[i] = "spawned" /\ sem < Workers
    /\ sem' = sem + 1
    /\ task' = [task EXCEPT ![i] = "connect"]
    /\ UNCHANGED <<flags, readable, pc, targets, reached, contexts, skipped, out, exit, clash>>

(* A derived endpoint may lead to any member.                               *)
Connect(i) ==
    /\ task[i] = "connect"
    /\ IF targets[i].member = NoMember
         THEN task' = [task EXCEPT ![i] = "collect"] /\ UNCHANGED reached
         ELSE /\ \E m \in Range(Members) : reached' = [reached EXCEPT ![i] = m]
              /\ task' = [task EXCEPT ![i] = "verify"]
    /\ UNCHANGED <<flags, readable, pc, targets, sem, contexts, skipped, out, exit, clash>>

(* A slip of Verify: any identity will do.                                  *)
VerifyAny(i) ==
    /\ task[i] = "verify"
    /\ task' = [task EXCEPT ![i] = "collect"]
    /\ UNCHANGED <<flags, readable, pc, targets, sem, reached, contexts, skipped, out, exit, clash>>

(* aurora_db_instance_identifier() names the member the plan names.         *)
Verify(i) ==
    /\ task[i] = "verify" /\ reached[i] = targets[i].member
    /\ task' = [task EXCEPT ![i] = "collect"]
    /\ UNCHANGED <<flags, readable, pc, targets, sem, reached, contexts, skipped, out, exit, clash>>

(* Collection, baseline and findings; the token is given back.              *)
Inspected(i) ==
    /\ task[i] = "collect"
    /\ \E findings \in Reports :
        contexts' = [contexts EXCEPT ![i] =
            [member |-> targets[i].member, db |-> targets[i].db, findings |-> findings,
             fp |-> Fingerprint(targets[i].member, targets[i].db)]]
    /\ task' = [task EXCEPT ![i] = "ended"]
    /\ sem' = sem - 1
    /\ UNCHANGED <<flags, readable, pc, targets, reached, skipped, out, exit, clash>>

(* A slip of Skip: the early return keeps its token.                        *)
SkipHolding(i) ==
    /\ task[i] \in {"connect", "verify", "collect"}
    /\ task' = [task EXCEPT ![i] = "ended"]
    /\ skipped' = skipped + 1
    /\ UNCHANGED <<flags, readable, pc, targets, sem, reached, contexts, out, exit, clash>>

(* Connecting, verifying, collecting or the config file fails, the identity *)
(* is another's, or the command is interrupted: the target is skipped.      *)
Skip(i) ==
    /\ task[i] \in {"connect", "verify", "collect"}
    /\ task' = [task EXCEPT ![i] = "ended"]
    /\ skipped' = skipped + 1
    /\ sem' = sem - 1
    /\ UNCHANGED <<flags, readable, pc, targets, reached, contexts, out, exit, clash>>

(* The targets that were inspected.                                         *)
Got == Restrict(contexts, {i \in DOMAIN contexts : contexts[i] # None})

(* After wg.Wait(): everything is sequential.                               *)
Report ==
    /\ pc = "run" /\ \A i \in DOMAIN task : task[i] = "ended"
    /\ pc' = "exited"
    /\ LET kept == Dedupe(Got)
       IN  IF DOMAIN Got = {} \/ DuplicateFingerprint(Got)
             THEN /\ exit' = Failure /\ clash' = (DOMAIN Got # {})
                  /\ UNCHANGED out
             ELSE /\ out' = kept /\ UNCHANGED clash
                  /\ \E failOn \in {"critical", "warn", "info", "none"} :
                        LET codes == {Clean} \cup
                                {ExitCode(kept[i].findings, failOn) : i \in DOMAIN kept}
                            worst == CHOOSE w \in codes : \A c \in codes : c <= w
                        IN  exit' = IF flags.allInstances /\ skipped > 0
                                      THEN PartialCoverageExit(worst) ELSE worst
    /\ UNCHANGED <<flags, readable, targets, task, sem, reached, contexts, skipped>>

Step(i) == Acquire(i) \/ Connect(i) \/ Verify(i) \/ Inspected(i) \/ Skip(i)

Next == PlanFails \/ PlanTargets \/ (\E i \in DOMAIN task : Step(i)) \/ Report

Spec == Init /\ [][Next]_vars

(* Calls return: connecting, and queries under statement_timeout and the    *)
(* collection deadline.                                                     *)
FairSpec ==
    /\ Spec
    /\ WF_vars(PlanTargets \/ PlanFails) /\ WF_vars(Report)
    /\ \A i \in 1 .. Len(Members) * Len(Databases) : WF_vars(i \in DOMAIN task /\ Step(i))
-----------------------------------------------------------------------------
(* A context labelled with a member holds that member's data, whatever the  *)
(* derived endpoint led to.                                                 *)
NeverMislabeled ==
    \A i \in DOMAIN contexts :
        contexts[i] # None /\ contexts[i].member # NoMember => reached[i] = contexts[i].member

(* The rendered contexts are in plan order, one server at a time, whichever *)
(* target ended first or failed.                                            *)
ServersInOrder ==
    \A i, j, k \in DOMAIN out :
        i < j /\ j < k /\ out[i].member = out[k].member => out[j].member = out[i].member

Carries(c, id) == \E f \in Range(c.findings) : f.id = id

(* A cluster-wide finding that any inspected target of a server carries is  *)
(* reported by exactly one of them: it neither repeats nor vanishes because *)
(* the first target's collection missed it.                                 *)
ClusterWideOnce ==
    out # <<>> =>
        \A i \in DOMAIN contexts : contexts[i] # None =>
            \A id \in ClusterWide : Carries(contexts[i], id) =>
                \E n \in DOMAIN out :
                    /\ out[n].member = contexts[i].member /\ Carries(out[n], id)
                    /\ \A m \in DOMAIN out \ {n} :
                          out[m].member = out[n].member => ~Carries(out[m], id)

(* Per-database findings all stay, in order, on the context of their own    *)
(* database.                                                                *)
PerDatabaseKept ==
    LET Local(c) == Restrict(c.findings, {j \in DOMAIN c.findings : c.findings[j].id \notin ClusterWide})
    IN  out # <<>> =>
            /\ DOMAIN out = DOMAIN Got
            /\ \A i \in DOMAIN out :
                  /\ out[i].member = targets[i].member /\ out[i].db = targets[i].db
                  /\ out[i].fp = Got[i].fp /\ Local(out[i]) = Local(Got[i])

(* In the aggregate formats, entries of different targets stay distinct.    *)
EntriesDistinct ==
    \A i, j \in DOMAIN out : i # j =>
        \A f \in Range(out[i].findings), g \in Range(out[j].findings) :
            f.id = g.id => Tag(out[i], f) # Tag(out[j], g)

(* What is rendered is what was found: in plan order, cluster-wide findings *)
(* once, the others on their own database, entries told apart.              *)
OutputIsExact == ServersInOrder /\ ClusterWideOnce /\ PerDatabaseKept /\ EntriesDistinct

(* --all-instances promises the whole cluster: a target without a context   *)
(* fails the run, whatever was found on the others.                         *)
PartialCoverageFails ==
    pc = "exited" /\ flags.allInstances /\ (\E i \in DOMAIN contexts : contexts[i] = None)
        => exit = Failure

(* The command ends: every goroutine gets its token.                        *)
RunEnds == <>(pc = "exited")

=============================================================================
