---------------------------- MODULE FanOut_proofs ----------------------------
(***************************************************************************)
(* The fan-out for a cluster of any size, any number of databases and any   *)
(* --parallel: a report is labelled with the member it came from (IInv);    *)
(* --all-instances fails unless every target has its context (CInv); the    *)
(* semaphore's tokens are those of the goroutines at work (TInv); and what  *)
(* is output is what was found, in plan order, cluster-wide findings once   *)
(* (OInv).                                                                  *)
(***************************************************************************)
EXTENDS FanOut, SequenceTheorems, FiniteSetTheorems, WellFoundedInduction, TLAPS

Aligned ==
    DOMAIN task = DOMAIN targets /\ DOMAIN reached = DOMAIN targets /\ DOMAIN contexts = DOMAIN targets
Verified ==
    \A i \in DOMAIN task : task[i] = "collect" /\ targets[i].member # NoMember =>
        reached[i] = targets[i].member
Labelled ==
    \A i \in DOMAIN contexts : contexts[i] # None =>
        /\ task[i] = "ended" /\ contexts[i].member = targets[i].member
        /\ targets[i].member # NoMember => reached[i] = targets[i].member
IInv == Aligned /\ Verified /\ Labelled

LEMMA IInvInit == Init => IInv
  BY DEF Init, IInv, Aligned, Verified, Labelled

(* One goroutine's step: the others' connections and contexts are theirs.   *)
LEMMA IInvStep ==
  ASSUME IInv, NEW i \in DOMAIN task, Step(i)
  PROVE  IInv'
<1> USE DEF IInv, Aligned, Verified, Labelled
<1>1. CASE Acquire(i)
  BY <1>1 DEF Acquire
<1>2. CASE Connect(i)
  <2>1. /\ UNCHANGED <<targets, contexts>> /\ contexts[i] = None
        /\ \A j \in DOMAIN task \ {i} : task'[j] = task[j] /\ reached'[j] = reached[j]
        /\ DOMAIN task' = DOMAIN task /\ DOMAIN reached' = DOMAIN reached
        /\ task'[i] = "collect" => targets[i].member = NoMember
    BY <1>2 DEF Connect
  <2> QED
    BY <2>1
<1>3. CASE Verify(i)
  BY <1>3 DEF Verify
<1>4. CASE Inspected(i)
  <2>1. PICK findings \in Reports :
           contexts' = [contexts EXCEPT ![i] =
              [member |-> targets[i].member, db |-> targets[i].db, findings |-> findings,
               fp |-> Fingerprint(targets[i].member, targets[i].db)]]
    BY <1>4 DEF Inspected
  <2>2. /\ contexts'[i].member = targets[i].member /\ DOMAIN contexts' = DOMAIN contexts
        /\ \A j \in DOMAIN contexts \ {i} : contexts'[j] = contexts[j]
    BY <2>1
  <2>3. /\ UNCHANGED <<targets, reached>> /\ task' = [task EXCEPT ![i] = "ended"]
        /\ task[i] = "collect"
    BY <1>4 DEF Inspected
  <2> QED
    BY <2>2, <2>3
<1>5. CASE Skip(i)
  BY <1>5 DEF Skip
<1> QED
  BY <1>1, <1>2, <1>3, <1>4, <1>5 DEF Step

LEMMA IInvNext == IInv /\ [Next]_vars => IInv'
<1> SUFFICES ASSUME IInv, [Next]_vars
             PROVE  IInv'
  OBVIOUS
<1>1. CASE PlanTargets
  BY <1>1 DEF PlanTargets, IInv, Aligned, Verified, Labelled
<1>2. CASE PlanFails \/ Report \/ UNCHANGED vars
  BY <1>2 DEF PlanFails, Report, vars, IInv, Aligned, Verified, Labelled
<1> QED
  BY <1>1, <1>2, IInvStep DEF Next

(* Rows of n, laid end to end: the row of the k-th element.                 *)
LEMMA RowOf ==
  ASSUME NEW m \in Nat, NEW n \in Nat \ {0}, NEW k \in 1 .. m * n
  PROVE  (k - 1) \div n + 1 \in 1 .. m /\ ((k - 1) % n) + 1 \in 1 .. n
<1> DEFINE q == (k - 1) \div n
<1>1. k - 1 \in Nat /\ k - 1 < m * n /\ m * n \in Int
  OBVIOUS
<1>2. /\ q \in Int /\ (k - 1) % n \in 0 .. n - 1
      /\ k - 1 = n * q + ((k - 1) % n)
  BY <1>1
<1>3. q >= 0
  BY <1>1, <1>2
<1> HIDE DEF q
<1>4. q < m
  <2> SUFFICES ASSUME q >= m
               PROVE  FALSE
    BY <1>2
  <2>1. PICK d \in Nat : q = m + d
    BY <1>2
  <2>2. n * q = m * n + n * d /\ n * d \in Nat
    BY <2>1
  <2> QED
    BY <1>1, <1>2, <2>2
<1> QED
  BY <1>2, <1>3, <1>4 DEF q

(* The plan: every target is a database of a member, or of the one server.  *)
Target == [member : Range(Members) \cup {NoMember}, db : Range(Databases) \cup {Home}]

LEMMA ComposeTargetsType ==
  ASSUME NEW instances \in {Members, <<>>}, NEW dbs \in {Databases, <<Home>>}
  PROVE  \A k \in DOMAIN ComposeTargets(instances, dbs) : ComposeTargets(instances, dbs)[k] \in Target
<1>0. ASSUME NEW S, NEW s \in Seq(S), s # <<>>
      PROVE  Len(s) \in Nat \ {0} /\ \A i \in 1 .. Len(s) : s[i] \in S
  BY <1>0, EmptySeq, LenProperties, ElementOfSeq
<1>1. /\ Len(dbs) \in Nat \ {0} /\ \A i \in 1 .. Len(dbs) : dbs[i] \in Range(Databases) \cup {Home}
      /\ instances # <<>> =>
            Len(instances) \in Nat /\ \A i \in 1 .. Len(instances) : instances[i] \in Range(Members)
  <2>1. Len(dbs) \in Nat \ {0} /\ \A i \in 1 .. Len(dbs) : dbs[i] \in Range(Databases) \cup {Home}
    <3>1. CASE dbs = Databases
      BY <1>0, <3>1, FanOutAssumption
    <3>2. CASE dbs = <<Home>>
      BY <3>2
    <3> QED
      BY <3>1, <3>2
  <2>2. instances # <<>> =>
            Len(instances) \in Nat /\ \A i \in 1 .. Len(instances) : instances[i] \in Range(Members)
    BY <1>0, FanOutAssumption
  <2> QED
    BY <2>1, <2>2
<1>2. CASE instances = <<>>
  BY <1>1, <1>2 DEF ComposeTargets, Target
<1>3. CASE instances # <<>>
  <2> SUFFICES ASSUME NEW k \in 1 .. Len(instances) * Len(dbs)
               PROVE  [member |-> instances[(k - 1) \div Len(dbs) + 1],
                       db |-> dbs[((k - 1) % Len(dbs)) + 1]] \in Target
    BY <1>3 DEF ComposeTargets
  <2>1. (k - 1) \div Len(dbs) + 1 \in 1 .. Len(instances) /\ ((k - 1) % Len(dbs)) + 1 \in 1 .. Len(dbs)
    BY <1>1, RowOf
  <2> QED
    BY <1>1, <1>3, <2>1 DEF Target
<1> QED
  BY <1>2, <1>3

(* A context labelled with a member holds that member's data, whatever the  *)
(* derived endpoint led to (inspectTarget's identity check).                *)
THEOREM LabelsAreRight == Spec => []NeverMislabeled
<1>1. IInv => NeverMislabeled
  BY DEF IInv, Aligned, Labelled, NeverMislabeled
<1> QED
  BY <1>1, IInvInit, IInvNext, PTL DEF Spec
-----------------------------------------------------------------------------
Planned == \A i \in DOMAIN targets : targets[i] \in Target
Over ==
    /\ pc = "plan" => DOMAIN task = {}
    /\ pc = "exited" => \A i \in DOMAIN task : task[i] = "ended"
Counted ==
    /\ skipped \in Nat
    /\ \A i \in DOMAIN task : task[i] = "ended" /\ contexts[i] = None => skipped > 0
CInv == Aligned /\ Planned /\ Over /\ Counted /\ PartialCoverageFails

LEMMA CInvInit == Init => CInv
  BY DEF Init, CInv, Aligned, Planned, Over, Counted, PartialCoverageFails

LEMMA CInvStep ==
  ASSUME CInv, NEW i \in DOMAIN task, Step(i)
  PROVE  CInv'
<1>1. task[i] # "ended" /\ pc # "exited" /\ UNCHANGED <<pc, targets, flags, exit>>
  BY DEF CInv, Over, Step, Acquire, Connect, Verify, Inspected, Skip
<1>2. Planned' /\ PartialCoverageFails'
  BY <1>1 DEF CInv, Planned, PartialCoverageFails
<1>3. CASE Acquire(i)
  BY <1>1, <1>2, <1>3 DEF Acquire, CInv, Aligned, Over, Counted
<1>4. CASE Connect(i)
  <2>1. /\ UNCHANGED <<contexts, skipped>> /\ DOMAIN task' = DOMAIN task /\ DOMAIN reached' = DOMAIN reached
        /\ task'[i] \in {"collect", "verify"}
        /\ \A j \in DOMAIN task \ {i} : task'[j] = task[j]
    BY <1>4 DEF Connect
  <2> QED
    BY <1>1, <1>2, <2>1 DEF CInv, Aligned, Over, Counted
<1>5. CASE Verify(i)
  BY <1>1, <1>2, <1>5 DEF Verify, CInv, Aligned, Over, Counted
<1>6. CASE Inspected(i)
  <2>1. PICK findings \in Reports :
           contexts' = [contexts EXCEPT ![i] =
              [member |-> targets[i].member, db |-> targets[i].db, findings |-> findings,
               fp |-> Fingerprint(targets[i].member, targets[i].db)]]
    BY <1>6 DEF Inspected
  <2>2. targets[i] \in Target
    BY DEF CInv, Aligned, Planned
  <2>3. [member |-> targets[i].member, db |-> targets[i].db, findings |-> findings,
         fp |-> Fingerprint(targets[i].member, targets[i].db)] \in Context
    BY <2>2 DEF Target, Context, Fingerprint
  <2>4. contexts'[i] # None /\ DOMAIN contexts' = DOMAIN contexts
        /\ \A j \in DOMAIN contexts \ {i} : contexts'[j] = contexts[j]
    BY <2>1, <2>3, FanOutAssumption DEF CInv, Aligned
  <2>5. UNCHANGED <<reached, skipped>> /\ task' = [task EXCEPT ![i] = "ended"]
    BY <1>6 DEF Inspected
  <2> QED
    BY <1>1, <1>2, <2>4, <2>5 DEF CInv, Aligned, Over, Counted
<1>7. CASE Skip(i)
  <2>1. /\ skipped' = skipped + 1 /\ UNCHANGED <<reached, contexts>> /\ DOMAIN task' = DOMAIN task
    BY <1>7 DEF Skip
  <2>2. Counted'
    BY <2>1 DEF CInv, Counted
  <2> QED
    BY <1>1, <1>2, <2>1, <2>2 DEF CInv, Aligned, Over
<1> QED
  BY <1>3, <1>4, <1>5, <1>6, <1>7 DEF Step

(* The worst exit code exists, and a partial run raises it to a failure.    *)
LEMMA PartialFails ==
  ASSUME NEW codes \in SUBSET {Clean, Warn, Critical}, Clean \in codes
  PROVE  PartialCoverageExit(CHOOSE w \in codes : \A c \in codes : c <= w) = Failure
<1>1. \E w \in codes : \A c \in codes : c <= w
  BY DEF Clean, Warn, Critical
<1>2. (CHOOSE w \in codes : \A c \in codes : c <= w) \in codes
  BY <1>1
<1> DEFINE worst == CHOOSE w \in codes : \A c \in codes : c <= w
<1> HIDE DEF worst
<1>3. worst \in codes
  BY <1>2 DEF worst
<1>4. PartialCoverageExit(worst) = Failure
  BY <1>3 DEF PartialCoverageExit, Clean, Warn, Critical, Failure
<1> QED
  BY <1>4 DEF worst

LEMMA ReportFails ==
  ASSUME CInv, Report
  PROVE  PartialCoverageFails'
<1> SUFFICES ASSUME flags.allInstances, NEW i \in DOMAIN contexts, contexts[i] = None
             PROVE  exit' = Failure
  BY DEF Report, PartialCoverageFails
<1>1. skipped > 0
  BY DEF Report, CInv, Aligned, Counted
<1> DEFINE codes(failOn) == {Clean} \cup {ExitCode(Dedupe(Got)[n].findings, failOn) : n \in DOMAIN Dedupe(Got)}
           worst(failOn) == CHOOSE w \in codes(failOn) : \A c \in codes(failOn) : c <= w
<1>2. \/ exit' = Failure
      \/ \E failOn : exit' = PartialCoverageExit(worst(failOn))
  BY <1>1 DEF Report
<1>3. ASSUME NEW failOn
      PROVE  codes(failOn) \subseteq {Clean, Warn, Critical} /\ Clean \in codes(failOn)
  <2>1. \A fs : ExitCode(fs, failOn) \in {Clean, Warn, Critical}
    BY DEF ExitCode
  <2> QED
    BY <2>1
<1> HIDE DEF codes
<1> QED
  BY <1>2, <1>3, PartialFails

LEMMA CInvNext == CInv /\ [Next]_vars => CInv'
<1> SUFFICES ASSUME CInv, [Next]_vars
             PROVE  CInv'
  OBVIOUS
<1>1. CASE PlanTargets
  <2>1. /\ targets' = ComposeTargets(IF flags.allInstances THEN Members ELSE <<>>,
                                     IF flags.allDatabases THEN Databases ELSE <<Home>>)
        /\ pc' = "run" /\ UNCHANGED skipped
        /\ task' = [i \in DOMAIN targets' |-> "spawned"]
        /\ reached' = [i \in DOMAIN targets' |-> NoMember]
        /\ contexts' = [i \in DOMAIN targets' |-> None]
    BY <1>1 DEF PlanTargets
  <2>2. Planned'
    BY <2>1, ComposeTargetsType DEF Planned
  <2> QED
    BY <2>1, <2>2 DEF CInv, Aligned, Over, Counted, PartialCoverageFails
<1>2. CASE PlanFails
  BY <1>2 DEF PlanFails, CInv, Aligned, Planned, Over, Counted, PartialCoverageFails
<1>3. CASE Report
  <2>1. pc' = "exited" /\ UNCHANGED <<targets, task, reached, contexts, skipped>>
        /\ \A i \in DOMAIN task : task[i] = "ended"
    BY <1>3 DEF Report
  <2> QED
    BY <1>3, <2>1, ReportFails DEF CInv, Aligned, Planned, Over, Counted
<1>4. CASE UNCHANGED vars
  BY <1>4 DEF vars, CInv, Aligned, Planned, Over, Counted, PartialCoverageFails
<1> QED
  BY <1>1, <1>2, <1>3, <1>4, CInvStep DEF Next

(* --all-instances fails when any target of the plan was not inspected,     *)
(* whatever the findings on the others and the threshold of --fail-on.      *)
THEOREM CoverageIsWhole == Spec => []PartialCoverageFails
<1>1. CInv => PartialCoverageFails
  BY DEF CInv
<1> QED
  BY <1>1, CInvInit, CInvNext, PTL DEF Spec
-----------------------------------------------------------------------------
(* The goroutines between taking a token and giving it back.                *)
Holding == {i \in DOMAIN task : task[i] \in {"connect", "verify", "collect"}}

(* The tokens taken are those of the goroutines at work, never more than    *)
(* --parallel allows: when none is at work, a waiting one gets its turn.    *)
TokensAreHeld ==
    /\ IsFiniteSet(Holding) /\ sem = Cardinality(Holding) /\ sem <= Workers
    /\ Holding = {} => sem < Workers
TInv ==
    /\ flags.parallel \in Int /\ sem \in Nat /\ sem <= Workers
    /\ IsFiniteSet(Holding) /\ sem = Cardinality(Holding)
    /\ pc = "plan" => DOMAIN task = {}

LEMMA TInvInit == Init => TInv
<1> SUFFICES ASSUME Init
             PROVE  TInv
  OBVIOUS
<1>1. Holding = {} /\ DOMAIN task = {} /\ sem = 0 /\ flags.parallel \in Int
  <2>1. DOMAIN task = {} /\ sem = 0
    BY DEF Init
  <2>2. flags.parallel \in Int
    BY FanOutAssumption DEF Init
  <2> QED
    BY <2>1, <2>2 DEF Holding
<1> QED
  BY <1>1, FS_EmptySet DEF TInv, Workers

LEMMA TInvNext == TInv /\ [Next]_vars => TInv'
<1> SUFFICES ASSUME TInv, [Next]_vars
             PROVE  TInv'
  OBVIOUS
<1>0. Workers \in Nat
  BY DEF TInv, Workers
<1>k. ASSUME UNCHANGED <<flags, sem>>, Holding' = Holding, pc' # "plan" \/ UNCHANGED <<pc, task>>
      PROVE  TInv'
  BY <1>k DEF TInv, Workers
<1>1. CASE PlanTargets
  <2>1. Holding = {} /\ sem = 0
    BY <1>1, FS_EmptySet DEF TInv, PlanTargets, Holding
  <2>2. Holding' = {}
    BY <1>1 DEF PlanTargets, Holding
  <2> QED
    BY <1>1, <1>k, <2>1, <2>2 DEF PlanTargets
<1>2. CASE PlanFails \/ Report
  BY <1>2, <1>k DEF PlanFails, Report, Holding
<1>3. ASSUME NEW i \in DOMAIN task, Step(i)
      PROVE  TInv'
  <2>1. DOMAIN task' = DOMAIN task /\ \A j \in DOMAIN task \ {i} : task'[j] = task[j]
    BY <1>3 DEF Step, Acquire, Connect, Verify, Inspected, Skip
  <2>2. UNCHANGED <<flags, pc>> /\ pc # "plan"
    BY <1>3 DEF TInv, Step, Acquire, Connect, Verify, Inspected, Skip
  <2>3. CASE Acquire(i)
    <3>1. i \notin Holding /\ Holding' = Holding \cup {i} /\ sem' = sem + 1 /\ sem < Workers
      BY <2>1, <2>3 DEF Acquire, Holding
    <3>2. IsFiniteSet(Holding') /\ Cardinality(Holding') = Cardinality(Holding) + 1
      BY <3>1, FS_AddElement DEF TInv
    <3> QED
      BY <1>0, <2>2, <3>1, <3>2 DEF TInv, Workers
  <2>4. CASE Connect(i) \/ Verify(i)
    <3>1. task[i] \in {"connect", "verify"} /\ task'[i] \in {"verify", "collect"} /\ UNCHANGED sem
      BY <2>4 DEF Connect, Verify
    <3>2. Holding' = Holding
      BY <2>1, <3>1 DEF Holding
    <3> QED
      BY <1>k, <2>2, <3>1, <3>2
  <2>5. CASE Inspected(i) \/ Skip(i)
    <3>1. i \in Holding /\ Holding' = Holding \ {i} /\ sem' = sem - 1
      BY <2>1, <2>5 DEF Inspected, Skip, Holding
    <3>2. IsFiniteSet(Holding') /\ Cardinality(Holding') = Cardinality(Holding) - 1
      BY <3>1, FS_RemoveElement DEF TInv
    <3>3. sem' \in Nat
      BY <3>1, <3>2, FS_CardinalityType DEF TInv
    <3> QED
      BY <1>0, <2>2, <3>1, <3>2, <3>3 DEF TInv, Workers
  <2> QED
    BY <1>3, <2>3, <2>4, <2>5 DEF Step
<1>4. CASE UNCHANGED vars
  BY <1>4, <1>k DEF vars, Holding
<1> QED
  BY <1>1, <1>2, <1>3, <1>4 DEF Next

(* No early return keeps its token: the goroutines at work are those that   *)
(* hold one, at most --parallel of them, and one that waits while none is   *)
(* at work can go on (the safety half of RunEnds).                          *)
THEOREM NoTokenLost == Spec => []TokensAreHeld
<1>1. TInv => TokensAreHeld
  BY FS_EmptySet DEF TInv, TokensAreHeld, Workers
<1> QED
  BY <1>1, TInvInit, TInvNext, PTL DEF Spec
-----------------------------------------------------------------------------
(* A plan numbers its targets member by member, database by database.       *)
LEMMA ColumnAndRow ==
  ASSUME NEW n \in Nat \ {0}, NEW a \in Nat
  PROVE  /\ a \div n \in Int /\ a % n \in 0 .. n - 1
         /\ a = n * (a \div n) + (a % n)
  OBVIOUS

(* A row ends before the next begins.                                       *)
LEMMA RowsAreOrdered ==
  ASSUME NEW n \in Nat \ {0}, NEW a \in Nat, NEW b \in Nat, a <= b
  PROVE  a \div n <= b \div n
<1> DEFINE p == a \div n
           q == b \div n
<1>1. /\ p \in Int /\ a % n \in 0 .. n - 1 /\ a = n * p + (a % n)
      /\ q \in Int /\ b % n \in 0 .. n - 1 /\ b = n * q + (b % n)
  BY ColumnAndRow
<1> HIDE DEF p, q
<1> SUFFICES ASSUME q < p
             PROVE  FALSE
  BY <1>1 DEF p, q
<1>2. PICK d \in Nat : p = q + 1 + d
  <2>1. p - q - 1 \in Nat /\ p = q + 1 + (p - q - 1)
    BY <1>1
  <2> QED
    BY <2>1
<1>3. n * p = n * q + n + n * d /\ n * d \in Nat
  BY <1>1, <1>2
<1> QED
  BY <1>1, <1>3

(* The k-th of targets laid out in rows of n.                               *)
Row(n, k) == (k - 1) \div n
Column(n, k) == (k - 1) % n
Cell(instances, dbs, k) ==
    [member |-> instances[Row(Len(dbs), k) + 1], db |-> dbs[Column(Len(dbs), k) + 1]]

LEMMA RowAndColumn ==
  ASSUME NEW m \in Nat, NEW n \in Nat \ {0}, NEW k \in 1 .. m * n
  PROVE  /\ Row(n, k) + 1 \in 1 .. m /\ Column(n, k) + 1 \in 1 .. n
         /\ Row(n, k) \in Int /\ Column(n, k) \in Int
         /\ k \in Nat \ {0} /\ k - 1 = n * Row(n, k) + Column(n, k)
<1>1. k \in Nat \ {0} /\ k - 1 \in Nat
  OBVIOUS
<1> QED
  BY <1>1, RowOf, ColumnAndRow DEF Row, Column

LEMMA RowsFollow ==
  ASSUME NEW n \in Nat \ {0}, NEW j \in Nat \ {0}, NEW k \in Nat \ {0}, j <= k
  PROVE  Row(n, j) <= Row(n, k)
<1>1. j - 1 \in Nat /\ k - 1 \in Nat /\ j - 1 <= k - 1
  OBVIOUS
<1> QED
  BY <1>1, RowsAreOrdered DEF Row

LEMMA PlanOfMembers ==
  ASSUME NEW dbs \in {Databases, <<Home>>}
  PROVE  /\ Len(dbs) \in Nat \ {0} /\ Len(Members) \in Nat \ {0}
         /\ DOMAIN dbs = 1 .. Len(dbs) /\ DOMAIN Members = 1 .. Len(Members)
         /\ \A a, b \in DOMAIN dbs : dbs[a] = dbs[b] => a = b
         /\ DOMAIN ComposeTargets(Members, dbs) = 1 .. Len(Members) * Len(dbs)
         /\ \A k \in 1 .. Len(Members) * Len(dbs) : ComposeTargets(Members, dbs)[k] = Cell(Members, dbs, k)
<1>0. ASSUME NEW S, NEW s \in Seq(S), s # <<>>
      PROVE  Len(s) \in Nat \ {0} /\ DOMAIN s = 1 .. Len(s)
  BY <1>0, EmptySeq, LenProperties
<1>1. Len(Members) \in Nat \ {0} /\ DOMAIN Members = 1 .. Len(Members)
  BY <1>0, FanOutAssumption
<1>2. /\ Len(dbs) \in Nat \ {0} /\ DOMAIN dbs = 1 .. Len(dbs)
      /\ \A a, b \in DOMAIN dbs : dbs[a] = dbs[b] => a = b
  <2>1. CASE dbs = Databases
    BY <1>0, <2>1, FanOutAssumption DEF IsInjective
  <2>2. CASE dbs = <<Home>>
    BY <2>2
  <2> QED
    BY <2>1, <2>2
<1>3. ComposeTargets(Members, dbs) = [k \in 1 .. Len(Members) * Len(dbs) |-> Cell(Members, dbs, k)]
  BY FanOutAssumption DEF ComposeTargets, Cell, Row, Column
<1> QED
  BY <1>1, <1>2, <1>3

(* No two targets of a plan are the same database of the same server; the   *)
(* targets of one server follow one another; and either every target is a   *)
(* member of the cluster or none is.                                        *)
PlanIsSound(ts) ==
    /\ \A i, j \in DOMAIN ts : i # j => ts[i].member # ts[j].member \/ ts[i].db # ts[j].db
    /\ \A i, j, k \in DOMAIN ts :
          i < j /\ j < k /\ ts[i].member = ts[k].member => ts[j].member = ts[i].member
    /\ \A i, j \in DOMAIN ts : ts[i].member = NoMember => ts[j].member = NoMember
    /\ DOMAIN ts \subseteq Nat

LEMMA ComposedIsSound ==
  ASSUME NEW instances \in {Members, <<>>}, NEW dbs \in {Databases, <<Home>>}
  PROVE  PlanIsSound(ComposeTargets(instances, dbs))
<1> DEFINE ts == ComposeTargets(instances, dbs)
           n == Len(dbs)
<1>1. CASE instances = <<>>
  <2>1. ts = [i \in 1 .. n |-> [member |-> NoMember, db |-> dbs[i]]]
    BY <1>1 DEF ComposeTargets
  <2>2. n \in Nat /\ DOMAIN dbs = 1 .. n /\ \A a, b \in DOMAIN dbs : dbs[a] = dbs[b] => a = b
    BY PlanOfMembers
  <2> HIDE DEF ts, n
  <2>3. \A i \in DOMAIN ts : i \in 1 .. n /\ ts[i].member = NoMember /\ ts[i].db = dbs[i]
    BY <2>1
  <2>4. PlanIsSound(ts)
    BY <2>2, <2>3 DEF PlanIsSound
  <2> QED
    BY <2>4 DEF ts
<1>2. CASE instances = Members
  <2>1. /\ n \in Nat \ {0} /\ Len(Members) \in Nat \ {0}
        /\ DOMAIN dbs = 1 .. n /\ DOMAIN Members = 1 .. Len(Members)
        /\ \A a, b \in DOMAIN dbs : dbs[a] = dbs[b] => a = b
        /\ DOMAIN ts = 1 .. Len(Members) * n
        /\ \A k \in DOMAIN ts : ts[k] = Cell(Members, dbs, k)
    BY <1>2, PlanOfMembers
  <2>2. \A a, b \in DOMAIN Members : Members[a] = Members[b] => a = b
    BY FanOutAssumption DEF IsInjective
  <2>3. \A k \in DOMAIN ts : /\ ts[k].member = Members[Row(n, k) + 1]
                             /\ ts[k].db = dbs[Column(n, k) + 1]
    BY <2>1 DEF Cell
  <2> HIDE DEF ts, n
  <2>4. \A k \in DOMAIN ts :
           /\ Row(n, k) + 1 \in DOMAIN Members /\ Column(n, k) + 1 \in DOMAIN dbs
           /\ Row(n, k) \in Int /\ Column(n, k) \in Int
           /\ k \in Nat \ {0} /\ k - 1 = n * Row(n, k) + Column(n, k)
    BY <2>1, RowAndColumn
  <2>5. \A i, j \in DOMAIN ts : i <= j => Row(n, i) <= Row(n, j)
    BY <2>1, <2>4, RowsFollow
  <2>6. \A i, j \in DOMAIN ts :
           /\ ts[i].member = ts[j].member => Row(n, i) = Row(n, j)
           /\ ts[i].db = ts[j].db => Column(n, i) = Column(n, j)
    <3> SUFFICES ASSUME NEW i \in DOMAIN ts, NEW j \in DOMAIN ts
                 PROVE  /\ ts[i].member = ts[j].member => Row(n, i) = Row(n, j)
                        /\ ts[i].db = ts[j].db => Column(n, i) = Column(n, j)
      OBVIOUS
    <3>1. ts[i].member = ts[j].member => Row(n, i) + 1 = Row(n, j) + 1
      BY <2>2, <2>3, <2>4
    <3>2. ts[i].db = ts[j].db => Column(n, i) + 1 = Column(n, j) + 1
      BY <2>1, <2>3, <2>4
    <3> QED
      BY <2>4, <3>1, <3>2
  <2>7. \A k \in DOMAIN ts : ts[k].member # NoMember
    <3>1. \A m \in DOMAIN Members : Members[m] # NoMember
      BY FanOutAssumption DEF Range
    <3> QED
      BY <2>3, <2>4, <3>1
  <2>9. ASSUME NEW i \in DOMAIN ts, NEW j \in DOMAIN ts, i # j
        PROVE  ts[i].member # ts[j].member \/ ts[i].db # ts[j].db
    <3>1. Row(n, i) = Row(n, j) /\ Column(n, i) = Column(n, j) => i - 1 = j - 1
      BY <2>4
    <3>2. i \in Nat /\ j \in Nat
      BY <2>4
    <3> QED
      BY <2>6, <2>9, <3>1, <3>2
  <2>10. ASSUME NEW i \in DOMAIN ts, NEW j \in DOMAIN ts, NEW k \in DOMAIN ts,
                i < j, j < k, ts[i].member = ts[k].member
         PROVE  ts[j].member = ts[i].member
    <3>1. i \in Nat /\ j \in Nat /\ k \in Nat
      BY <2>4
    <3>2. Row(n, i) = Row(n, k) /\ Row(n, i) <= Row(n, j) /\ Row(n, j) <= Row(n, k)
      BY <2>5, <2>6, <2>10, <3>1
    <3>3. Row(n, i) = Row(n, j)
      BY <2>4, <3>2
    <3> QED
      BY <2>3, <3>3
  <2>11. PlanIsSound(ts)
    BY <2>4, <2>7, <2>9, <2>10 DEF PlanIsSound
  <2> QED
    BY <2>11 DEF ts
<1> QED
  BY <1>1, <1>2
-----------------------------------------------------------------------------
(* An earlier finding of the ID of finding j of context i, on its server.   *)
SeenBefore(cs, i, j) ==
    \E a \in DOMAIN cs : \E b \in DOMAIN cs[a].findings :
        /\ (a < i \/ (a = i /\ b < j))
        /\ cs[a].member = cs[i].member
        /\ cs[a].findings[b].id = cs[i].findings[j].id
Stays(cs, i, j) == cs[i].findings[j].id \in ClusterWide => ~SeenBefore(cs, i, j)

LEMMA DedupeKeeps ==
  ASSUME NEW cs, NEW i \in DOMAIN cs, cs[i] \in Context
  PROVE  Dedupe(cs)[i].findings =
           [j \in {j \in DOMAIN cs[i].findings : Stays(cs, i, j)} |->
              [cs[i].findings[j] EXCEPT !.scoped = (cs[i].findings[j].id \in ClusterWide)]]
  BY DEF Dedupe, SeenBefore, Stays, Context

LEMMA DedupeNames ==
  ASSUME NEW cs, NEW i \in DOMAIN cs, cs[i] \in Context
  PROVE  /\ Dedupe(cs)[i].member = cs[i].member /\ Dedupe(cs)[i].db = cs[i].db
         /\ Dedupe(cs)[i].fp = cs[i].fp
  BY DEF Dedupe, Context

LEMMA DedupeDomain == \A cs : DOMAIN Dedupe(cs) = DOMAIN cs
  BY DEF Dedupe

(* What a collected context holds.                                          *)
LEMMA FindingsOf ==
  ASSUME NEW c \in Context
  PROVE  /\ DOMAIN c.findings \subseteq Nat
         /\ \A j \in DOMAIN c.findings : c.findings[j] \in Finding
<1>1. c.findings \in Reports
  BY DEF Context
<1>2. c.findings \in Seq(Range(c.findings)) /\ Range(c.findings) \subseteq Finding
  BY <1>1, FanOutAssumption
<1>3. DOMAIN c.findings = 1 .. Len(c.findings) /\ Len(c.findings) \in Nat
  BY <1>2, LenProperties
<1> QED
  BY <1>2, <1>3 DEF Range

(* The naturals are well ordered.                                           *)
Below == {p \in Nat \X Nat : p[1] < p[2]}

LEMMA LeastNatural ==
  ASSUME NEW T \in SUBSET Nat, T # {}
  PROVE  \E m \in T : \A n \in T : m <= n
<1>1. IsWellFoundedOn(Below, Nat)
  BY NatLessThanWellFounded, Zenon DEF OpToRel, Below
<1>2. PICK m \in T : \A n \in T : ~ (<<n, m>> \in Below)
  BY <1>1, WFMin, Zenon
<1>3. \A n \in T : ~ (n < m)
  BY <1>2 DEF Below
<1> QED
  BY <1>3, SMT

(* A finding of the deduplicated contexts is one that was found, marked as  *)
(* its source is.                                                           *)
LEMMA DedupedFinding ==
  ASSUME NEW cs, NEW i \in DOMAIN cs, cs[i] \in Context, NEW j \in DOMAIN Dedupe(cs)[i].findings
  PROVE  /\ j \in DOMAIN cs[i].findings /\ Stays(cs, i, j)
         /\ Dedupe(cs)[i].findings[j].id = cs[i].findings[j].id
         /\ Dedupe(cs)[i].findings[j].scoped = (cs[i].findings[j].id \in ClusterWide)
<1>0. Dedupe(cs)[i].findings =
        [n \in {n \in DOMAIN cs[i].findings : Stays(cs, i, n)} |->
           [cs[i].findings[n] EXCEPT !.scoped = (cs[i].findings[n].id \in ClusterWide)]]
  BY DedupeKeeps
<1>1. j \in DOMAIN cs[i].findings /\ Stays(cs, i, j)
  BY <1>0
<1>2. cs[i].findings[j] \in Finding
  BY <1>1, FindingsOf
<1>3. Dedupe(cs)[i].findings[j] = [cs[i].findings[j] EXCEPT !.scoped = (cs[i].findings[j].id \in ClusterWide)]
  BY <1>0, <1>1
<1> QED
  BY <1>1, <1>2, <1>3 DEF Finding

(* Two findings of one server that stay and have one cluster-wide ID are    *)
(* in one context, and the same finding of it.                              *)
LEMMA OneStays ==
  ASSUME NEW cs, DOMAIN cs \subseteq Nat,
         NEW i \in DOMAIN cs, NEW m \in DOMAIN cs, cs[i] \in Context, cs[m] \in Context,
         cs[i].member = cs[m].member,
         NEW j \in DOMAIN cs[i].findings, NEW n \in DOMAIN cs[m].findings,
         cs[i].findings[j].id = cs[m].findings[n].id, cs[i].findings[j].id \in ClusterWide,
         Stays(cs, i, j), Stays(cs, m, n)
  PROVE  i = m
<1>1. ~(i < m) /\ ~(m < i)
  BY DEF Stays, SeenBefore
<1> QED
  BY <1>1

(* The first finding of a server with a given ID stays.                     *)
LEMMA FirstStays ==
  ASSUME NEW cs, DOMAIN cs \subseteq Nat, \A i \in DOMAIN cs : cs[i] \in Context,
         NEW member, NEW id,
         \E i \in DOMAIN cs : cs[i].member = member /\ Carries(cs[i], id)
  PROVE  \E i \in DOMAIN cs : \E j \in DOMAIN cs[i].findings :
            cs[i].member = member /\ cs[i].findings[j].id = id /\ Stays(cs, i, j)
<1> DEFINE T == {i \in DOMAIN cs : cs[i].member = member /\ Carries(cs[i], id)}
<1>1. PICK i \in T : \A a \in T : i <= a
  <2>1. T \in SUBSET Nat /\ T # {}
    OBVIOUS
  <2> HIDE DEF T
  <2> QED
    BY <2>1, LeastNatural
<1>2. i \in DOMAIN cs /\ i \in Nat /\ cs[i] \in Context /\ cs[i].member = member /\ Carries(cs[i], id)
  OBVIOUS
<1> DEFINE U == {j \in DOMAIN cs[i].findings : cs[i].findings[j].id = id}
<1>3. PICK j \in U : \A b \in U : j <= b
  <2>1. U \in SUBSET Nat
    BY <1>2, FindingsOf
  <2>2. U # {}
    BY <1>2 DEF Carries, Range
  <2> HIDE DEF U
  <2> QED
    BY <2>1, <2>2, LeastNatural
<1>4. ASSUME SeenBefore(cs, i, j)
      PROVE  FALSE
  <2>0. PICK a \in DOMAIN cs : \E b \in DOMAIN cs[a].findings :
           /\ (a < i \/ (a = i /\ b < j))
           /\ cs[a].member = member /\ cs[a].findings[b].id = id
    BY <1>2, <1>3, <1>4 DEF SeenBefore
  <2>1. PICK b \in DOMAIN cs[a].findings :
           /\ (a < i \/ (a = i /\ b < j))
           /\ cs[a].member = member /\ cs[a].findings[b].id = id
    BY <2>0
  <2>2. a \in T
    BY <2>1 DEF Carries, Range
  <2>3. a = i
    BY <1>1, <1>2, <2>1, <2>2
  <2>4. b \in U /\ b < j /\ b \in Nat /\ j \in Nat
    BY <1>2, <1>3, <2>1, <2>3, FindingsOf
  <2> QED
    BY <1>3, <2>4
<1> QED
  BY <1>2, <1>3, <1>4 DEF Stays
-----------------------------------------------------------------------------
(* The plan is sound, a context is filed as its target, and what is output  *)
(* is what was collected, deduplicated.                                     *)
Filled ==
    \A i \in DOMAIN contexts : contexts[i] # None =>
        /\ contexts[i] \in Context
        /\ contexts[i].member = targets[i].member /\ contexts[i].db = targets[i].db
Rendered == out = <<>> \/ (pc = "exited" /\ out = Dedupe(Got))
OInv == CInv /\ PlanIsSound(targets) /\ Filled /\ Rendered

LEMMA OInvInit == Init => OInv
  BY CInvInit DEF Init, OInv, PlanIsSound, Filled, Rendered

LEMMA OInvStep ==
  ASSUME OInv, NEW i \in DOMAIN task, Step(i)
  PROVE  PlanIsSound(targets)' /\ Filled' /\ Rendered'
<1>1. task[i] # "ended" /\ pc # "exited" /\ UNCHANGED <<pc, targets, out>>
  BY DEF OInv, CInv, Over, Step, Acquire, Connect, Verify, Inspected, Skip
<1>2. Rendered' /\ PlanIsSound(targets)'
  BY <1>1 DEF OInv, Rendered
<1>3. CASE Acquire(i) \/ Connect(i) \/ Verify(i) \/ Skip(i)
  <2>1. UNCHANGED contexts
    BY <1>3 DEF Acquire, Connect, Verify, Skip
  <2> QED
    BY <1>1, <1>2, <2>1 DEF OInv, Filled
<1>4. CASE Inspected(i)
  <2>1. PICK findings \in Reports :
           contexts' = [contexts EXCEPT ![i] =
              [member |-> targets[i].member, db |-> targets[i].db, findings |-> findings,
               fp |-> Fingerprint(targets[i].member, targets[i].db)]]
    BY <1>4 DEF Inspected
  <2>2. targets[i] \in Target
    BY DEF OInv, CInv, Aligned, Planned
  <2> DEFINE c == [member |-> targets[i].member, db |-> targets[i].db, findings |-> findings,
                   fp |-> Fingerprint(targets[i].member, targets[i].db)]
  <2>3. c \in Context /\ c.member = targets[i].member /\ c.db = targets[i].db
    BY <2>2 DEF Target, Context, Fingerprint
  <2> HIDE DEF c
  <2>4. /\ DOMAIN contexts' = DOMAIN contexts /\ contexts'[i] = c
        /\ \A j \in DOMAIN contexts \ {i} : contexts'[j] = contexts[j]
    BY <2>1 DEF OInv, CInv, Aligned, c
  <2>5. Filled'
    BY <1>1, <2>3, <2>4 DEF OInv, Filled
  <2> QED
    BY <1>2, <2>5
<1> QED
  BY <1>3, <1>4 DEF Step

LEMMA OInvNext == OInv /\ [Next]_vars => OInv'
<1> SUFFICES ASSUME OInv, [Next]_vars
             PROVE  PlanIsSound(targets)' /\ Filled' /\ Rendered'
  BY CInvNext DEF OInv
<1>1. CASE PlanTargets
  <2>1. /\ targets' = ComposeTargets(IF flags.allInstances THEN Members ELSE <<>>,
                                     IF flags.allDatabases THEN Databases ELSE <<Home>>)
        /\ contexts' = [i \in DOMAIN targets' |-> None]
        /\ pc = "plan" /\ UNCHANGED out
    BY <1>1 DEF PlanTargets
  <2>2. PlanIsSound(targets)'
    BY <2>1, ComposedIsSound DEF PlanIsSound
  <2>3. out = <<>>
    BY <2>1 DEF OInv, Rendered
  <2> QED
    BY <2>1, <2>2, <2>3 DEF Filled, Rendered
<1>2. CASE PlanFails
  BY <1>2 DEF PlanFails, OInv, PlanIsSound, Filled, Rendered
<1>3. CASE Report
  <2>1. UNCHANGED <<targets, contexts>> /\ pc = "run" /\ pc' = "exited" /\ out' \in {out, Dedupe(Got)}
    BY <1>3 DEF Report
  <2>2. Got' = Got /\ out = <<>>
    BY <2>1 DEF Got, OInv, Rendered
  <2>3. Rendered'
    <3>1. CASE out' = out
      BY <2>2, <3>1 DEF Rendered
    <3>2. CASE out' = Dedupe(Got)
      BY <2>1, <2>2, <3>2 DEF Rendered
    <3> QED
      BY <2>1, <3>1, <3>2
  <2> QED
    BY <2>1, <2>3 DEF OInv, PlanIsSound, Filled
<1>4. CASE UNCHANGED vars
  BY <1>4 DEF vars, OInv, PlanIsSound, Filled, Rendered, Got
<1> QED
  BY <1>1, <1>2, <1>3, <1>4, OInvStep DEF Next

(* The contexts that are output, in terms of those collected.               *)
LEMMA OutputIsGot ==
  ASSUME OInv, out # <<>>
  PROVE  /\ out = Dedupe(Got) /\ DOMAIN out = DOMAIN Got
         /\ DOMAIN Got = {i \in DOMAIN contexts : contexts[i] # None}
         /\ DOMAIN Got \subseteq Nat /\ DOMAIN Got \subseteq DOMAIN targets
         /\ \A i \in DOMAIN Got :
              /\ Got[i] = contexts[i] /\ Got[i] \in Context
              /\ Got[i].member = targets[i].member /\ Got[i].db = targets[i].db
              /\ out[i].member = Got[i].member /\ out[i].db = Got[i].db /\ out[i].fp = Got[i].fp
<1>1. out = Dedupe(Got) /\ DOMAIN out = DOMAIN Got
  BY DedupeDomain DEF OInv, Rendered
<1>2. /\ DOMAIN Got = {i \in DOMAIN contexts : contexts[i] # None}
      /\ \A i \in DOMAIN Got : Got[i] = contexts[i]
  BY DEF Got, Restrict
<1>3. DOMAIN Got \subseteq Nat /\ DOMAIN Got \subseteq DOMAIN targets
  BY <1>2 DEF OInv, CInv, Aligned, PlanIsSound
<1>4. \A i \in DOMAIN Got : /\ Got[i] \in Context
                            /\ Got[i].member = targets[i].member /\ Got[i].db = targets[i].db
  BY <1>2 DEF OInv, Filled
<1>5. ASSUME NEW i \in DOMAIN Got
      PROVE  out[i].member = Got[i].member /\ out[i].db = Got[i].db /\ out[i].fp = Got[i].fp
  <2>1. Got[i] \in Context
    BY <1>4
  <2>2. /\ Dedupe(Got)[i].member = Got[i].member /\ Dedupe(Got)[i].db = Got[i].db
        /\ Dedupe(Got)[i].fp = Got[i].fp
    BY <2>1, DedupeNames
  <2> QED
    BY <1>1, <2>2
<1> QED
  BY <1>1, <1>2, <1>3, <1>4, <1>5

LEMMA InOrder == ASSUME OInv PROVE ServersInOrder
<1>1. CASE out = <<>>
  BY <1>1 DEF ServersInOrder
<1>2. CASE out # <<>>
  <2>1. \A i \in DOMAIN out : i \in DOMAIN targets /\ out[i].member = targets[i].member
    BY <1>2, OutputIsGot
  <2> QED
    BY <2>1 DEF OInv, PlanIsSound, ServersInOrder
<1> QED
  BY <1>1, <1>2

(* A finding that is output was found, and stayed.                          *)
LEMMA OutputFinding ==
  ASSUME OInv, out # <<>>, NEW i \in DOMAIN out, NEW j \in DOMAIN out[i].findings
  PROVE  /\ j \in DOMAIN Got[i].findings /\ Stays(Got, i, j)
         /\ out[i].findings[j].id = Got[i].findings[j].id
         /\ out[i].findings[j].scoped = (out[i].findings[j].id \in ClusterWide)
<1>1. out = Dedupe(Got) /\ i \in DOMAIN Got /\ Got[i] \in Context
  BY OutputIsGot
<1>2. j \in DOMAIN Dedupe(Got)[i].findings
  BY <1>1
<1> QED
  BY <1>1, <1>2, DedupedFinding

(* Of two contexts of a server only one outputs a cluster-wide finding.     *)
LEMMA OutputOnce ==
  ASSUME OInv, out # <<>>, NEW i \in DOMAIN out, NEW m \in DOMAIN out,
         out[i].member = out[m].member,
         NEW j \in DOMAIN out[i].findings, NEW n \in DOMAIN out[m].findings,
         out[i].findings[j].id = out[m].findings[n].id, out[i].findings[j].id \in ClusterWide
  PROVE  i = m
<1>1. /\ i \in DOMAIN Got /\ m \in DOMAIN Got /\ DOMAIN Got \subseteq Nat
      /\ Got[i] \in Context /\ Got[m] \in Context /\ Got[i].member = Got[m].member
  BY OutputIsGot
<1>2. /\ j \in DOMAIN Got[i].findings /\ Stays(Got, i, j)
      /\ out[i].findings[j].id = Got[i].findings[j].id
  BY OutputFinding
<1>3. /\ n \in DOMAIN Got[m].findings /\ Stays(Got, m, n)
      /\ out[m].findings[n].id = Got[m].findings[n].id
  BY OutputFinding
<1> QED
  BY <1>1, <1>2, <1>3, OneStays

LEMMA OnceEach == ASSUME OInv PROVE ClusterWideOnce
<1> SUFFICES ASSUME out # <<>>, NEW i \in DOMAIN contexts, contexts[i] # None,
                    NEW id \in ClusterWide, Carries(contexts[i], id)
             PROVE  \E n \in DOMAIN out :
                       /\ out[n].member = contexts[i].member /\ Carries(out[n], id)
                       /\ \A m \in DOMAIN out \ {n} :
                             out[m].member = out[n].member => ~Carries(out[m], id)
  BY DEF ClusterWideOnce
<1>1. /\ out = Dedupe(Got) /\ DOMAIN out = DOMAIN Got /\ DOMAIN Got \subseteq Nat
      /\ \A a \in DOMAIN Got : Got[a] \in Context /\ out[a].member = Got[a].member
      /\ i \in DOMAIN Got /\ Got[i] = contexts[i]
  BY OutputIsGot
<1>2. PICK n \in DOMAIN Got : \E j \in DOMAIN Got[n].findings :
         Got[n].member = contexts[i].member /\ Got[n].findings[j].id = id /\ Stays(Got, n, j)
  <2>1. \A a \in DOMAIN Got : Got[a] \in Context
    BY <1>1
  <2>2. \E a \in DOMAIN Got : Got[a].member = contexts[i].member /\ Carries(Got[a], id)
    BY <1>1
  <2> QED
    BY <1>1, <2>1, <2>2, FirstStays
<1>3. PICK j \in DOMAIN Got[n].findings :
         Got[n].member = contexts[i].member /\ Got[n].findings[j].id = id /\ Stays(Got, n, j)
  BY <1>2
<1>4. Dedupe(Got)[n].findings =
        [k \in {k \in DOMAIN Got[n].findings : Stays(Got, n, k)} |->
           [Got[n].findings[k] EXCEPT !.scoped = (Got[n].findings[k].id \in ClusterWide)]]
  BY <1>1, DedupeKeeps
<1>5. j \in DOMAIN out[n].findings
  BY <1>1, <1>3, <1>4
<1>6. out[n].findings[j].id = id
  BY <1>1, <1>3, <1>5, OutputFinding
<1>7. Carries(out[n], id)
  BY <1>5, <1>6 DEF Carries, Range
<1>8. ASSUME NEW m \in DOMAIN out \ {n}, out[m].member = out[n].member, Carries(out[m], id)
      PROVE  FALSE
  <2>1. PICK k \in DOMAIN out[m].findings : out[m].findings[k].id = id
    BY <1>8 DEF Carries, Range
  <2> QED
    BY <1>1, <1>5, <1>6, <1>8, <2>1, OutputOnce
<1> QED
  BY <1>1, <1>3, <1>7, <1>8

LEMMA LocalKept == ASSUME OInv PROVE PerDatabaseKept
<1> DEFINE Local(c) == Restrict(c.findings, {j \in DOMAIN c.findings : c.findings[j].id \notin ClusterWide})
<1> SUFFICES ASSUME out # <<>>
             PROVE  /\ DOMAIN out = DOMAIN Got
                    /\ \A i \in DOMAIN out :
                          /\ out[i].member = targets[i].member /\ out[i].db = targets[i].db
                          /\ out[i].fp = Got[i].fp /\ Local(out[i]) = Local(Got[i])
  BY DEF PerDatabaseKept
<1>1. ASSUME NEW i \in DOMAIN out
      PROVE  Local(out[i]) = Local(Got[i])
  <2>1. out = Dedupe(Got) /\ i \in DOMAIN Got /\ Got[i] \in Context
    BY OutputIsGot
  <2> DEFINE fs == Got[i].findings
             kept == out[i].findings
  <2>2. kept = [k \in {k \in DOMAIN fs : Stays(Got, i, k)} |->
                  [fs[k] EXCEPT !.scoped = (fs[k].id \in ClusterWide)]]
    BY <2>1, DedupeKeeps
  <2>3. \A k \in DOMAIN fs : fs[k] \in Finding /\ (fs[k].id \notin ClusterWide => Stays(Got, i, k))
    BY <2>1, FindingsOf DEF Stays
  <2> HIDE DEF fs, kept
  <2>4. \A k \in DOMAIN kept : kept[k].id = fs[k].id
    BY <2>2, <2>3 DEF Finding
  <2>5. \A k \in DOMAIN fs : fs[k].id \notin ClusterWide => k \in DOMAIN kept /\ kept[k] = fs[k]
    <3> SUFFICES ASSUME NEW k \in DOMAIN fs, fs[k].id \notin ClusterWide
                 PROVE  k \in DOMAIN kept /\ kept[k] = fs[k]
      OBVIOUS
    <3>1. k \in DOMAIN kept /\ kept[k] = [fs[k] EXCEPT !.scoped = (fs[k].id \in ClusterWide)]
      BY <2>2, <2>3
    <3>2. fs[k] \in Finding /\ (fs[k].id \in ClusterWide) = FALSE
      BY <2>3
    <3>3. [fs[k] EXCEPT !.scoped = FALSE] = fs[k]
      BY <3>2 DEF Finding
    <3> QED
      BY <3>1, <3>2, <3>3
  <2>6. {j \in DOMAIN kept : kept[j].id \notin ClusterWide} = {j \in DOMAIN fs : fs[j].id \notin ClusterWide}
    BY <2>2, <2>4, <2>5
  <2>7. Restrict(kept, {j \in DOMAIN kept : kept[j].id \notin ClusterWide})
          = Restrict(fs, {j \in DOMAIN fs : fs[j].id \notin ClusterWide})
    BY <2>5, <2>6 DEF Restrict
  <2> QED
    BY <2>7 DEF fs, kept
<1> HIDE DEF Local
<1> QED
  BY <1>1, OutputIsGot

LEMMA Distinct == ASSUME OInv PROVE EntriesDistinct
<1> SUFFICES ASSUME NEW i \in DOMAIN out, NEW m \in DOMAIN out, i # m,
                    NEW f \in Range(out[i].findings), NEW g \in Range(out[m].findings),
                    f.id = g.id, Tag(out[i], f) = Tag(out[m], g)
             PROVE  FALSE
  BY DEF EntriesDistinct
<1>1. out # <<>>
  OBVIOUS
<1>2. PICK j \in DOMAIN out[i].findings : f = out[i].findings[j]
  BY DEF Range
<1>3. PICK n \in DOMAIN out[m].findings : g = out[m].findings[n]
  BY DEF Range
<1>4. f.scoped = (f.id \in ClusterWide) /\ g.scoped = (g.id \in ClusterWide)
  BY <1>1, <1>2, <1>3, OutputFinding
<1>5. /\ i \in DOMAIN targets /\ out[i].member = targets[i].member /\ out[i].db = targets[i].db
      /\ m \in DOMAIN targets /\ out[m].member = targets[m].member /\ out[m].db = targets[m].db
  BY <1>1, OutputIsGot
<1>6. CASE f.id \notin ClusterWide
  <2>1. Tag(out[i], f) = <<out[i].member, out[i].db, f.object>>
        /\ Tag(out[m], g) = <<out[m].member, out[m].db, g.object>>
    BY <1>4, <1>6 DEF Tag
  <2>2. <<out[i].member, out[i].db, f.object>> = <<out[m].member, out[m].db, g.object>>
    BY <2>1
  <2>3. \A a, b, c, x, y, z : <<a, b, c>> = <<x, y, z>> => a = x /\ b = y
    OBVIOUS
  <2>4. out[i].member = out[m].member /\ out[i].db = out[m].db
    BY <2>2, <2>3, Zenon
  <2> QED
    BY <1>5, <2>4 DEF OInv, PlanIsSound
<1>7. CASE f.id \in ClusterWide
  <2>1. out[i].member = out[m].member
    <3>1. out[i].member = NoMember <=> out[m].member = NoMember
      BY <1>5 DEF OInv, PlanIsSound
    <3>2. CASE out[i].member # NoMember
      BY <1>4, <1>7, <3>1, <3>2 DEF Tag
    <3> QED
      BY <3>1, <3>2
  <2> QED
    BY <1>1, <1>2, <1>3, <1>7, <2>1, OutputOnce
<1> QED
  BY <1>6, <1>7

(* What is output is what was found, in plan order: a cluster-wide finding  *)
(* once per server, the others each on their database, and no two entries   *)
(* of the aggregate formats the same (runInspectAll, dedupeClusterWide).    *)
THEOREM OutputFollowsThePlan == Spec => []OutputIsExact
<1>1. OInv => OutputIsExact
  BY InOrder, OnceEach, LocalKept, Distinct DEF OutputIsExact
<1> QED
  BY <1>1, OInvInit, OInvNext, PTL DEF Spec
=============================================================================
