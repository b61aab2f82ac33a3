-------------------------- MODULE RunHistory_proofs --------------------------
(***************************************************************************)
(* What pgbot says of the past is right for any number of overlapping runs, *)
(* objects, definitions and changes, whatever the retention removes and     *)
(* whichever readings and calls fail.  Three things are kept: two views of  *)
(* the server, each read piece by piece, that differ in a piece have a      *)
(* change between them which one of the two runs had not seen when it       *)
(* connected; a fingerprint is filed under the snapshot of its own run; the *)
(* events a run has derived, and the baseline it has chosen, are sound when *)
(* chosen and stay so.                                                      *)
(***************************************************************************)
EXTENDS RunHistory, FiniteSetTheorems, WellFoundedInduction, TLAPS

Servers == [schema : Schemas, config : {0, 1}, reset : Times, start : Nat]
Context == [config : {0, 1, None}, reset : Times, start : Nat]
Snap == [id : Nat, seen : Nat, at : Nat, config : {0, 1, None}, reset : Times, start : Nat,
         schema : Schemas \cup {None}]
Dated(r) == r.pc \in {"readLast", "derive", "compare", "save"}
Started(r) == r.pc \in {"sample", "date"} \/ Dated(r)
RunRecord ==
    [pc : {"idle", "sample", "date", "readLast", "derive", "compare", "save", "saveSchema", "appendEvents"},
     todo : SUBSET Sections, seen : Nat, at : Nat, ctx : Context \cup {None}, schema : Schemas \cup {None},
     last : Snap \cup {None}, events : SUBSET Event, base : Snap \cup {None}, id : Nat]
Changes == [topic : Topics, at : Nat]

Types ==
    /\ clock \in Nat /\ nextId \in Nat
    /\ server \in Servers
    /\ snaps \subseteq Snap
    /\ stored \subseteq [id : Nat, schema : Schemas]
    /\ run \in [Runs -> RunRecord]
    /\ \A h \in Runs : Started(run[h]) => run[h].ctx \in Context
    /\ changes \in Seq(Changes)
    /\ \A i \in DOMAIN changes : changes[i].at <= clock

(* The snapshots that are stored or in the hands of a run.                  *)
Held == snaps \cup (({run[h].last : h \in Runs} \cup {run[h].base : h \in Runs}) \ {None})

(* What is known of the server, after which changes it was begun to be read *)
(* and when the reading ended: the snapshots, the runs that have not stored *)
(* theirs yet, and the server itself.                                       *)
View(s) == [seen |-> s.seen, end |-> s.at, config |-> s.config, reset |-> s.reset, start |-> s.start,
            schema |-> s.schema]
Seen(r) == [seen |-> r.seen, end |-> IF Dated(r) THEN r.at ELSE clock, config |-> r.ctx.config,
            reset |-> r.ctx.reset, start |-> r.ctx.start, schema |-> r.schema]
Now == [seen |-> Len(changes), end |-> clock, config |-> server.config, reset |-> server.reset,
        start |-> server.start, schema |-> server.schema]
Past == {View(s) : s \in Held} \cup {Seen(run[h]) : h \in {h \in Runs : Started(run[h])}}
Views == Past \cup {Now}

ChangedAt(topic, at) == \E i \in DOMAIN changes : changes[i].topic = topic /\ changes[i].at = at
(* A change one of two views need not show, made before the later ended.    *)
ChangedBetween(topic, v, w) ==
    \E i \in DOMAIN changes :
        /\ changes[i].topic = topic
        /\ i > v.seen \/ i > w.seen
        /\ changes[i].at <= v.end \/ changes[i].at <= w.end
Honest(v) ==
    /\ v.seen \in 0..Len(changes) /\ v.end <= clock /\ v.reset <= v.end /\ v.start <= v.end
    /\ v.reset # Never => ChangedAt("stats.reset", v.reset)
    /\ v.start # 0 => ChangedAt("server.restarted", v.start)
    /\ \A i \in 1..v.seen :
          /\ changes[i].topic = "stats.reset" /\ v.reset # Never => changes[i].at <= v.reset
          /\ changes[i].topic = "server.restarted" => changes[i].at <= v.start
Explained(v, w) ==
    /\ v.config # None /\ w.config # None /\ v.config # w.config => ChangedBetween("config", v, w)
    /\ v.schema # None /\ w.schema # None =>
          \A o \in Objects : v.schema[o] # w.schema[o] => ChangedBetween(o, v, w)
Witnessed ==
    /\ \A v \in Views : Honest(v)
    /\ \A v, w \in Views : Explained(v, w)

(* A reading that agrees with all the others.                               *)
Fits(v) == Honest(v) /\ \A w \in Views : Explained(v, w)

(* Ids come from the sequence, and a fingerprint, or the run about to store *)
(* one, has the schema of the snapshot of its id.                           *)
Filed ==
    /\ \A s \in Held : s.id < nextId
    /\ \A r \in stored : r.id < nextId
    /\ \A h \in Runs : run[h].pc = "saveSchema" => run[h].id < nextId
    /\ \A s \in Held : \A r \in stored : r.id = s.id => r.schema = s.schema
    /\ \A s \in Held : \A h \in Runs :
          run[h].pc = "saveSchema" /\ run[h].id = s.id => run[h].schema = s.schema

(* No statistics were lost between the baseline of a run and the run.       *)
Unbroken(r) ==
    \A i \in 1..r.seen : changes[i].topic \in Breaks(r) => changes[i].at <= r.base.at
Sound(r) ==
    /\ r.pc \in {"derive", "compare"} => r.last # None
    /\ r.last # None => Dated(r) /\ r.last.at <= r.at
    /\ r.base # None => Dated(r) /\ r.seen <= Len(changes) /\ Unbroken(r)
    /\ \A e \in r.events : e.exact => Happened(e)
Progress ==
    /\ \A h \in Runs : Sound(run[h])
    /\ ExactEventsHappened

IInv == Types /\ Witnessed /\ Filed /\ Progress
-----------------------------------------------------------------------------
LEMMA TypesInit == Init => Types
  BY DEF Init, Types, Idle, RunRecord, Times, Never, Started, Dated, Schemas, Event, Snap, Servers

(* What the topics of the events of a run and their times are.              *)
LEMMA DeriveType ==
  ASSUME NEW r \in RunRecord, r.ctx \in Context, r.last \in Snap, NEW prev, changes \in Seq(Changes)
  PROVE  Derive(r, prev) \subseteq Event
<1>0. /\ r.ctx.reset \in Times /\ r.ctx.start \in Nat /\ r.at \in Nat /\ r.last.at \in Nat
  BY DEF RunRecord, Context, Snap
<1>e. Early(r) \in SUBSET Nat /\ {} \in SUBSET Nat
  BY DEF Early
<1>t. ASSUME NEW topic \in Topics, NEW after \in Nat, NEW before \in Nat, NEW exact \in BOOLEAN,
             NEW early \in SUBSET Nat
      PROVE  [topic |-> topic, after |-> after, before |-> before, exact |-> exact, early |-> early] \in Event
  BY DEF Event
<1>1. ASSUME NEW e \in LifecycleEvents(r)
      PROVE  e \in Event
  <2>1. /\ e.after # Never
        /\ \/ e = [topic |-> "stats.reset", after |-> r.ctx.reset, before |-> r.ctx.reset,
                   exact |-> TRUE, early |-> {}]
           \/ e = [topic |-> "server.restarted", after |-> r.ctx.start, before |-> r.ctx.start,
                   exact |-> TRUE, early |-> {}]
    BY DEF LifecycleEvents
  <2>2. CASE e = [topic |-> "stats.reset", after |-> r.ctx.reset, before |-> r.ctx.reset,
                  exact |-> TRUE, early |-> {}]
    <3>1. r.ctx.reset \in Nat /\ "stats.reset" \in Topics
      BY <1>0, <2>1, <2>2 DEF Times, Topics
    <3> QED
      BY <1>e, <1>t, <2>2, <3>1
  <2>3. CASE e = [topic |-> "server.restarted", after |-> r.ctx.start, before |-> r.ctx.start,
                  exact |-> TRUE, early |-> {}]
    <3>1. "server.restarted" \in Topics
      BY DEF Topics
    <3> QED
      BY <1>0, <1>e, <1>t, <2>3, <3>1
  <2> QED
    BY <2>1, <2>2, <2>3
<1>2. ASSUME NEW e \in SchemaEvents(r, prev)
      PROVE  e \in Event
  <2>1. PICK o \in Objects :
           e = [topic |-> o, after |-> r.last.at, before |-> r.at, exact |-> prev.id = r.last.id,
                early |-> Early(r)]
    BY DEF SchemaEvents
  <2>2. o \in Topics /\ (prev.id = r.last.id) \in BOOLEAN
    BY DEF Topics
  <2> QED
    BY <1>0, <1>e, <1>t, <2>1, <2>2
<1>3. ASSUME NEW e \in ConfigEvents(r)
      PROVE  e \in Event
  <2>1. e = [topic |-> "config", after |-> r.last.at, before |-> r.at, exact |-> TRUE, early |-> Early(r)]
    BY DEF ConfigEvents
  <2>2. "config" \in Topics
    BY DEF Topics
  <2> QED
    BY <1>0, <1>e, <1>t, <2>1, <2>2
<1> QED
  BY <1>1, <1>2, <1>3 DEF Derive

(* The record of a run after each of its steps.                             *)
Connected ==
    [Idle EXCEPT !.pc = "sample", !.todo = Sections, !.seen = Len(changes),
                 !.ctx = [config |-> None, reset |-> Never, start |-> server.start]]
HasSettings(r, config) == [r EXCEPT !.todo = @ \ {"settings"}, !.ctx.config = config]
HasSchema(r, schema) == [r EXCEPT !.todo = @ \ {"schema"}, !.schema = schema]
HasHealth(r, reset) == [r EXCEPT !.ctx.reset = reset, !.pc = "date"]
HasDate(r) == [r EXCEPT !.at = clock, !.pc = "readLast"]
HasRead(r, last) == [r EXCEPT !.last = last, !.pc = IF last = None THEN "save" ELSE "derive"]
HasDerived(r, prev) ==
    [r EXCEPT !.events = Derive(r, prev),
              !.pc = IF StatsResetBetween(r.last, r.ctx) THEN "save" ELSE "compare"]
Chosen(r, aged) == Compute(r.ctx, IF aged = None THEN r.last ELSE aged)
HasCompared(r, aged) == [r EXCEPT !.base = Chosen(r, aged), !.last = None, !.pc = "save"]
Saved(r) == [id |-> NewId, seen |-> r.seen, at |-> r.at, config |-> r.ctx.config, reset |-> r.ctx.reset,
             start |-> r.ctx.start, schema |-> r.schema]
HasSaved(r) == [Idle EXCEPT !.pc = "saveSchema", !.id = NewId, !.schema = r.schema, !.events = r.events]
HasFiled(r) == [Idle EXCEPT !.pc = "appendEvents", !.events = r.events]
Becomes(h, r) == run' = [run EXCEPT ![h] = r]

LEMMA Steps ==
  ASSUME Types, NEW h \in Runs
  PROVE  /\ Connect(h) => Becomes(h, Connected)
         /\ \A s \in Sections : Sample(h, s) =>
               \/ \E config \in {server.config, None} : Becomes(h, HasSettings(run[h], config))
               \/ \E schema \in {server.schema, None} : Becomes(h, HasSchema(run[h], schema))
         /\ ReadHealth(h) => \E reset \in {server.reset, Never} : Becomes(h, HasHealth(run[h], reset))
         /\ DateRun(h) => Becomes(h, HasDate(run[h]))
         /\ ReadLast(h) => \E last \in Previous(run[h].at) \cup {None} : Becomes(h, HasRead(run[h], last))
         /\ DeriveEvents(h) => \E prev \in LatestSchema \cup {None} : Becomes(h, HasDerived(run[h], prev))
         /\ Compare(h) => \E aged \in Previous(run[h].at - MinAge) \cup {None} :
                             Becomes(h, HasCompared(run[h], aged))
         /\ Save(h) => \/ snaps' = snaps \cup {Saved(run[h])} /\ nextId' = nextId + 1 /\ Becomes(h, HasSaved(run[h]))
                       \/ UNCHANGED <<snaps, nextId>> /\ Becomes(h, Idle)
         /\ SaveSchema(h) => Becomes(h, HasFiled(run[h]))
         /\ AppendEvents(h) \/ Crash(h) => Becomes(h, Idle)
<1> USE DEF Types, Becomes
<1>1. Connect(h) => Becomes(h, Connected)
  BY DEF Connect, Connected
<1>a. ASSUME NEW s \in Sections, Sample(h, s)
      PROVE  \/ \E config \in {server.config, None} : Becomes(h, HasSettings(run[h], config))
             \/ \E schema \in {server.schema, None} : Becomes(h, HasSchema(run[h], schema))
  <2>1. CASE s = "settings"
    <3>1. PICK config \in {server.config, None} :
             run' = [run EXCEPT ![h] = [[run[h] EXCEPT !.todo = @ \ {s}] EXCEPT !.ctx.config = config]]
      BY <1>a, <2>1 DEF Sample
    <3>2. Becomes(h, HasSettings(run[h], config))
      BY <2>1, <3>1 DEF HasSettings, RunRecord
    <3> QED
      BY <3>2
  <2>2. CASE s = "schema"
    <3>1. PICK schema \in {server.schema, None} :
             run' = [run EXCEPT ![h] = [[run[h] EXCEPT !.todo = @ \ {s}] EXCEPT !.schema = schema]]
      BY <1>a, <2>2 DEF Sample
    <3>2. Becomes(h, HasSchema(run[h], schema))
      BY <2>2, <3>1 DEF HasSchema, RunRecord
    <3> QED
      BY <3>2
  <2> QED
    BY <2>1, <2>2 DEF Sections
<1>b. ReadHealth(h) => \E reset \in {server.reset, Never} : Becomes(h, HasHealth(run[h], reset))
  BY DEF ReadHealth, HasHealth
<1>c. DateRun(h) => Becomes(h, HasDate(run[h]))
  BY DEF DateRun, HasDate
<1>2. ReadLast(h) => \E last \in Previous(run[h].at) \cup {None} : Becomes(h, HasRead(run[h], last))
  BY DEF ReadLast, HasRead
<1>3. DeriveEvents(h) => \E prev \in LatestSchema \cup {None} : Becomes(h, HasDerived(run[h], prev))
  BY DEF DeriveEvents, HasDerived
<1>4. Compare(h) => \E aged \in Previous(run[h].at - MinAge) \cup {None} : Becomes(h, HasCompared(run[h], aged))
  BY DEF Compare, HasCompared, Chosen
<1>5. Save(h) => \/ snaps' = snaps \cup {Saved(run[h])} /\ nextId' = nextId + 1 /\ Becomes(h, HasSaved(run[h]))
                 \/ UNCHANGED <<snaps, nextId>> /\ Becomes(h, Idle)
  BY DEF Save, Saved, HasSaved
<1>6. SaveSchema(h) => Becomes(h, HasFiled(run[h]))
  BY DEF SaveSchema, HasFiled
<1>7. AppendEvents(h) \/ Crash(h) => Becomes(h, Idle)
  BY DEF AppendEvents, Crash
<1> QED
  BY <1>1, <1>a, <1>b, <1>c, <1>2, <1>3, <1>4, <1>5, <1>6, <1>7

(* One step of a run.                                                       *)
RunAction(h) ==
    \/ Connect(h) \/ (\E s \in Sections : Sample(h, s)) \/ ReadHealth(h)
    \/ DateRun(h) \/ ReadLast(h) \/ DeriveEvents(h) \/ Compare(h)
    \/ Save(h) \/ SaveSchema(h) \/ AppendEvents(h) \/ Crash(h)

(* The changes are numbered, and none is later than now.                    *)
LEMMA ChangesAre ==
  ASSUME Types
  PROVE  /\ Len(changes) \in Nat /\ DOMAIN changes = 1..Len(changes)
         /\ \A i \in DOMAIN changes : changes[i].at \in Nat /\ changes[i].at <= clock
<1>1. changes \in Seq(Changes) /\ \A i \in DOMAIN changes : changes[i].at <= clock
  BY DEF Types
<1>2. Len(changes) \in Nat /\ DOMAIN changes = 1..Len(changes)
  BY <1>1
<1>3. \A i \in 1..Len(changes) : changes[i] \in Changes
  BY <1>1
<1>4. \A c \in Changes : c.at \in Nat
  BY DEF Changes
<1> QED
  BY <1>1, <1>2, <1>3, <1>4

LEMMA TypesNext == Types /\ Progress /\ [Next]_vars => Types'
<1> SUFFICES ASSUME Types, Progress, [Next]_vars
             PROVE  Types'
  OBVIOUS
<1>1. CASE Tick
  <2>1. clock \in Nat /\ clock' = clock + 1 /\ changes' = changes /\ changes \in Seq(Changes)
    BY <1>1 DEF Tick, Types
  <2>2. \A i \in DOMAIN changes : changes[i].at \in Nat /\ changes[i].at <= clock
    BY ChangesAre
  <2>3. \A i \in DOMAIN changes' : changes'[i].at <= clock'
    BY <2>1, <2>2
  <2> QED
    BY <1>1, <2>1, <2>3 DEF Tick, Types, Store
<1>2. CASE ServerChanges
  <2>0. server \in Servers /\ clock \in Nat
    BY DEF Types
  <2>1. ASSUME NEW topic \in Topics, NEW new \in Servers, Change(topic, new)
        PROVE  Types'
    <3>1. /\ server' = new /\ UNCHANGED <<clock, snaps, nextId, stored, log, run>>
          /\ changes' = Append(changes, [topic |-> topic, at |-> clock])
      BY <2>1 DEF Change, Store
    <3>2. [topic |-> topic, at |-> clock] \in Changes /\ changes \in Seq(Changes)
      BY DEF Types, Changes
    <3>3. changes' \in Seq(Changes)
      BY <3>1, <3>2
    <3>4. ASSUME NEW i \in DOMAIN changes'
          PROVE  changes'[i].at <= clock
      <4>1. CASE i = Len(changes) + 1
        BY <2>0, <3>1, <3>2, <4>1
      <4>2. CASE i # Len(changes) + 1
        BY <3>1, <3>2, <4>2 DEF Types
      <4> QED
        BY <4>1, <4>2
    <3> QED
      BY <2>1, <3>1, <3>3, <3>4 DEF Types
  <2>2. ASSUME NEW o \in Objects, NEW d \in Defs \cup {Absent},
               Change(o, [server EXCEPT !.schema[o] = d])
        PROVE  Types'
    <3>1. [server EXCEPT !.schema[o] = d] \in Servers /\ o \in Topics
      BY <2>0 DEF Servers, Schemas, Topics
    <3> QED
      BY <2>1, <2>2, <3>1
  <2>3. CASE Change("config", [server EXCEPT !.config = 1 - @])
    <3>1. [server EXCEPT !.config = 1 - @] \in Servers /\ "config" \in Topics
      BY <2>0 DEF Servers, Topics
    <3> QED
      BY <2>1, <2>3, <3>1
  <2>4. CASE Change("stats.reset", [server EXCEPT !.reset = clock])
    <3>1. [server EXCEPT !.reset = clock] \in Servers /\ "stats.reset" \in Topics
      BY <2>0 DEF Servers, Times, Topics
    <3> QED
      BY <2>1, <2>4, <3>1
  <2>5. CASE Change("server.restarted", [server EXCEPT !.start = clock])
    <3>1. [server EXCEPT !.start = clock] \in Servers /\ "server.restarted" \in Topics
      BY <2>0 DEF Servers, Topics
    <3> QED
      BY <2>1, <2>5, <3>1
  <2> QED
    BY <1>2, <2>2, <2>3, <2>4, <2>5 DEF ServerChanges
<1>3. CASE Forget
  BY <1>3 DEF Forget, Types
<1>4. ASSUME NEW h \in Runs, RunAction(h)
      PROVE  Types'
  <2>0. /\ run[h] \in RunRecord /\ Idle \in RunRecord
        /\ Started(run[h]) => run[h].ctx \in Context
        /\ changes \in Seq(Changes) /\ server \in Servers
    BY DEF Types, Idle, RunRecord
  <2>k. ASSUME UNCHANGED <<clock, server, changes>>, nextId' \in Nat, snaps' \subseteq Snap,
               stored' \subseteq [id : Nat, schema : Schemas],
               NEW r \in RunRecord, Started(r) => r.ctx \in Context, run' = [run EXCEPT ![h] = r]
        PROVE  Types'
    BY <2>k DEF Types
  <2>s. UNCHANGED Store => nextId' \in Nat /\ snaps' \subseteq Snap
                           /\ stored' \subseteq [id : Nat, schema : Schemas]
    BY DEF Store, Types
  <2>9. CASE Connect(h)
    <3>1. Becomes(h, Connected)
      BY <2>9, Steps
    <3>2. Connected \in RunRecord /\ Connected.ctx \in Context
      <4>1. [config |-> None, reset |-> Never, start |-> server.start] \in Context
        BY <2>0 DEF Context, Times, Servers
      <4>3. Len(changes) \in Nat
        BY <2>0
      <4> QED
        BY <2>0, <4>1, <4>3 DEF RunRecord, Connected
    <3> QED
      BY <2>9, <2>k, <2>s, <3>1, <3>2 DEF Connect, Becomes
  <2>a. ASSUME NEW s \in Sections, Sample(h, s)
        PROVE  Types'
    <3>0. run[h].ctx \in Context /\ server.config \in {0, 1} /\ server.schema \in Schemas
      BY <2>0, <2>a DEF Sample, Started, Servers
    <3>1. CASE \E config \in {server.config, None} : Becomes(h, HasSettings(run[h], config))
      <4>1. PICK config \in {server.config, None} : Becomes(h, HasSettings(run[h], config))
        BY <3>1
      <4>2. HasSettings(run[h], config) \in RunRecord /\ HasSettings(run[h], config).ctx \in Context
        BY <2>0, <3>0 DEF RunRecord, Context, HasSettings
      <4> QED
        BY <2>a, <2>k, <2>s, <4>1, <4>2 DEF Sample, Becomes
    <3>2. CASE \E schema \in {server.schema, None} : Becomes(h, HasSchema(run[h], schema))
      <4>1. PICK schema \in {server.schema, None} : Becomes(h, HasSchema(run[h], schema))
        BY <3>2
      <4>2. HasSchema(run[h], schema) \in RunRecord /\ HasSchema(run[h], schema).ctx \in Context
        BY <2>0, <3>0 DEF RunRecord, HasSchema
      <4> QED
        BY <2>a, <2>k, <2>s, <4>1, <4>2 DEF Sample, Becomes
    <3> QED
      BY <2>a, <3>1, <3>2, Steps
  <2>b. CASE ReadHealth(h)
    <3>0. run[h].ctx \in Context /\ server.reset \in Times /\ Never \in Times
      BY <2>0, <2>b DEF ReadHealth, Started, Servers, Times
    <3>1. PICK reset \in {server.reset, Never} : Becomes(h, HasHealth(run[h], reset))
      BY <2>b, Steps
    <3>2. HasHealth(run[h], reset) \in RunRecord /\ HasHealth(run[h], reset).ctx \in Context
      BY <2>0, <3>0 DEF RunRecord, Context, HasHealth
    <3> QED
      BY <2>b, <2>k, <2>s, <3>1, <3>2 DEF ReadHealth, Becomes
  <2>c. CASE DateRun(h)
    <3>0. run[h].ctx \in Context /\ clock \in Nat
      BY <2>0, <2>c DEF DateRun, Started, Types
    <3>1. Becomes(h, HasDate(run[h]))
      BY <2>c, Steps
    <3>2. HasDate(run[h]) \in RunRecord /\ HasDate(run[h]).ctx \in Context
      BY <2>0, <3>0 DEF RunRecord, HasDate
    <3> QED
      BY <2>c, <2>k, <2>s, <3>1, <3>2 DEF DateRun, Becomes
  <2>2. CASE ReadLast(h)
    <3>1. PICK last \in Previous(run[h].at) \cup {None} : Becomes(h, HasRead(run[h], last))
      BY <2>2, Steps
    <3>2. last \in Snap \cup {None}
      BY DEF Previous, Types
    <3>3. HasRead(run[h], last) \in RunRecord /\ HasRead(run[h], last).ctx \in Context
      BY <2>0, <2>2, <3>2 DEF RunRecord, Started, Dated, ReadLast, HasRead
    <3> QED
      BY <2>2, <2>k, <2>s, <3>1, <3>3 DEF ReadLast, Becomes
  <2>3. CASE DeriveEvents(h)
    <3>1. PICK prev \in LatestSchema \cup {None} : Becomes(h, HasDerived(run[h], prev))
      BY <2>3, Steps
    <3>2. run[h].last \in Snap /\ run[h].ctx \in Context
      BY <2>0, <2>3 DEF Progress, Sound, DeriveEvents, Started, Dated, RunRecord
    <3>3. Derive(run[h], prev) \subseteq Event
      BY <2>0, <3>2, DeriveType
    <3>4. HasDerived(run[h], prev) \in RunRecord /\ HasDerived(run[h], prev).ctx \in Context
      BY <2>0, <3>2, <3>3 DEF RunRecord, HasDerived
    <3> QED
      BY <2>3, <2>k, <2>s, <3>1, <3>4 DEF DeriveEvents, Becomes
  <2>4. CASE Compare(h)
    <3>1. PICK aged \in Previous(run[h].at - MinAge) \cup {None} : Becomes(h, HasCompared(run[h], aged))
      BY <2>4, Steps
    <3>2. Chosen(run[h], aged) \in Snap \cup {None}
      BY <2>0 DEF Previous, Types, Compute, RunRecord, Chosen
    <3>3. HasCompared(run[h], aged) \in RunRecord /\ HasCompared(run[h], aged).ctx \in Context
      BY <2>0, <2>4, <3>2 DEF RunRecord, Started, Dated, Compare, HasCompared
    <3> QED
      BY <2>4, <2>k, <2>s, <3>1, <3>3 DEF Compare, Becomes
  <2>5. CASE Save(h)
    <3>1. CASE Becomes(h, Idle) /\ UNCHANGED <<snaps, nextId>>
      BY <2>0, <2>5, <2>k, <3>1 DEF Save, Types, Idle, Started, Dated, Becomes
    <3>2. CASE snaps' = snaps \cup {Saved(run[h])} /\ nextId' = nextId + 1 /\ Becomes(h, HasSaved(run[h]))
      <4>1. Saved(run[h]) \in Snap
        BY <2>0, <2>5 DEF Save, Started, Dated, RunRecord, Context, Snap, NewId, Types, Saved
      <4>2. HasSaved(run[h]) \in RunRecord /\ ~Started(HasSaved(run[h]))
        BY <2>0 DEF RunRecord, Started, Dated, Idle, NewId, Types, HasSaved
      <4> QED
        BY <2>5, <2>k, <3>2, <4>1, <4>2 DEF Save, Types, Becomes
    <3> QED
      BY <2>5, <3>1, <3>2, Steps
  <2>6. CASE SaveSchema(h)
    <3>1. HasFiled(run[h]) \in RunRecord /\ ~Started(HasFiled(run[h]))
      BY <2>0 DEF RunRecord, Started, Dated, Idle, HasFiled
    <3>2. stored' \subseteq [id : Nat, schema : Schemas]
      <4>1. stored' \subseteq stored \cup {[id |-> run[h].id, schema |-> run[h].schema]}
            /\ (run[h].schema = None => stored' = stored)
        BY <2>6 DEF SaveSchema, File, KeepTwo
      <4>2. run[h].id \in Nat /\ (run[h].schema # None => run[h].schema \in Schemas)
        BY <2>0 DEF RunRecord
      <4> QED
        BY <4>1, <4>2 DEF Types
    <3> QED
      BY <2>6, <2>k, <3>1, <3>2, Steps DEF SaveSchema, Types, Becomes
  <2>7. CASE AppendEvents(h) \/ Crash(h)
    <3>1. UNCHANGED <<clock, server, changes, snaps, nextId, stored>> /\ Becomes(h, Idle)
      BY <2>7, Steps DEF AppendEvents, Crash, Store
    <3> QED
      BY <2>0, <2>k, <3>1 DEF Types, Idle, Started, Dated, Becomes
  <2> QED
    BY <1>4, <2>2, <2>3, <2>4, <2>5, <2>6, <2>7, <2>9, <2>a, <2>b, <2>c DEF RunAction
<1>5. CASE UNCHANGED vars
  BY <1>5 DEF vars, Types
<1> QED
  BY <1>1, <1>2, <1>3, <1>4, <1>5 DEF Next, RunAction
-----------------------------------------------------------------------------
LEMMA WitnessedInit == Init => Witnessed
<1> SUFFICES ASSUME Init
             PROVE  Witnessed
  OBVIOUS
<1>1. Held = {} /\ \A h \in Runs : ~Started(run[h])
  BY DEF Init, Held, Idle, Started, Dated
<1>2. \A v \in Views : v = Now
  BY <1>1 DEF Views, Past
<1>3. Len(changes) = 0 /\ DOMAIN changes = {}
  BY DEF Init
<1>4. /\ Now.seen = 0 /\ Now.end = 0 /\ Now.reset = Never /\ Now.start = 0 /\ clock = 0
  BY <1>3 DEF Init, Now
<1>5. Honest(Now)
  BY <1>3, <1>4 DEF Honest, Never
<1>6. Explained(Now, Now)
  BY DEF Explained
<1> QED
  BY <1>2, <1>5, <1>6 DEF Witnessed

(* Everything a view says is of a type.                                     *)
LEMMA ViewsType ==
  ASSUME Types
  PROVE  \A v \in Views : v.end \in Nat /\ v.seen \in Nat /\ v.reset \in Times /\ v.start \in Nat
<1>1. ASSUME NEW s \in Held
      PROVE  View(s).end \in Nat /\ View(s).seen \in Nat /\ View(s).reset \in Times /\ View(s).start \in Nat
  BY DEF View, Held, Types, RunRecord, Snap
<1>2. ASSUME NEW h \in Runs, Started(run[h])
      PROVE  /\ Seen(run[h]).end \in Nat /\ Seen(run[h]).seen \in Nat
             /\ Seen(run[h]).reset \in Times /\ Seen(run[h]).start \in Nat
  BY <1>2 DEF Seen, Types, RunRecord, Context
<1>3. Now.end \in Nat /\ Now.seen \in Nat /\ Now.reset \in Times /\ Now.start \in Nat
  BY ChangesAre DEF Now, Types, Servers
<1> QED
  BY <1>1, <1>2, <1>3 DEF Views, Past

LEMMA ExplainedEitherWay ==
  ASSUME NEW v, NEW w, Explained(v, w)
  PROVE  Explained(w, v)
  BY DEF Explained, ChangedBetween

(* What a run does on its own makes at most one new view.                   *)
LEMMA WitnessedKept ==
  ASSUME Witnessed, UNCHANGED <<clock, server, changes>>,
         NEW new, Past' \subseteq Views \cup {new}, Fits(new)
  PROVE  Witnessed'
<1>1. Views' \subseteq Views \cup {new}
  BY DEF Views, Now
<1>2. \A v \in Views \cup {new} : Honest(v)
  BY DEF Witnessed, Fits
<1>3. Explained(new, new)
  BY DEF Explained
<1>4. \A v, w \in Views \cup {new} : Explained(v, w)
  BY <1>3, ExplainedEitherWay DEF Witnessed, Fits
<1>5. \A v : Honest(v) => Honest(v)'
  BY DEF Honest, ChangedAt
<1>6. \A v, w : Explained(v, w) => Explained(v, w)'
  BY DEF Explained, ChangedBetween
<1> QED
  BY <1>1, <1>2, <1>4, <1>5, <1>6 DEF Witnessed

LEMMA ViewsFit ==
  ASSUME Witnessed, NEW v \in Views
  PROVE  Fits(v)
  BY DEF Witnessed, Fits

(* A view whose reading has gone on to a later end.                         *)
Grown(v, w) ==
    /\ w.seen = v.seen /\ w.config = v.config /\ w.reset = v.reset /\ w.start = v.start
    /\ w.schema = v.schema /\ v.end <= w.end

LEMMA WitnessedTick ==
  ASSUME Types, Witnessed, Tick
  PROVE  Witnessed'
<1>1. /\ UNCHANGED <<server, changes>> /\ clock' = clock + 1 /\ Held' = Held /\ run' = run
      /\ clock \in Nat
  BY DEF Tick, Held, Store, Types
<1>2. \A v \in Views : v.end \in Nat /\ v.reset \in Times /\ v.start \in Nat /\ v.end <= clock
  BY ViewsType DEF Witnessed, Honest
<1>c. \A i \in DOMAIN changes : changes[i].at \in Nat
  BY ChangesAre
<1>3. ASSUME NEW w \in Views'
      PROVE  \E v \in Views : Grown(v, w) /\ w.end \in Nat /\ w.end <= clock'
  <2>1. CASE \E s \in Held : w = View(s)
    <3>1. w \in Views
      BY <2>1 DEF Views, Past
    <3> QED
      BY <1>1, <1>2, <3>1 DEF Grown
  <2>2. ASSUME NEW h \in Runs, Started(run[h]), w = Seen(run[h])'
        PROVE  \E v \in Views : Grown(v, w) /\ w.end \in Nat /\ w.end <= clock'
    <3>1. Seen(run[h]) \in Views
      BY <2>2 DEF Views, Past
    <3>2. Seen(run[h]).end = (IF Dated(run[h]) THEN run[h].at ELSE clock)
          /\ w.end = (IF Dated(run[h]) THEN run[h].at ELSE clock')
      BY <1>1, <2>2 DEF Seen
    <3>3. /\ w.seen = Seen(run[h]).seen /\ w.config = Seen(run[h]).config
          /\ w.reset = Seen(run[h]).reset /\ w.start = Seen(run[h]).start
          /\ w.schema = Seen(run[h]).schema
      BY <1>1, <2>2 DEF Seen
    <3>4. Seen(run[h]).end <= w.end /\ w.end \in Nat /\ w.end <= clock'
      BY <1>1, <1>2, <3>1, <3>2
    <3> QED
      BY <3>1, <3>3, <3>4 DEF Grown
  <2>3. CASE w = Now'
    <3>1. w.end = clock + 1 /\ w.end = clock' /\ w.seen = Now.seen /\ w.config = Now.config
          /\ w.reset = Now.reset /\ w.start = Now.start /\ w.schema = Now.schema
      BY <1>1, <2>3 DEF Now
    <3>2. Now \in Views /\ Now.end = clock
      BY DEF Views, Now
    <3>3. clock <= clock + 1 /\ clock + 1 \in Nat /\ clock + 1 <= clock + 1
      BY <1>1
    <3> QED
      BY <3>1, <3>2, <3>3 DEF Grown
  <2>4. \/ \E s \in Held : w = View(s)
        \/ \E h \in Runs : Started(run[h]) /\ w = Seen(run[h])'
        \/ w = Now'
    <3>1. w \in Past' \/ w = Now'
      BY DEF Views
    <3>2. w \in Past' => \/ \E s \in Held' : w = View(s)'
                         \/ \E h \in Runs : Started(run[h])' /\ w = Seen(run[h])'
      BY DEF Past
    <3>3. \A s : View(s)' = View(s)
      BY DEF View
    <3>4. \A h \in Runs : Started(run[h])' <=> Started(run[h])
      BY <1>1 DEF Started, Dated
    <3> QED
      BY <1>1, <3>1, <3>2, <3>3, <3>4
  <2> QED
    BY <2>1, <2>2, <2>3, <2>4
<1>4. ASSUME NEW v \in Views, NEW w, Grown(v, w), w.end \in Nat, w.end <= clock'
      PROVE  Honest(w)'
  <2>1. Honest(v) /\ v.end <= w.end /\ v.end \in Nat /\ v.reset \in Times /\ v.start \in Nat
    BY <1>2, <1>4 DEF Witnessed, Grown
  <2>2. w.reset <= w.end /\ w.start <= w.end
    BY <1>4, <2>1 DEF Honest, Grown, Times, Never
  <2> QED
    BY <1>1, <1>4, <2>1, <2>2 DEF Honest, Grown, ChangedAt
<1>5. ASSUME NEW v1 \in Views, NEW w1, Grown(v1, w1), w1.end \in Nat,
             NEW v2 \in Views, NEW w2, Grown(v2, w2), w2.end \in Nat
      PROVE  Explained(w1, w2)'
  <2>1. Explained(v1, v2) /\ v1.end \in Nat /\ v2.end \in Nat
    BY <1>2 DEF Witnessed
  <2>2. \A topic : ChangedBetween(topic, v1, v2) => ChangedBetween(topic, w1, w2)'
    <3>1. ASSUME NEW i \in DOMAIN changes, changes[i].at <= v1.end \/ changes[i].at <= v2.end
          PROVE  changes[i].at <= w1.end \/ changes[i].at <= w2.end
      BY <1>5, <1>c, <2>1, <3>1 DEF Grown
    <3> QED
      BY <1>1, <1>5, <3>1 DEF ChangedBetween, Grown
  <2> QED
    BY <1>5, <2>1, <2>2 DEF Explained, Grown
<1> QED
  BY <1>3, <1>4, <1>5 DEF Witnessed

(* A change of the server is recorded as what it changes.                   *)
Records(topic, new) ==
    /\ topic \in Topics /\ new \in Servers
    /\ new.config # server.config => topic = "config"
    /\ \A o \in Objects : new.schema[o] # server.schema[o] => topic = o
    /\ IF topic = "stats.reset" THEN new.reset = clock ELSE new.reset = server.reset
    /\ IF topic = "server.restarted" THEN new.start = clock ELSE new.start = server.start

LEMMA WitnessedChange ==
  ASSUME Types, Witnessed, NEW topic, NEW new, Records(topic, new), Change(topic, new)
  PROVE  Witnessed'
<1> DEFINE n == Len(changes)
<1>0. n \in Nat /\ DOMAIN changes = 1..n /\ changes \in Seq(Changes) /\ clock \in Nat
      /\ \A i \in 1..n : changes[i].at \in Nat /\ changes[i].at <= clock
  BY ChangesAre DEF Types
<1>1. /\ clock' = clock /\ Past' = Past /\ server' = new
      /\ changes' = Append(changes, [topic |-> topic, at |-> clock])
  BY DEF Change, Past, Held, Store, View, Seen, Started, Dated
<1>2. /\ DOMAIN changes' = 1..(n + 1) /\ Len(changes') = n + 1
      /\ \A i \in 1..n : changes'[i] = changes[i]
      /\ changes'[n + 1] = [topic |-> topic, at |-> clock]
  BY <1>0, <1>1
<1> HIDE DEF n
<1>3. \A v \in Views : v.end \in Nat /\ v.seen \in Nat /\ v.reset \in Times /\ v.start \in Nat
                       /\ v.seen <= n /\ v.end <= clock
  BY ViewsType DEF Witnessed, Honest, n
<1>4. \A t, at : ChangedAt(t, at) => ChangedAt(t, at)'
  BY <1>0, <1>2 DEF ChangedAt
<1>5. \A t, v, w : ChangedBetween(t, v, w) => ChangedBetween(t, v, w)'
  <2>1. ASSUME NEW t, NEW v, NEW w, NEW i \in DOMAIN changes,
               changes[i].topic = t, i > v.seen \/ i > w.seen,
               changes[i].at <= v.end \/ changes[i].at <= w.end
        PROVE  ChangedBetween(t, v, w)'
    <3>1. i \in DOMAIN changes' /\ changes'[i] = changes[i]
      BY <1>0, <1>2
    <3> QED
      BY <2>1, <3>1 DEF ChangedBetween
  <2> QED
    BY <2>1 DEF ChangedBetween
<1>6. \A at : at = clock => ChangedAt(topic, at)'
  <2>1. n + 1 \in DOMAIN changes'
    BY <1>0, <1>2
  <2> QED
    BY <1>2, <2>1 DEF ChangedAt
<1>7. ASSUME NEW v \in Past
      PROVE  Honest(v)'
  <2>1. Honest(v) /\ v.seen \in 0..n
    BY DEF Witnessed, Views, Honest, n
  <2>2. \A i \in 1..v.seen : i \in 1..n
    BY <1>0, <2>1
  <2>3. v.seen \in 0..Len(changes')
    BY <1>0, <1>2, <2>1
  <2> QED
    BY <1>1, <1>2, <1>4, <2>1, <2>2, <2>3 DEF Honest
<1>m. PICK m : m = Now'
  OBVIOUS
<1>8. /\ m.seen = n + 1 /\ m.end = clock /\ m.config = new.config /\ m.reset = new.reset
      /\ m.start = new.start /\ m.schema = new.schema
      /\ Now.seen = n /\ Now.end = clock /\ Now.config = server.config /\ Now.reset = server.reset
      /\ Now.start = server.start /\ Now.schema = server.schema /\ Now \in Views
  BY <1>1, <1>2, <1>m DEF Now, Views, n
<1>9. Honest(m)'
  <2>0. Honest(Now) /\ server.reset \in Times /\ server.start \in Nat /\ new.reset \in Times /\ new.start \in Nat
    BY <1>8 DEF Witnessed, Types, Servers, Records
  <2>1. /\ server.reset <= clock /\ server.start <= clock
        /\ server.reset # Never => ChangedAt("stats.reset", server.reset)
        /\ server.start # 0 => ChangedAt("server.restarted", server.start)
    BY <1>8, <2>0 DEF Honest
  <2>2. new.reset <= clock /\ new.start <= clock
    BY <1>0, <2>1 DEF Records
  <2>3. /\ new.reset # Never => ChangedAt("stats.reset", new.reset)'
        /\ new.start # 0 => ChangedAt("server.restarted", new.start)'
    <3>1. new.reset # Never => ChangedAt("stats.reset", new.reset)'
      <4>1. CASE topic = "stats.reset"
        BY <1>6, <4>1 DEF Records
      <4>2. CASE topic # "stats.reset"
        BY <1>4, <2>1, <4>2 DEF Records
      <4> QED
        BY <4>1, <4>2
    <3>2. new.start # 0 => ChangedAt("server.restarted", new.start)'
      <4>1. CASE topic = "server.restarted"
        BY <1>6, <4>1 DEF Records
      <4>2. CASE topic # "server.restarted"
        BY <1>4, <2>1, <4>2 DEF Records
      <4> QED
        BY <4>1, <4>2
    <3> QED
      BY <3>1, <3>2
  <2>4. ASSUME NEW i \in 1..(n + 1)
        PROVE  /\ changes'[i].topic = "stats.reset" /\ new.reset # Never => changes'[i].at <= new.reset
               /\ changes'[i].topic = "server.restarted" => changes'[i].at <= new.start
    <3>1. CASE i = n + 1
      BY <1>0, <1>2, <3>1 DEF Records
    <3>2. CASE i \in 1..n
      <4>1. /\ changes[i].topic = "stats.reset" /\ server.reset # Never => changes[i].at <= server.reset
            /\ changes[i].topic = "server.restarted" => changes[i].at <= server.start
        BY <1>8, <2>0, <3>2 DEF Honest
      <4>2. changes'[i] = changes[i] /\ changes[i].at \in Nat /\ changes[i].at <= clock
        BY <1>0, <1>2, <3>2
      <4>3. topic # "stats.reset" => new.reset = server.reset
        BY DEF Records
      <4>4. topic = "stats.reset" => new.reset = clock
        BY DEF Records
      <4>5. IF topic = "server.restarted" THEN new.start = clock ELSE new.start = server.start
        BY DEF Records
      <4>6. changes[i].topic = "stats.reset" /\ new.reset # Never => changes[i].at <= new.reset
        BY <4>1, <4>2, <4>3, <4>4
      <4>7. changes[i].topic = "server.restarted" => changes[i].at <= new.start
        BY <4>1, <4>2, <4>5
      <4> QED
        BY <4>2, <4>6, <4>7
    <3> QED
      BY <1>0, <3>1, <3>2
  <2>5. m.seen \in 0..Len(changes')
    BY <1>0, <1>2, <1>8
  <2> QED
    BY <1>0, <1>1, <1>8, <2>2, <2>3, <2>4, <2>5 DEF Honest
<1>10. ASSUME NEW v \in Past, NEW w \in Past
       PROVE  Explained(v, w)'
  <2>1. Explained(v, w)
    BY DEF Witnessed, Views
  <2> QED
    BY <1>5, <2>1 DEF Explained
(* What an earlier view and the new state differ in.                        *)
<1>11. ASSUME NEW v \in Past
       PROVE  Explained(v, m)'
  <2>0. v \in Views /\ Explained(v, Now) /\ v.seen <= n /\ v.seen \in Nat
    BY <1>3, <1>8 DEF Witnessed, Views
  <2>1. ASSUME NEW t, ChangedBetween(t, v, Now)
        PROVE  ChangedBetween(t, v, m)'
    <3>1. PICK i \in DOMAIN changes :
             /\ changes[i].topic = t
             /\ i > v.seen \/ i > Now.seen
             /\ changes[i].at <= v.end \/ changes[i].at <= Now.end
      BY <2>1 DEF ChangedBetween
    <3>2. i \in 1..n /\ ~(i > n) /\ i \in DOMAIN changes' /\ changes'[i] = changes[i]
      BY <1>0, <1>2
    <3>3. changes[i].at <= v.end \/ changes[i].at <= m.end
      BY <1>8, <3>1
    <3> QED
      BY <1>8, <3>1, <3>2, <3>3 DEF ChangedBetween
  <2>2. ChangedBetween(topic, v, m)'
    <3>1. n + 1 \in DOMAIN changes' /\ n + 1 > v.seen /\ changes'[n + 1].topic = topic
          /\ changes'[n + 1].at <= m.end
      BY <1>0, <1>2, <1>8, <2>0
    <3> QED
      BY <3>1 DEF ChangedBetween
  <2>3. v.config # None /\ new.config # None /\ v.config # new.config => ChangedBetween("config", v, m)'
    <3>1. CASE new.config = server.config
      BY <1>8, <2>0, <2>1, <3>1 DEF Explained
    <3>2. CASE new.config # server.config
      BY <2>2, <3>2 DEF Records
    <3> QED
      BY <3>1, <3>2
  <2>4. ASSUME v.schema # None, NEW o \in Objects, v.schema[o] # new.schema[o]
        PROVE  ChangedBetween(o, v, m)'
    <3>0. server.schema # None
      BY HistoryAssumption DEF Types, Servers, Schemas
    <3>1. CASE v.schema[o] # server.schema[o]
      BY <1>8, <2>0, <2>1, <2>4, <3>0, <3>1 DEF Explained
    <3>2. CASE new.schema[o] # server.schema[o]
      BY <2>2, <3>2 DEF Records
    <3> QED
      BY <2>4, <3>1, <3>2
  <2> QED
    BY <1>8, <2>3, <2>4 DEF Explained
<1>12. ASSUME NEW v \in Past
       PROVE  Explained(m, v)'
  BY <1>11 DEF Explained, ChangedBetween
<1>13. Explained(m, m)'
  BY DEF Explained
<1>14. \A v \in Views' : v \in Past \/ v = m
  BY <1>1, <1>m DEF Views
<1> QED
  BY <1>7, <1>9, <1>10, <1>11, <1>12, <1>13, <1>14 DEF Witnessed

LEMMA ChangesAreRecorded ==
  ASSUME Types, ServerChanges
  PROVE  \E topic, new : Records(topic, new) /\ Change(topic, new)
<1>0. server \in Servers /\ clock \in Nat
  BY DEF Types
<1>1. ASSUME NEW o \in Objects, NEW d \in Defs \cup {Absent}, Change(o, [server EXCEPT !.schema[o] = d])
      PROVE  Records(o, [server EXCEPT !.schema[o] = d])
  BY <1>0, HistoryAssumption DEF Records, Schemas, Servers, Topics
<1>2. Records("config", [server EXCEPT !.config = 1 - @])
  BY <1>0 DEF Records, Servers, Topics
<1>3. Records("stats.reset", [server EXCEPT !.reset = clock])
  BY <1>0 DEF Records, Servers, Topics, Times
<1>4. Records("server.restarted", [server EXCEPT !.start = clock])
  BY <1>0 DEF Records, Servers, Topics
<1> QED
  BY <1>1, <1>2, <1>3, <1>4 DEF ServerChanges
-----------------------------------------------------------------------------
(* A step of a run that stores no snapshot: what it now holds was held, what *)
(* it now knows agrees with the other views, and what it files and logs is   *)
(* right.                                                                    *)
LEMMA RunStep ==
  ASSUME IInv, NEW h \in Runs, NEW r, Becomes(h, r),
         UNCHANGED <<clock, server, changes, snaps, nextId>>,
         r.last \in Held \cup {None}, r.base \in Held \cup {None},
         Started(r) => Fits(Seen(r)), r.pc # "saveSchema", Sound(r),
         \A q \in stored' : q.id < nextId /\ \A s \in Held : q.id = s.id => q.schema = s.schema,
         \A e \in log' : e.exact => Happened(e)
  PROVE  Witnessed' /\ Filed' /\ Progress'
<1>1. run' = [g \in Runs |-> IF g = h THEN r ELSE run[g]]
  BY DEF IInv, Types, Becomes
<1>2. Held' \subseteq Held
  BY <1>1 DEF Held
<1>3. ASSUME NEW v \in Past'
      PROVE  v \in Views \/ (Started(r) /\ v = Seen(r))
  <2>1. \/ \E s \in Held' : v = View(s)
        \/ \E g \in Runs : Started(run'[g]) /\ v = Seen(run'[g])
    BY DEF Past, View, Seen, Started, Dated
  <2>2. CASE \E s \in Held' : v = View(s)
    BY <1>2, <2>2 DEF Past, Views
  <2>3. CASE \E g \in Runs : Started(run'[g]) /\ v = Seen(run'[g])
    BY <1>1, <2>3 DEF Past, Views
  <2> QED
    BY <2>1, <2>2, <2>3
<1>4. Witnessed'
  <2>1. CASE Started(r)
    <3>1. Fits(Seen(r)) /\ Past' \subseteq Views \cup {Seen(r)}
      BY <1>3, <2>1
    <3> QED
      BY <3>1, WitnessedKept DEF IInv
  <2>2. CASE ~Started(r)
    <3>1. Past' \subseteq Views \cup {Now} /\ Now \in Views
      BY <1>3, <2>2 DEF Views
    <3>2. Fits(Now)
      BY <3>1, ViewsFit DEF IInv
    <3> QED
      BY <3>1, <3>2, WitnessedKept DEF IInv
  <2> QED
    BY <2>1, <2>2
<1>5. Filed'
  BY <1>1, <1>2 DEF IInv, Filed
<1>6. ASSUME NEW g \in Runs
      PROVE  Sound(run[g])'
  <2>1. Sound(run'[g])
    BY <1>1 DEF IInv, Progress
  <2> QED
    BY <2>1 DEF Sound, Unbroken, Happened, Dated, Breaks
<1>7. ExactEventsHappened'
  BY DEF ExactEventsHappened, Happened
<1> QED
  BY <1>4, <1>5, <1>6, <1>7 DEF Progress

(* An event derived against the run that opens its window tells of a change. *)
LEMMA DerivedHappened ==
  ASSUME IInv, NEW h \in Runs, run[h].pc = "derive", NEW prev \in LatestSchema \cup {None},
         NEW e \in Derive(run[h], prev), e.exact
  PROVE  Happened(e)
<1> DEFINE r == run[h]
           v == View(r.last)
           w == Seen(r)
<1>1. /\ r \in RunRecord /\ r.ctx \in Context /\ r.last # None /\ r.last.at <= r.at /\ Started(r) /\ Dated(r)
      /\ r.last \in Snap
  BY DEF IInv, Types, Started, Dated, Progress, Sound, RunRecord
<1>2. r.last \in Held /\ v \in Views /\ w \in Views
  BY <1>1 DEF Held, Past, Views
<1>3. Explained(v, w) /\ Honest(w)
  BY <1>2 DEF IInv, Witnessed
<1>4. /\ v.end = r.last.at /\ w.end = r.at /\ v.config = r.last.config /\ w.config = r.ctx.config
      /\ v.schema = r.last.schema /\ w.schema = r.schema /\ w.reset = r.ctx.reset /\ w.start = r.ctx.start
      /\ v.seen = r.last.seen /\ w.seen = r.seen
  BY <1>1 DEF View, Seen
<1>c. \A i \in DOMAIN changes : changes[i].at \in Nat
  BY ChangesAre DEF IInv
<1>e. r.last.at \in Nat /\ r.at \in Nat /\ r.last.at <= r.at
  BY <1>1 DEF RunRecord, Snap
<1> HIDE DEF r, v, w
(* What the two differ in was changed while the first was reading or later. *)
<1>d. ASSUME NEW t, ChangedBetween(t, v, w), e.topic = t, e.after = r.last.at, e.before = r.at,
             e.early = Early(r)
      PROVE  Happened(e)
  <2>1. PICK i \in DOMAIN changes :
           /\ changes[i].topic = t
           /\ i > v.seen \/ i > w.seen
           /\ changes[i].at <= v.end \/ changes[i].at <= w.end
    BY <1>d DEF ChangedBetween
  <2>2. (i > r.last.seen \/ i > r.seen) /\ changes[i].at \in Nat
    BY <1>4, <1>c, <2>1
  <2>3. changes[i].at <= r.at
    <3>1. changes[i].at <= r.last.at \/ changes[i].at <= r.at
      BY <1>4, <2>1
    <3> QED
      BY <1>e, <2>2, <3>1
  <2>4. CASE r.last.at <= changes[i].at
    BY <1>d, <2>1, <2>3, <2>4 DEF Happened
  <2>5. CASE changes[i].at < r.last.at
    <3>1. i \in Early(r)
      BY <2>2, <2>5 DEF Early
    <3> QED
      BY <1>d, <2>1, <2>3, <3>1 DEF Happened
  <2> QED
    BY <1>e, <2>2, <2>4, <2>5
<1>5. CASE e \in LifecycleEvents(r)
  <2>1. /\ e.after # Never /\ e.after > r.last.at
        /\ \/ e = [topic |-> "stats.reset", after |-> r.ctx.reset, before |-> r.ctx.reset,
                   exact |-> TRUE, early |-> {}]
           \/ e = [topic |-> "server.restarted", after |-> r.ctx.start, before |-> r.ctx.start,
                   exact |-> TRUE, early |-> {}]
    BY <1>5 DEF LifecycleEvents
  <2>a. ASSUME NEW at, e.after = at, e.before = at, ChangedAt(e.topic, at)
        PROVE  Happened(e)
    <3>1. PICK i \in DOMAIN changes : changes[i].topic = e.topic /\ changes[i].at = at
      BY <2>a DEF ChangedAt
    <3>2. changes[i].at <= e.before /\ e.after <= changes[i].at
      BY <1>c, <2>a, <3>1
    <3> QED
      BY <3>1, <3>2 DEF Happened
  <2>2. CASE e = [topic |-> "stats.reset", after |-> r.ctx.reset, before |-> r.ctx.reset,
                  exact |-> TRUE, early |-> {}]
    <3>1. e.topic = "stats.reset" /\ e.after = r.ctx.reset /\ e.before = r.ctx.reset
      BY <2>2
    <3>2. ChangedAt("stats.reset", r.ctx.reset)
      BY <1>3, <1>4, <2>1, <3>1 DEF Honest
    <3> QED
      BY <2>a, <3>1, <3>2
  <2>3. CASE e = [topic |-> "server.restarted", after |-> r.ctx.start, before |-> r.ctx.start,
                  exact |-> TRUE, early |-> {}]
    <3>1. e.topic = "server.restarted" /\ e.after = r.ctx.start /\ e.before = r.ctx.start
      BY <2>3
    <3>2. r.ctx.start # 0
      BY <1>e, <2>1, <3>1
    <3>3. ChangedAt("server.restarted", r.ctx.start)
      BY <1>3, <1>4, <3>2 DEF Honest
    <3> QED
      BY <2>a, <3>1, <3>3
  <2> QED
    BY <2>1, <2>2, <2>3
<1>6. CASE e \in SchemaEvents(r, prev)
  <2>1. prev # None /\ r.schema # None
    BY <1>6 DEF SchemaEvents
  <2>2. PICK o \in Objects :
           /\ prev.schema[o] # r.schema[o]
           /\ e = [topic |-> o, after |-> r.last.at, before |-> r.at, exact |-> prev.id = r.last.id,
                   early |-> Early(r)]
    BY <1>6, <2>1 DEF SchemaEvents
  <2>3. prev \in stored /\ prev.id = r.last.id
    BY <2>1, <2>2 DEF LatestSchema
  <2>4. prev.schema = r.last.schema /\ prev.schema \in Schemas
    BY <1>2, <2>3 DEF IInv, Filed, Types
  <2>5. r.last.schema # None
    BY <2>4, HistoryAssumption DEF Schemas
  <2>6. ChangedBetween(o, v, w)
    BY <1>3, <1>4, <2>1, <2>2, <2>4, <2>5 DEF Explained
  <2>7. e.topic = o /\ e.after = r.last.at /\ e.before = r.at /\ e.early = Early(r)
    BY <2>2
  <2> QED
    BY <1>d, <2>6, <2>7
<1>7. CASE e \in ConfigEvents(r)
  <2>1. /\ None \notin {r.last.config, r.ctx.config} /\ r.last.config # r.ctx.config
        /\ e = [topic |-> "config", after |-> r.last.at, before |-> r.at, exact |-> TRUE, early |-> Early(r)]
    BY <1>7 DEF ConfigEvents
  <2>2. ChangedBetween("config", v, w)
    BY <1>3, <1>4, <2>1 DEF Explained
  <2>3. e.topic = "config" /\ e.after = r.last.at /\ e.before = r.at /\ e.early = Early(r)
    BY <2>1
  <2> QED
    BY <1>d, <2>2, <2>3
<1> QED
  BY <1>5, <1>6, <1>7 DEF Derive, r

(* A baseline that StatsResetBetween lets pass had no reset after it that    *)
(* the run could know of.                                                    *)
LEMMA ChosenIsUnbroken ==
  ASSUME IInv, NEW h \in Runs, Dated(run[h]), NEW base \in Held, ~StatsResetBetween(base, run[h].ctx),
         NEW i \in 1..run[h].seen, changes[i].topic \in Breaks(run[h])
  PROVE  changes[i].at <= base.at
<1> DEFINE r == run[h]
<1>1. View(base) \in Views /\ Seen(r) \in Views
  BY DEF Past, Views, Started
<1>2. Honest(View(base)) /\ Honest(Seen(r))
  BY <1>1 DEF IInv, Witnessed
<1>3. /\ View(base).end = base.at /\ View(base).reset = base.reset /\ View(base).start = base.start
      /\ Seen(r).seen = r.seen /\ Seen(r).reset = r.ctx.reset /\ Seen(r).start = r.ctx.start
  BY DEF View, Seen
<1>4. /\ base.reset <= base.at /\ base.start <= base.at
      /\ changes[i].topic = "stats.reset" /\ r.ctx.reset # Never => changes[i].at <= r.ctx.reset
      /\ changes[i].topic = "server.restarted" => changes[i].at <= r.ctx.start
      /\ i \in DOMAIN changes
  <2>1. r.seen \in 0..Len(changes) /\ Len(changes) \in Nat /\ DOMAIN changes = 1..Len(changes)
    BY <1>2, <1>3, ChangesAre DEF Honest, IInv
  <2>2. i \in DOMAIN changes
    BY <2>1
  <2> QED
    BY <1>2, <1>3, <2>2 DEF Honest
<1>5. /\ base.at \in Nat /\ base.reset \in Times /\ base.start \in Nat
      /\ r.ctx.reset \in Times /\ r.ctx.start \in Nat
  BY DEF IInv, Types, Held, Snap, RunRecord, Context, Started
<1>6. changes[i].at \in Nat
  BY <1>4, ChangesAre DEF IInv
<1>7. changes[i].topic = "server.restarted" \/ (changes[i].topic = "stats.reset" /\ r.ctx.reset # Never)
  BY DEF Breaks
<1> HIDE DEF r
<1>8. ~ResetMoved(base.reset, r.ctx.reset) /\ ~(r.ctx.start > base.start)
  BY DEF StatsResetBetween, r
<1> QED
  BY <1>4, <1>5, <1>6, <1>7, <1>8 DEF ResetMoved, Times, Never

(* KeepTwo keeps the row of the greatest id, so an id as great as any.      *)
LEMMA GreatestStays ==
  ASSUME NEW rows, NEW n \in Nat, \A q \in rows : q.id \in Nat /\ q.id < n, NEW r \in rows
  PROVE  \E q \in KeepTwo(rows) : q.id >= r.id
<1> DEFINE Gaps == {n - q.id : q \in rows}
           Less == OpToRel(<, Nat)
<1>1. Gaps \subseteq Nat /\ n - r.id \in Gaps
  OBVIOUS
<1>2. IsWellFoundedOn(Less, Nat)
  BY NatLessThanWellFounded
<1>3. \A x, y \in Nat : y < x => <<y, x>> \in Less
  BY DEF OpToRel
<1> HIDE DEF Less
<1>4. PICK q \in rows : \A p \in rows : ~(p.id > q.id)
  <2>1. PICK x \in Gaps : \A y \in Gaps : ~(<<y, x>> \in Less)
    <3> HIDE DEF Gaps
    <3> QED
      BY <1>1, <1>2, WFMin
  <2>2. PICK q \in rows : x = n - q.id
    OBVIOUS
  <2>3. ASSUME NEW p \in rows, p.id > q.id
        PROVE  FALSE
    <3>1. n - p.id \in Gaps /\ n - p.id < x /\ x \in Nat /\ n - p.id \in Nat
      BY <2>2, <2>3
    <3> HIDE DEF Gaps
    <3> QED
      BY <1>3, <2>1, <3>1
  <2> QED
    BY <2>3
<1>5. {p.id : p \in {p \in rows : p.id > q.id}} = {}
  BY <1>4
<1>6. q \in KeepTwo(rows)
  BY <1>5, FS_EmptySet DEF KeepTwo
<1>7. q.id >= r.id
  <2>1. ~(r.id > q.id) /\ r.id \in Nat /\ q.id \in Nat
    BY <1>4
  <2> QED
    BY <2>1
<1> QED
  BY <1>6, <1>7
-----------------------------------------------------------------------------
-----------------------------------------------------------------------------
(* Saving a snapshot: what is stored is what the run saw, and its id is new. *)
LEMMA SaveStep ==
  ASSUME IInv, NEW h \in Runs, Save(h), snaps' = snaps \cup {Saved(run[h])}, nextId' = nextId + 1,
         Becomes(h, HasSaved(run[h]))
  PROVE  Witnessed' /\ Filed' /\ Progress'
<1>0. /\ run[h].pc = "save" /\ UNCHANGED <<clock, server, stored, log, changes>>
      /\ nextId \in Nat /\ Started(run[h])
  BY DEF Save, IInv, Types, Started, Dated
<1>1. run' = [g \in Runs |-> IF g = h THEN HasSaved(run[h]) ELSE run[g]]
  BY DEF IInv, Types, Becomes
<1>2. /\ HasSaved(run[h]).last = None /\ HasSaved(run[h]).base = None
      /\ HasSaved(run[h]).pc = "saveSchema" /\ HasSaved(run[h]).id = nextId
      /\ HasSaved(run[h]).schema = run[h].schema /\ HasSaved(run[h]).events = run[h].events
  BY DEF HasSaved, Idle, NewId
<1>3. Saved(run[h]).id = nextId /\ Saved(run[h]).schema = run[h].schema
  BY DEF Saved, NewId
<1>4. Held' \subseteq Held \cup {Saved(run[h])}
  BY <1>1, <1>2 DEF Held
<1>5. View(Saved(run[h])) \in Views
  <2>1. View(Saved(run[h])) = Seen(run[h])
    BY <1>0 DEF View, Saved, Seen, Dated
  <2> QED
    BY <1>0, <2>1 DEF Past, Views
<1>6. Past' \subseteq Views
  <2>1. \A v \in Past' : (\E s \in Held' : v = View(s))
                         \/ (\E g \in Runs : Started(run'[g]) /\ v = Seen(run'[g]))
    BY <1>0 DEF Past, View, Seen, Started, Dated
  <2>2. \A s \in Held' : View(s) \in Views
    BY <1>4, <1>5 DEF Past, Views
  <2>3. \A g \in Runs : Started(run'[g]) => Seen(run'[g]) \in Views
    BY <1>1, <1>2 DEF Started, Dated, Past, Views
  <2> QED
    BY <2>1, <2>2, <2>3
<1>7. Witnessed'
  <2>1. Now \in Views /\ Fits(Now)
    BY ViewsFit DEF Views, IInv
  <2> QED
    BY <1>0, <1>6, <2>1, WitnessedKept DEF IInv
<1>8. Filed'
  <2>1. /\ \A s \in Held : s.id < nextId /\ s.id \in Nat
        /\ \A q \in stored : q.id < nextId /\ q.id \in Nat
        /\ \A g \in Runs : run[g].pc = "saveSchema" => run[g].id < nextId
        /\ \A g \in Runs : run[g].id \in Nat
    BY DEF IInv, Filed, Types, Held, RunRecord, Snap
  <2>2. \A i \in Nat : i < nextId => i < nextId + 1 /\ i # nextId
    BY <1>0
  <2>3. nextId < nextId + 1
    BY <1>0
  <2>4. \A s \in Held' : s.id < nextId'
    BY <1>3, <1>4, <2>1, <2>2, <2>3
  <2>5. \A q \in stored' : q.id < nextId'
    BY <1>0, <2>1, <2>2
  <2>6. \A g \in Runs : run'[g].pc = "saveSchema" => run'[g].id < nextId'
    BY <1>1, <1>2, <2>1, <2>2, <2>3
  <2>7. \A s \in Held' : \A q \in stored' : q.id = s.id => q.schema = s.schema
    BY <1>0, <1>3, <1>4, <2>1, <2>2 DEF IInv, Filed
  <2>8. ASSUME NEW s \in Held', NEW g \in Runs, run'[g].pc = "saveSchema", run'[g].id = s.id
        PROVE  run'[g].schema = s.schema
    <3>1. CASE g = h
      BY <1>1, <1>2, <1>3, <1>4, <2>1, <2>2, <2>8, <3>1
    <3>2. CASE g # h
      <4>1. run[g].pc = "saveSchema" /\ run[g].id = s.id /\ run'[g] = run[g]
        BY <1>1, <2>8, <3>2
      <4>2. s \in Held
        BY <1>3, <1>4, <2>1, <2>2, <4>1
      <4> QED
        BY <4>1, <4>2 DEF IInv, Filed
    <3> QED
      BY <3>1, <3>2
  <2> QED
    BY <2>4, <2>5, <2>6, <2>7, <2>8 DEF Filed
<1>9. ASSUME NEW g \in Runs
      PROVE  Sound(run[g])'
  <2>1. Sound(run[g]) /\ Sound(run[h])
    BY DEF IInv, Progress
  <2>2. CASE g = h
    <3>1. run'[g].last = None /\ run'[g].base = None /\ run'[g].pc = "saveSchema"
          /\ run'[g].events = run[h].events
      BY <1>1, <1>2, <2>2
    <3> QED
      BY <1>0, <2>1, <3>1 DEF Sound, Happened
  <2>3. CASE g # h
    <3>1. run'[g] = run[g]
      BY <1>1, <2>3
    <3> QED
      BY <1>0, <2>1, <3>1 DEF Sound, Unbroken, Happened, Dated, Breaks
  <2> QED
    BY <2>2, <2>3
<1>10. ExactEventsHappened'
  BY <1>0 DEF IInv, Progress, ExactEventsHappened, Happened
<1> QED
  BY <1>7, <1>8, <1>9, <1>10 DEF Progress

(* A change of the server leaves what the runs have derived and chosen.     *)
LEMMA ChangeStep ==
  ASSUME IInv, NEW topic, NEW new, Records(topic, new), Change(topic, new)
  PROVE  Witnessed' /\ Filed' /\ Progress'
<1>0. Len(changes) \in Nat /\ DOMAIN changes = 1..Len(changes) /\ changes \in Seq(Changes)
  BY ChangesAre DEF IInv, Types
<1>1. /\ UNCHANGED <<clock, snaps, nextId, stored, log, run>>
      /\ changes' = Append(changes, [topic |-> topic, at |-> clock])
  BY DEF Change, Store
<1>2. Witnessed'
  BY WitnessedChange DEF IInv
<1>3. Held' = Held
  BY <1>1 DEF Held
<1>4. Filed'
  BY <1>1, <1>3 DEF IInv, Filed
<1>5. /\ Len(changes') = Len(changes) + 1
      /\ \A i \in DOMAIN changes : i \in DOMAIN changes' /\ changes'[i] = changes[i]
  BY <1>0, <1>1
<1>6. \A e : Happened(e) => Happened(e)'
  BY <1>5 DEF Happened
<1>7. ASSUME NEW g \in Runs
      PROVE  Sound(run[g])'
  <2>1. Sound(run[g]) /\ run'[g] = run[g] /\ run[g].seen \in Nat
    BY <1>1 DEF IInv, Progress, Types, RunRecord
  <2>2. ASSUME run[g].base # None
        PROVE  run[g].seen <= Len(changes') /\ Unbroken(run[g])'
    <3>1. run[g].seen <= Len(changes) /\ Unbroken(run[g])
      BY <2>1, <2>2 DEF Sound
    <3>2. \A i \in 1..run[g].seen : i \in DOMAIN changes
      BY <1>0, <2>1, <3>1
    <3>3. run[g].seen <= Len(changes')
      BY <1>0, <1>5, <2>1, <3>1
    <3>4. Unbroken(run[g])'
      BY <1>5, <2>1, <3>1, <3>2 DEF Unbroken, Breaks
    <3> QED
      BY <3>3, <3>4
  <2> QED
    BY <1>6, <2>1, <2>2 DEF Sound, Unbroken, Dated, Breaks
<1>8. ExactEventsHappened'
  BY <1>1, <1>6 DEF IInv, Progress, ExactEventsHappened
<1> QED
  BY <1>2, <1>4, <1>7, <1>8 DEF Progress

(* What a run reads agrees with all the other views: the settings and the   *)
(* schema are the server's, which all views are explained against.          *)
LEMMA ReadingFits ==
  ASSUME Types, Witnessed, NEW v \in Views, v.end = clock, NEW u, u.seen = v.seen, u.end = v.end,
         u.start = v.start, u.reset \in {v.reset, server.reset, Never},
         u.config \in {v.config, server.config, None},
         u.schema \in {v.schema, server.schema, None}
  PROVE  Fits(u)
<1>0. /\ Len(changes) \in Nat /\ DOMAIN changes = 1..Len(changes)
      /\ \A i \in DOMAIN changes : changes[i].at \in Nat /\ changes[i].at <= clock
      /\ Now \in Views /\ Honest(Now) /\ Honest(v) /\ clock \in Nat /\ server.reset \in Times
  BY ChangesAre DEF Views, Witnessed, Types, Servers
<1>1. /\ Now.seen = Len(changes) /\ Now.end = clock /\ Now.config = server.config
      /\ Now.reset = server.reset /\ Now.start = server.start /\ Now.schema = server.schema
  BY DEF Now
<1>v. v.end \in Nat /\ v.seen \in Nat /\ v.seen <= Len(changes) /\ v.reset \in Times
  BY <1>0, ViewsType DEF Honest
<1>2. Honest(u)
  <2>1. CASE u.reset = v.reset
    BY <1>0, <2>1 DEF Honest
  <2>2. CASE u.reset = server.reset
    <3>1. \A i \in 1..u.seen : i \in 1..Now.seen
      BY <1>0, <1>1, <1>v
    <3> QED
      BY <1>0, <1>1, <2>2, <3>1 DEF Honest
  <2>3. CASE u.reset = Never
    <3>1. Never <= u.end
      BY <1>v DEF Never
    <3> QED
      BY <1>0, <2>3, <3>1 DEF Honest
  <2> QED
    BY <2>1, <2>2, <2>3
<1>3. ASSUME NEW w \in Views
      PROVE  Explained(u, w)
  <2>0. Explained(v, w) /\ Explained(Now, w)
    BY <1>0 DEF Witnessed
  <2>1. ASSUME NEW t, ChangedBetween(t, v, w) \/ ChangedBetween(t, Now, w)
        PROVE  ChangedBetween(t, u, w)
    <3>1. CASE ChangedBetween(t, v, w)
      BY <3>1 DEF ChangedBetween
    <3>2. CASE ChangedBetween(t, Now, w)
      <4>1. PICK i \in DOMAIN changes :
               /\ changes[i].topic = t
               /\ i > Now.seen \/ i > w.seen
               /\ changes[i].at <= Now.end \/ changes[i].at <= w.end
        BY <3>2 DEF ChangedBetween
      <4>2. i \in 1..Len(changes) /\ ~(i > Now.seen)
        BY <1>0, <1>1
      <4>3. changes[i].at <= u.end \/ changes[i].at <= w.end
        BY <1>1, <4>1
      <4> QED
        BY <4>1, <4>2, <4>3 DEF ChangedBetween
    <3> QED
      BY <2>1, <3>1, <3>2
  <2>2. ASSUME u.config # None, w.config # None, u.config # w.config
        PROVE  ChangedBetween("config", u, w)
    <3>1. u.config = v.config \/ u.config = Now.config
      BY <1>1, <2>2
    <3> QED
      BY <2>0, <2>1, <2>2, <3>1 DEF Explained
  <2>3. ASSUME u.schema # None, w.schema # None, NEW o \in Objects, u.schema[o] # w.schema[o]
        PROVE  ChangedBetween(o, u, w)
    <3>1. u.schema = v.schema \/ u.schema = Now.schema
      BY <1>1, <2>3
    <3> QED
      BY <2>0, <2>1, <2>3, <3>1 DEF Explained
  <2> QED
    BY <2>2, <2>3 DEF Explained
<1> QED
  BY <1>2, <1>3 DEF Fits

LEMMA RunsNext ==
  ASSUME IInv, NEW h \in Runs,
         RunAction(h)
  PROVE  Witnessed' /\ Filed' /\ Progress'
<1> DEFINE Next1 == Witnessed' /\ Filed' /\ Progress'
<1>0. /\ Types /\ Sound(run[h]) /\ run[h] \in RunRecord
      /\ run[h].last \in Held \cup {None} /\ run[h].base \in Held \cup {None}
      /\ Started(run[h]) => Seen(run[h]) \in Views /\ Fits(Seen(run[h]))
      /\ \A q \in stored : q.id < nextId /\ \A s \in Held : q.id = s.id => q.schema = s.schema
      /\ \A e \in log : e.exact => Happened(e)
  BY ViewsFit DEF IInv, Types, Progress, Held, Past, Views, Filed, ExactEventsHappened
(* A step that writes nothing but the record of the run.                    *)
<1>a. ASSUME NEW r, Becomes(h, r), UNCHANGED <<clock, server, changes, snaps, nextId, stored, log>>,
             r.last \in Held \cup {None}, r.base \in Held \cup {None},
             Started(r) => Fits(Seen(r)), r.pc # "saveSchema", Sound(r)
      PROVE  Next1
  <2>1. /\ \A q \in stored' : q.id < nextId /\ \A s \in Held : q.id = s.id => q.schema = s.schema
        /\ \A e \in log' : e.exact => Happened(e)
    BY <1>0, <1>a
  <2> QED
    BY <1>a, <2>1, RunStep
<1>i. Idle.last = None /\ Idle.base = None /\ Idle.pc = "idle" /\ Idle.events = {}
  BY DEF Idle
<1>j. Sound(Idle) /\ ~Started(Idle)
  BY <1>i DEF Sound, Dated, Started
<1>1. CASE Connect(h)
  <2>1. Becomes(h, Connected)
    BY <1>0, <1>1, Steps
  <2>2. /\ Connected.last = None /\ Connected.base = None /\ Connected.pc = "sample"
        /\ Connected.events = {} /\ Connected.seen = Len(changes) /\ Connected.schema = None
        /\ Connected.ctx = [config |-> None, reset |-> Never, start |-> server.start]
    BY DEF Connected, Idle
  <2>3. /\ Seen(Connected).seen = Now.seen /\ Seen(Connected).end = Now.end
        /\ Seen(Connected).start = Now.start /\ Seen(Connected).reset = Never
        /\ Seen(Connected).config = None /\ Seen(Connected).schema = None
        /\ Now.end = clock /\ Now \in Views
    BY <2>2 DEF Seen, Now, Dated, Views
  <2>4. Fits(Seen(Connected))
    BY <1>0, <2>3, ReadingFits DEF IInv
  <2>5. Sound(Connected)
    BY <2>2 DEF Sound
  <2> HIDE DEF Connected
  <2> QED
    BY <1>1, <1>a, <2>1, <2>2, <2>4, <2>5 DEF Connect, Store
(* A reading changes what is known and nothing else.                        *)
<1>r. ASSUME NEW r, Becomes(h, r), UNCHANGED <<clock, server, changes, snaps, nextId, stored, log>>,
             run[h].pc \in {"sample", "date"}, r.pc \in {"sample", "date", "readLast"},
             r.last = run[h].last, r.base = run[h].base, r.events = run[h].events, Fits(Seen(r))
      PROVE  Next1
  <2>1. run[h].last = None /\ run[h].base = None
    BY <1>0, <1>r DEF Sound, Dated
  <2>2. Sound(r)
    BY <1>0, <1>r, <2>1 DEF Sound
  <2> QED
    BY <1>a, <1>r, <2>1, <2>2
<1>s. ASSUME run[h].pc \in {"sample", "date"}
      PROVE  /\ Seen(run[h]) \in Views /\ Fits(Seen(run[h])) /\ Seen(run[h]).end = clock
             /\ Seen(run[h]).seen = run[h].seen /\ Seen(run[h]).start = run[h].ctx.start
             /\ Seen(run[h]).reset = run[h].ctx.reset /\ Seen(run[h]).config = run[h].ctx.config
             /\ Seen(run[h]).schema = run[h].schema
             /\ run[h].ctx \in Context
  BY <1>0, <1>s DEF Seen, Dated, Started, Types
<1>9. ASSUME NEW s \in Sections, Sample(h, s)
      PROVE  Next1
  <2>0. run[h].pc = "sample" /\ UNCHANGED <<clock, server, changes, snaps, nextId, stored, log>>
    BY <1>9 DEF Sample, Store
  <2>1. ASSUME NEW config \in {server.config, None}, Becomes(h, HasSettings(run[h], config))
        PROVE  Next1
    <3> DEFINE r == HasSettings(run[h], config)
    <3>1. /\ r.pc = "sample" /\ r.last = run[h].last /\ r.base = run[h].base /\ r.events = run[h].events
          /\ r.seen = run[h].seen /\ r.schema = run[h].schema /\ r.ctx.config = config
          /\ r.ctx.start = run[h].ctx.start /\ r.ctx.reset = run[h].ctx.reset
      BY <1>0, <1>s, <2>0 DEF RunRecord, HasSettings, Context
    <3>2. Becomes(h, r)
      BY <2>1
    <3> HIDE DEF r
    <3>3. /\ Seen(r).seen = Seen(run[h]).seen /\ Seen(r).end = Seen(run[h]).end
          /\ Seen(r).start = Seen(run[h]).start /\ Seen(r).reset = Seen(run[h]).reset
          /\ Seen(r).config = config /\ Seen(r).schema = Seen(run[h]).schema
      BY <1>s, <2>0, <3>1 DEF Seen, Dated
    <3>4. Fits(Seen(r))
      BY <1>0, <1>s, <2>0, <3>3, ReadingFits DEF IInv
    <3> QED
      BY <1>r, <2>0, <3>1, <3>2, <3>4
  <2>2. ASSUME NEW schema \in {server.schema, None}, Becomes(h, HasSchema(run[h], schema))
        PROVE  Next1
    <3> DEFINE r == HasSchema(run[h], schema)
    <3>1. /\ r.pc = "sample" /\ r.last = run[h].last /\ r.base = run[h].base /\ r.events = run[h].events
          /\ r.seen = run[h].seen /\ r.schema = schema /\ r.ctx = run[h].ctx
      BY <1>0, <2>0 DEF RunRecord, HasSchema
    <3>2. Becomes(h, r)
      BY <2>2
    <3> HIDE DEF r
    <3>3. /\ Seen(r).seen = Seen(run[h]).seen /\ Seen(r).end = Seen(run[h]).end
          /\ Seen(r).start = Seen(run[h]).start /\ Seen(r).reset = Seen(run[h]).reset
          /\ Seen(r).config = Seen(run[h]).config /\ Seen(r).schema = schema
      BY <1>s, <2>0, <3>1 DEF Seen, Dated
    <3>4. Fits(Seen(r))
      BY <1>0, <1>s, <2>0, <3>3, ReadingFits DEF IInv
    <3> QED
      BY <1>r, <2>0, <3>1, <3>2, <3>4
  <2> QED
    BY <1>0, <1>9, <2>1, <2>2, Steps
<1>10. CASE ReadHealth(h)
  <2>0. run[h].pc = "sample" /\ UNCHANGED <<clock, server, changes, snaps, nextId, stored, log>>
    BY <1>10 DEF ReadHealth, Store
  <2>1. PICK reset \in {server.reset, Never} : Becomes(h, HasHealth(run[h], reset))
    BY <1>0, <1>10, Steps
  <2> DEFINE r == HasHealth(run[h], reset)
  <2>2. /\ r.pc = "date" /\ r.last = run[h].last /\ r.base = run[h].base /\ r.events = run[h].events
        /\ r.seen = run[h].seen /\ r.schema = run[h].schema /\ r.ctx.config = run[h].ctx.config
        /\ r.ctx.start = run[h].ctx.start /\ r.ctx.reset = reset
    BY <1>0, <1>s, <2>0 DEF RunRecord, HasHealth, Context
  <2>3. Becomes(h, r)
    BY <2>1
  <2> HIDE DEF r
  <2>4. /\ Seen(r).seen = Seen(run[h]).seen /\ Seen(r).end = Seen(run[h]).end
        /\ Seen(r).start = Seen(run[h]).start /\ Seen(r).reset = reset
        /\ Seen(r).config = Seen(run[h]).config /\ Seen(r).schema = Seen(run[h]).schema
    BY <1>s, <2>0, <2>2 DEF Seen, Dated
  <2>5. Fits(Seen(r))
    BY <1>0, <1>s, <2>0, <2>4, ReadingFits DEF IInv
  <2> QED
    BY <1>r, <2>0, <2>2, <2>3, <2>5
<1>11. CASE DateRun(h)
  <2>0. run[h].pc = "date" /\ UNCHANGED <<clock, server, changes, snaps, nextId, stored, log>>
    BY <1>11 DEF DateRun, Store
  <2> DEFINE r == HasDate(run[h])
  <2>1. Becomes(h, r)
    BY <1>0, <1>11, Steps
  <2>2. /\ r.pc = "readLast" /\ r.last = run[h].last /\ r.base = run[h].base /\ r.events = run[h].events
        /\ r.seen = run[h].seen /\ r.schema = run[h].schema /\ r.ctx = run[h].ctx /\ r.at = clock
    BY <1>0 DEF RunRecord, HasDate
  <2> HIDE DEF r
  <2>3. Seen(r) = Seen(run[h])
    BY <2>0, <2>2 DEF Seen, Dated
  <2> QED
    BY <1>r, <1>s, <2>0, <2>1, <2>2, <2>3
<1>d. ASSUME NEW r, Dated(run[h]), Seen(r) = Seen(run[h])
      PROVE  Fits(Seen(r))
  BY <1>0, <1>d DEF Started
<1>2. CASE ReadLast(h)
  <2>1. PICK last \in Previous(run[h].at) \cup {None} : Becomes(h, HasRead(run[h], last))
    BY <1>0, <1>2, Steps
  <2> DEFINE r == HasRead(run[h], last)
  <2>2. /\ r.last = last /\ r.pc = (IF last = None THEN "save" ELSE "derive") /\ r.base = run[h].base
        /\ r.events = run[h].events /\ r.at = run[h].at /\ r.ctx = run[h].ctx /\ r.schema = run[h].schema
        /\ r.seen = run[h].seen
    BY <1>0 DEF RunRecord, HasRead
  <2>3. last # None => last \in Held /\ last.at <= run[h].at
    BY DEF Previous, Held
  <2>4. Dated(run[h]) /\ Seen(r) = Seen(run[h])
    BY <1>2, <2>2 DEF ReadLast, Dated, Seen
  <2>b. Becomes(h, r)
    BY <2>1
  <2> HIDE DEF r
  <2>5. Sound(r)
    BY <1>0, <2>2, <2>3 DEF Sound, Dated, Started, Unbroken, Breaks
  <2>u. UNCHANGED <<clock, server, changes, snaps, nextId, stored, log>>
    BY <1>2 DEF ReadLast, Store
  <2>f. Fits(Seen(r)) /\ r.pc # "saveSchema"
    BY <1>d, <2>4, <2>2
  <2>l. r.last \in Held \cup {None} /\ r.base \in Held \cup {None}
    BY <1>0, <2>2, <2>3
  <2> QED
    BY <1>a, <2>b, <2>u, <2>f, <2>l, <2>5
<1>3. CASE DeriveEvents(h)
  <2>1. PICK prev \in LatestSchema \cup {None} : Becomes(h, HasDerived(run[h], prev))
    BY <1>0, <1>3, Steps
  <2> DEFINE r == HasDerived(run[h], prev)
  <2>2. /\ r.last = run[h].last /\ r.pc \in {"save", "compare"} /\ r.base = run[h].base
        /\ r.events = Derive(run[h], prev) /\ r.at = run[h].at /\ r.ctx = run[h].ctx
        /\ r.schema = run[h].schema /\ r.seen = run[h].seen
    BY <1>0 DEF RunRecord, HasDerived
  <2>3. run[h].pc = "derive" /\ Dated(run[h]) /\ Seen(r) = Seen(run[h])
    BY <1>3, <2>2 DEF DeriveEvents, Dated, Seen
  <2>4. \A e \in Derive(run[h], prev) : e.exact => Happened(e)
    BY <2>3, DerivedHappened
  <2>b. Becomes(h, r)
    BY <2>1
  <2> HIDE DEF r
  <2>5. Sound(r)
    BY <1>0, <2>2, <2>3, <2>4 DEF Sound, Dated, Started, Unbroken, Breaks
  <2>u. UNCHANGED <<clock, server, changes, snaps, nextId, stored, log>>
    BY <1>3 DEF DeriveEvents, Store
  <2>f. Fits(Seen(r)) /\ r.pc # "saveSchema"
    BY <1>d, <2>3, <2>2
  <2>l. r.last \in Held \cup {None} /\ r.base \in Held \cup {None}
    BY <1>0, <2>2
  <2> QED
    BY <1>a, <2>b, <2>u, <2>f, <2>l, <2>5
<1>4. CASE Compare(h)
  <2>1. PICK aged \in Previous(run[h].at - MinAge) \cup {None} : Becomes(h, HasCompared(run[h], aged))
    BY <1>0, <1>4, Steps
  <2> DEFINE r == HasCompared(run[h], aged)
             b == IF aged = None THEN run[h].last ELSE aged
  <2>2. /\ r.last = None /\ r.pc = "save" /\ r.base = Chosen(run[h], aged)
        /\ r.events = run[h].events /\ r.at = run[h].at /\ r.ctx = run[h].ctx
        /\ r.schema = run[h].schema /\ r.seen = run[h].seen
    BY <1>0 DEF RunRecord, HasCompared
  <2>3. run[h].pc = "compare" /\ Dated(run[h]) /\ Seen(r) = Seen(run[h])
    BY <1>4, <2>2 DEF Compare, Dated, Seen
  <2>4. b \in Held
    BY <1>0, <2>3 DEF Sound, Previous, Held
  <2>5. r.base # None => r.base = b /\ ~StatsResetBetween(b, run[h].ctx)
    BY <2>2 DEF Chosen, Compute
  <2>b. Becomes(h, r)
    BY <2>1
  <2> HIDE DEF r, b
  <2>6. r.base # None => r.seen <= Len(changes) /\ Unbroken(r)
    <3>1. Honest(Seen(run[h])) /\ Seen(run[h]).seen = run[h].seen
      BY <1>0, <2>3 DEF Started, Fits, Seen
    <3>2. run[h].seen <= Len(changes)
      BY <3>1, ChangesAre DEF Honest, IInv
    <3>3. Breaks(r) = Breaks(run[h])
      BY <2>2 DEF Breaks
    <3> QED
      BY <2>2, <2>3, <2>4, <2>5, <3>2, <3>3, ChosenIsUnbroken DEF Unbroken
  <2>7. Sound(r)
    BY <1>0, <2>2, <2>6 DEF Sound, Dated, Started
  <2>8. r.base \in Held \cup {None}
    BY <2>4, <2>5
  <2>u. UNCHANGED <<clock, server, changes, snaps, nextId, stored, log>>
    BY <1>4 DEF Compare, Store
  <2>f. Fits(Seen(r)) /\ r.pc # "saveSchema"
    BY <1>d, <2>3, <2>2
  <2>l. r.last \in Held \cup {None} /\ r.base \in Held \cup {None}
    BY <1>0, <2>2, <2>8
  <2> QED
    BY <1>a, <2>b, <2>u, <2>f, <2>l, <2>7
<1>5. CASE Save(h)
  <2>1. CASE Becomes(h, Idle) /\ UNCHANGED <<snaps, nextId>>
    BY <1>5, <1>a, <1>i, <1>j, <2>1 DEF Save
  <2>2. CASE snaps' = snaps \cup {Saved(run[h])} /\ nextId' = nextId + 1 /\ Becomes(h, HasSaved(run[h]))
    BY <1>5, <2>2, SaveStep
  <2> QED
    BY <1>0, <1>5, <2>1, <2>2, Steps
<1>6. CASE SaveSchema(h)
  <2> DEFINE r == HasFiled(run[h])
  <2>1. Becomes(h, r)
    BY <1>0, <1>6, Steps
  <2>2. /\ r.last = None /\ r.base = None /\ r.pc = "appendEvents" /\ r.events = run[h].events
    BY DEF HasFiled, Idle
  <2>3. stored' \subseteq stored \cup {[id |-> run[h].id, schema |-> run[h].schema]}
    BY <1>6 DEF SaveSchema, File, KeepTwo
  <2>4. run[h].id < nextId /\ \A s \in Held : run[h].id = s.id => run[h].schema = s.schema
    BY <1>6 DEF IInv, Filed, SaveSchema
  <2>5. \A q \in stored' : q.id < nextId /\ \A s \in Held : q.id = s.id => q.schema = s.schema
    BY <1>0, <2>3, <2>4
  <2> HIDE DEF r
  <2>6. Sound(r) /\ ~Started(r)
    BY <1>0, <2>2 DEF Sound, Dated, Started
  <2>7. \A e \in log' : e.exact => Happened(e)
    BY <1>0, <1>6 DEF SaveSchema
  <2>8. UNCHANGED <<clock, server, changes, snaps, nextId>>
    BY <1>6 DEF SaveSchema
  <2> QED
    BY <2>1, <2>2, <2>5, <2>6, <2>7, <2>8, RunStep
<1>7. CASE AppendEvents(h)
  <2>1. Becomes(h, Idle)
    BY <1>0, <1>7, Steps
  <2>2. UNCHANGED <<clock, server, changes, snaps, nextId, stored>> /\ log' \subseteq log \cup run[h].events
    BY <1>7 DEF AppendEvents
  <2>3. \A e \in log' : e.exact => Happened(e)
    BY <1>0, <2>2 DEF Sound
  <2>4. \A q \in stored' : q.id < nextId /\ \A s \in Held : q.id = s.id => q.schema = s.schema
    BY <1>0, <2>2
  <2> QED
    BY <1>i, <1>j, <2>1, <2>2, <2>3, <2>4, RunStep
<1>8. CASE Crash(h)
  BY <1>0, <1>8, <1>a, <1>i, <1>j, Steps DEF Crash, Store
<1> QED
  BY <1>1, <1>2, <1>3, <1>4, <1>5, <1>6, <1>7, <1>8, <1>9, <1>10, <1>11 DEF RunAction
-----------------------------------------------------------------------------
LEMMA IInvInit == Init => IInv
<1> SUFFICES ASSUME Init
             PROVE  IInv
  OBVIOUS
<1>1. Held = {} /\ stored = {} /\ log = {}
  BY DEF Init, Held, Idle
<1>2. \A h \in Runs : /\ run[h].pc = "idle" /\ run[h].last = None
                      /\ run[h].base = None /\ run[h].events = {}
  BY DEF Init, Idle
<1>3. Filed
  BY <1>1, <1>2 DEF Filed
<1>4. Progress
  BY <1>1, <1>2 DEF Progress, Sound, ExactEventsHappened
<1> QED
  BY <1>3, <1>4, TypesInit, WitnessedInit DEF IInv

LEMMA IInvNext == IInv /\ [Next]_vars => IInv'
<1> SUFFICES ASSUME IInv, [Next]_vars
             PROVE  IInv'
  OBVIOUS
<1>1. Types'
  BY TypesNext DEF IInv
<1>k. ASSUME UNCHANGED <<run, log, changes, nextId, stored>>, Held' \subseteq Held, Witnessed'
      PROVE  Witnessed' /\ Filed' /\ Progress'
  <2>1. Filed'
    BY <1>k DEF IInv, Filed
  <2>2. Progress'
    BY <1>k DEF IInv, Progress, Sound, Unbroken, Happened, ExactEventsHappened, Dated, Breaks
  <2> QED
    BY <1>k, <2>1, <2>2
<1>w. ASSUME UNCHANGED <<clock, server, run, changes>>, Held' \subseteq Held
      PROVE  Witnessed'
  <2>1. Past' \subseteq Views
    BY <1>w DEF Past, Views, View, Seen, Started, Dated
  <2>2. Now \in Views /\ Fits(Now)
    BY ViewsFit DEF Views, IInv
  <2> QED
    BY <1>w, <2>1, <2>2, WitnessedKept DEF IInv
<1>2. CASE Tick
  <2>1. Witnessed'
    BY <1>2, WitnessedTick DEF IInv
  <2>2. Held' = Held /\ UNCHANGED <<run, log, changes, nextId, stored>>
    BY <1>2 DEF Tick, Store, Held
  <2> QED
    BY <1>1, <1>k, <2>1, <2>2 DEF IInv
<1>3. CASE ServerChanges
  <2>1. PICK topic, new : Records(topic, new) /\ Change(topic, new)
    BY <1>3, ChangesAreRecorded DEF IInv
  <2> QED
    BY <1>1, <2>1, ChangeStep DEF IInv
<1>4. CASE Forget
  <2>1. /\ UNCHANGED <<clock, server, run, log, changes, nextId, stored>>
        /\ Held' \subseteq Held
    BY <1>4 DEF Forget, Held
  <2>3. Witnessed'
    BY <1>w, <2>1
  <2> QED
    BY <1>1, <1>k, <2>1, <2>3 DEF IInv
<1>5. ASSUME NEW h \in Runs,
             RunAction(h)
      PROVE  IInv'
  BY <1>1, <1>5, RunsNext DEF IInv
<1>6. CASE UNCHANGED vars
  <2>1. Held' = Held /\ UNCHANGED <<clock, server, run, log, changes, nextId, stored>>
    BY <1>6 DEF vars, Held
  <2>3. Witnessed'
    BY <1>w, <2>1
  <2> QED
    BY <1>1, <1>k, <2>1, <2>3 DEF IInv
<1> QED
  BY <1>2, <1>3, <1>4, <1>5, <1>6 DEF Next, RunAction

(* The invariant is inductive: it holds in every state the runs reach.      *)
THEOREM Invariance == Spec => []IInv
  BY IInvInit, IInvNext, PTL DEF Spec

(* An event pgbot logs as known tells of a change that was made before its  *)
(* window ends, and in its window unless it was made while one of the two   *)
(* runs was still reading: however runs overlap, fail or die, whichever of  *)
(* their readings fail, and whatever retention removes.                     *)
THEOREM EventsHappened == Spec => []ExactEventsHappened
<1>1. IInv => ExactEventsHappened
  BY DEF IInv, Progress
<1> QED
  BY <1>1, Invariance, PTL

(* No rate is computed from counters that were lost between the date of the *)
(* baseline of a run and the start of the run: by a restart, or by a reset  *)
(* of the statistics if the run learned when they were reset.               *)
THEOREM DeltasAreUnbroken == Spec => []NoDeltaAcrossReset
<1>1. IInv => NoDeltaAcrossReset
  BY DEF IInv, Progress, Sound, Unbroken, NoDeltaAcrossReset
<1> QED
  BY <1>1, Invariance, PTL

LEMMA LatestStays ==
  ASSUME IInv, [Next]_vars, NEW r \in stored
  PROVE  \E q \in stored' : q.id >= r.id
<1>1. \A q \in stored : q.id \in Nat
  BY DEF IInv, Types
<1>2. CASE UNCHANGED stored
  BY <1>1, <1>2
<1>3. ASSUME NEW h \in Runs, SaveSchema(h), run[h].schema # None, stored' = File(run[h].id, run[h].schema)
      PROVE  \E q \in stored' : q.id >= r.id
  <2> DEFINE rows == stored \cup {[id |-> run[h].id, schema |-> run[h].schema]}
  <2>1. stored' = KeepTwo(rows)
    BY <1>3 DEF File
  <2>2. \A q \in rows : q.id \in Nat /\ q.id < nextId
    BY <1>3, <1>1 DEF SaveSchema, IInv, Filed, Types, RunRecord
  <2>3. r \in rows /\ nextId \in Nat
    BY DEF IInv, Types
  <2> HIDE DEF rows
  <2> QED
    BY <2>1, <2>2, <2>3, GreatestStays
<1>4. ASSUME NEW h \in Runs, SaveSchema(h)
      PROVE  \/ UNCHANGED stored
             \/ run[h].schema # None /\ stored' = File(run[h].id, run[h].schema)
  BY <1>4 DEF SaveSchema
<1>5. ASSUME Next, ~\E h \in Runs : SaveSchema(h)
      PROVE  UNCHANGED stored
  BY <1>5 DEF Next, Tick, ServerChanges, Change, Forget, Connect, Sample, ReadHealth, DateRun, ReadLast, DeriveEvents, Compare, Save,
              AppendEvents, Crash, Store
<1>6. CASE UNCHANGED vars
  BY <1>2, <1>6 DEF vars
<1> QED
  BY <1>2, <1>3, <1>4, <1>5, <1>6

(* What a run compares the schema with is that of the run it is filed       *)
(* under, and a slow run that stores its fingerprint after a later one did  *)
(* never takes the later one away.                                          *)
THEOREM FingerprintsKeepTheirRun == Spec => FingerprintsStayFiled
<1>1. IInv => FingerprintOfItsSnapshot
  BY DEF IInv, Filed, FingerprintOfItsSnapshot, Held
<1>2. IInv /\ [Next]_vars => [\A r \in stored : \E q \in stored' : q.id >= r.id]_vars
  BY LatestStays
<1> QED
  BY <1>1, <1>2, Invariance, PTL DEF Spec, FingerprintsStayFiled, LatestNeverRegresses
=============================================================================
