---------------------------- MODULE Catalog_proofs ----------------------------
(***************************************************************************)
(* What holds of an upgrade for any tables from before, any facts that     *)
(* come after it, and however often the process ends on the way; of the    *)
(* aggregates; and of a client who pages through a catalogue at rest.      *)
(***************************************************************************)
EXTENDS Catalog, FiniteSetTheorems, SequenceTheorems, WellFoundedInduction, TLAPS

Tables == {"version", "made", "events", "repos", "pins"}

\* A database has all its tables.
Whole(d) == d = [t \in Tables |-> d[t]]

\* Every old row is an event.
Carries(d) == \A f \in DOMAIN old : f \in DOMAIN d.events /\ d.events[f] = old[f]

\* The version a step of the migrations works on.
VersionFits ==
  /\ boot \in {"tables", "copy", "validate", "aggregate"} => work.version = 0
  /\ boot = "column" => work.version = 1
  /\ boot = "radar" => work.version = 2
  /\ boot = "record" => work.version \in 0..2

\* From the validation on, the transaction has what the old tables have; outside of a
\* transaction there is one database.
WorkCarries ==
  /\ boot \in {"down", "check", "serving"} => work = db
  /\ boot = "validate" => work.events = Carried
  /\ boot \in {"aggregate", "column", "radar", "record", "commit"} => Carries(work)

IInv ==
  /\ DOMAIN old \subseteq OldFacts
  /\ Whole(db) /\ Whole(work)
  /\ db.version \in 0..3 /\ work.version \in 0..3
  /\ boot \in Steps
  /\ VersionFits
  /\ WorkCarries
  /\ LegacyIsCarried

\* A write to one table leaves the others.
LEMMA OneTable ==
  ASSUME NEW d, Whole(d), NEW v
  PROVE  /\ Whole([d EXCEPT !.version = v]) /\ [d EXCEPT !.version = v].version = v
         /\ [d EXCEPT !.version = v].events = d.events
         /\ Whole([d EXCEPT !.made = v]) /\ [d EXCEPT !.made = v].version = d.version
         /\ [d EXCEPT !.made = v].events = d.events
         /\ Whole([d EXCEPT !.events = v]) /\ [d EXCEPT !.events = v].version = d.version
         /\ [d EXCEPT !.events = v].events = v
         /\ Whole([d EXCEPT !.repos = v]) /\ [d EXCEPT !.repos = v].version = d.version
         /\ [d EXCEPT !.repos = v].events = d.events
         /\ Whole([d EXCEPT !.pins = v]) /\ [d EXCEPT !.pins = v].version = d.version
         /\ [d EXCEPT !.pins = v].events = d.events
<1> DEFINE g == [t \in Tables |-> d[t]]
<1>0. d = g
  BY DEF Whole
<1>1. /\ Whole([d EXCEPT !.version = v]) /\ [d EXCEPT !.version = v].version = v
      /\ [d EXCEPT !.version = v].events = d.events
  BY <1>0 DEF Whole, Tables
<1>2. /\ Whole([d EXCEPT !.made = v]) /\ [d EXCEPT !.made = v].version = d.version
      /\ [d EXCEPT !.made = v].events = d.events
  BY <1>0 DEF Whole, Tables
<1>3. /\ Whole([d EXCEPT !.events = v]) /\ [d EXCEPT !.events = v].version = d.version
      /\ [d EXCEPT !.events = v].events = v
  BY <1>0 DEF Whole, Tables
<1>4. /\ Whole([d EXCEPT !.repos = v]) /\ [d EXCEPT !.repos = v].version = d.version
      /\ [d EXCEPT !.repos = v].events = d.events
  BY <1>0 DEF Whole, Tables
<1>5. /\ Whole([d EXCEPT !.pins = v]) /\ [d EXCEPT !.pins = v].version = d.version
      /\ [d EXCEPT !.pins = v].events = d.events
  BY <1>0 DEF Whole, Tables
<1> QED BY <1>1, <1>2, <1>3, <1>4, <1>5

\* The validation lets only a copy pass that left nothing out: a source of which a row
\* is missing has fewer events than rows.
LEMMA NothingMissing ==
  ASSUME DOMAIN old \subseteq OldFacts, ~Mismatch(Carried)
  PROVE  Carried = [f \in DOMAIN old |-> old[f]]
<1>1. DOMAIN Carried = DOMAIN old \ unjoined
  BY DEF Carried
<1>2. ASSUME NEW f \in DOMAIN old, f \in unjoined
      PROVE  FALSE
  <2> DEFINE s == SourceOf[f]
             there == {g \in DOMAIN old : SourceOf[g] = s}
             copied == {g \in DOMAIN old \ unjoined : SourceOf[g] = s}
  <2>1. s \in Sources
    BY FactsAssumption DEF Facts
  <2>2. IsFiniteSet(there)
    BY FactsAssumption, FS_Subset
  <2>3. copied \in SUBSET there
    OBVIOUS
  <2>4. Cardinality(copied) <= Cardinality(there) /\ (Cardinality(there) = Cardinality(copied) => there = copied)
    BY <2>2, <2>3, FS_Subset
  <2>5. f \in there /\ f \notin copied
    BY <1>2
  <2>6. IsFiniteSet(copied)
    BY <2>2, <2>3, FS_Subset
  <2>7. Cardinality(there) \in Nat /\ Cardinality(copied) \in Nat
    BY <2>2, <2>6, FS_CardinalityType
  <2>8. Cardinality(copied) < Cardinality(there)
    BY <2>4, <2>5, <2>7
  <2>9. CountOf(DOMAIN Carried, s) = Cardinality(copied) /\ CountOf(DOMAIN old, s) = Cardinality(there)
    BY <1>1 DEF CountOf
  <2> HIDE DEF there, copied, s
  <2> QED BY <2>1, <2>8, <2>9 DEF Mismatch
<1> QED BY <1>2 DEF Carried

\* A refused start or a crash falls back on what is committed.
LEMMA RefuseStep == ASSUME IInv, Refuse, UNCHANGED <<old, unjoined>> PROVE IInv'
<1>1. work' = db /\ db' = db /\ boot' = "down"
  BY DEF Refuse, Kept
<1> QED BY <1>1 DEF IInv, VersionFits, WorkCarries, LegacyIsCarried, Steps

\* A statement of a migration: nothing is committed yet.
LEMMA StatementStep ==
  ASSUME IInv, NEW step \in Steps \ {"down", "check", "serving"}, NEW d, Goto(step, d),
         UNCHANGED <<old, unjoined>>, Whole(d), d.version \in 0..3,
         step \in {"copy", "validate", "aggregate"} => d.version = 0,
         step = "record" => d.version \in 0..2,
         step \notin {"tables", "column", "radar"},
         step = "validate" => d.events = Carried,
         step \in {"aggregate", "record", "commit"} => Carries(d)
  PROVE  IInv'
<1>1. boot' = step /\ work' = d /\ db' = db /\ old' = old /\ unjoined' = unjoined
  BY DEF Goto
<1>2. VersionFits'
  BY <1>1 DEF VersionFits, Steps
<1>3. WorkCarries'
  BY <1>1 DEF WorkCarries, Carries, Carried, Steps
<1> QED BY <1>1, <1>2, <1>3 DEF IInv, LegacyIsCarried

LEMMA MigrateStep == ASSUME IInv, Migrate PROVE IInv'
<1>1. CASE Boot
  BY <1>1 DEF Boot, IInv, VersionFits, WorkCarries, LegacyIsCarried, Steps
<1>2. CASE Begin
  <2>1. /\ work = db /\ db.version \in 0..3
        /\ boot' = <<"tables", "column", "radar", "serving">>[db.version + 1]
        /\ UNCHANGED <<old, unjoined, db, work>>
    BY <1>2 DEF Begin, IInv, WorkCarries
  <2>2. /\ db.version = 0 => boot' = "tables"
        /\ db.version = 1 => boot' = "column"
        /\ db.version = 2 => boot' = "radar"
        /\ db.version = 3 => boot' = "serving"
    BY <2>1
  <2>3. db.version >= 1 => Carries(db)
    BY DEF IInv, LegacyIsCarried, Carries
  <2>4. db.version \in {0, 1, 2, 3}
    BY <2>1
  <2>5. boot' \in Steps /\ VersionFits'
    BY <2>1, <2>2, <2>4 DEF VersionFits, Steps
  <2>6. WorkCarries'
    BY <2>1, <2>2, <2>3, <2>4 DEF WorkCarries, Carries
  <2> QED BY <2>1, <2>5, <2>6 DEF IInv, LegacyIsCarried
<1>3. CASE MakeTables
  <2> DEFINE d == [work EXCEPT !.made = @ \cup {"events"}]
  <2>1. Whole(work) /\ work.version = 0 /\ UNCHANGED <<old, unjoined>>
    BY <1>3 DEF MakeTables, IInv, VersionFits
  <2>2. CASE Goto("copy", d)
    <3>1. Whole(d) /\ d.version = 0
      BY <2>1, OneTable
    <3> HIDE DEF d
    <3> QED BY <2>1, <2>2, <3>1, StatementStep DEF Steps
  <2> QED BY <1>3, <2>2, RefuseStep DEF MakeTables
<1>4. CASE CopyOldFacts
  <2> DEFINE d == [work EXCEPT !.events = Carried]
  <2>1. Whole(d) /\ d.version = 0 /\ d.events = Carried
    <3>1. Whole(work) /\ work.version = 0
      BY <1>4 DEF CopyOldFacts, IInv, VersionFits
    <3> QED BY <3>1, OneTable
  <2> HIDE DEF d
  <2>2. Goto("validate", d) /\ UNCHANGED <<old, unjoined>>
    BY <1>4 DEF CopyOldFacts, d
  <2> QED BY <2>1, <2>2, StatementStep DEF Steps
<1>5. CASE Validate
  <2>1. Whole(work) /\ work.version = 0 /\ work.events = Carried
    BY <1>5 DEF Validate, IInv, VersionFits, WorkCarries
  <2>2. CASE ~Mismatch(work.events)
    <3>1. Carried = [f \in DOMAIN old |-> old[f]]
      BY <2>1, <2>2, NothingMissing DEF IInv
    <3>2. Carries(work)
      BY <2>1, <3>1 DEF Carries
    <3> QED BY <1>5, <2>1, <2>2, <3>2, StatementStep DEF Validate, Steps
  <2> QED BY <1>5, <2>2, RefuseStep DEF Validate
<1>6. CASE AggregateOldFacts
  <2> DEFINE repos == [r \in DOMAIN work.repos |-> Aggregated(work.repos[r], work.events, r)]
             d == [work EXCEPT !.repos = repos]
  <2>1. Goto("record", d) /\ UNCHANGED <<old, unjoined>>
    BY <1>6 DEF AggregateOldFacts
  <2> HIDE DEF repos
  <2>2. Whole(d) /\ d.version = 0 /\ d.events = work.events /\ Carries(work)
    BY <1>6, OneTable DEF AggregateOldFacts, IInv, VersionFits, WorkCarries
  <2> HIDE DEF d
  <2> QED BY <2>1, <2>2, StatementStep DEF Steps, Carries
<1>7. CASE AddColumn
  <2> DEFINE d == [work EXCEPT !.made = @ \cup {"hash"}]
  <2>1. Goto("record", d) /\ UNCHANGED <<old, unjoined>>
    BY <1>7 DEF AddColumn
  <2>2. Whole(d) /\ d.version = 1 /\ d.events = work.events /\ Carries(work)
    BY <1>7, OneTable DEF AddColumn, IInv, VersionFits, WorkCarries
  <2> HIDE DEF d
  <2> QED BY <2>1, <2>2, StatementStep DEF Steps, Carries
<1>8. CASE MakeRadarTables
  <2> DEFINE d == [work EXCEPT !.made = @ \cup {"radar"}]
  <2>1. Whole(d) /\ d.version = 2 /\ d.events = work.events /\ Carries(work)
    <3>1. Whole(work) /\ work.version = 2 /\ Carries(work)
      BY <1>8 DEF MakeRadarTables, IInv, VersionFits, WorkCarries
    <3> QED BY <3>1, OneTable
  <2>2. CASE Goto("record", d)
    <3> HIDE DEF d
    <3>1. UNCHANGED <<old, unjoined>>
      BY <1>8 DEF MakeRadarTables
    <3> QED BY <2>1, <2>2, <3>1, StatementStep DEF Steps, Carries
  <2> QED BY <1>8, <2>2, RefuseStep DEF MakeRadarTables
<1>9. CASE RecordVersion
  <2> DEFINE d == [work EXCEPT !.version = work.version + 1]
  <2>1. Goto("commit", d) /\ UNCHANGED <<old, unjoined>>
    BY <1>9 DEF RecordVersion
  <2>2. /\ Whole(d) /\ d.version = work.version + 1 /\ work.version \in 0..2
        /\ d.events = work.events /\ Carries(work)
    <3>1. Whole(work) /\ work.version \in 0..2 /\ Carries(work)
      BY <1>9 DEF RecordVersion, IInv, VersionFits, WorkCarries
    <3> QED BY <3>1, OneTable
  <2> HIDE DEF d
  <2> QED BY <2>1, <2>2, StatementStep DEF Steps, Carries
<1>10. CASE CommitVersion
  <2>1. db' = work /\ work' = work /\ boot' = "check" /\ old' = old /\ Carries(work)
    BY <1>10 DEF CommitVersion, IInv, WorkCarries
  <2> QED BY <2>1 DEF IInv, VersionFits, WorkCarries, LegacyIsCarried, Carries, Steps
<1> QED BY <1>1, <1>2, <1>3, <1>4, <1>5, <1>6, <1>7, <1>8, <1>9, <1>10 DEF Migrate

\* A commit of the serving process that leaves the old facts where they are.
LEMMA CommitStep ==
  ASSUME IInv, NEW d, Commit(d), Whole(d), d.version = db.version, Carries(db) => Carries(d)
  PROVE  IInv'
<1>1. boot = "serving" /\ boot' = "serving" /\ db' = d /\ work' = d /\ old' = old
  BY DEF Commit
<1>2. db.version >= 1 => Carries(db)
  BY DEF IInv, LegacyIsCarried, Carries
<1> QED BY <1>1, <1>2 DEF IInv, VersionFits, WorkCarries, LegacyIsCarried, Carries, Steps

LEMMA PublishStep ==
  ASSUME IInv, NEW f \in NewFacts, NEW r \in Repos, NEW time \in Times, Publish(f, r, time)
  PROVE  IInv'
<1> DEFINE events == With(db.events, f, [repo |-> r, time |-> time])
           upserted == Upserted(db.repos, r, time)
           repos == [upserted EXCEPT ![r] = Aggregated(@, events, r)]
           d == [db EXCEPT !.events = events, !.repos = repos]
           d1 == [db EXCEPT !.events = events]
<1>1. Commit(d)
  BY DEF Publish
<1>2. \A g \in DOMAIN db.events : g # f => g \in DOMAIN events /\ events[g] = db.events[g]
  BY DEF With
<1>3. \A g \in DOMAIN old : g # f
  BY FactsAssumption DEF IInv
<1> HIDE DEF events, repos
<1>4. Whole(d1) /\ d1.version = db.version /\ d1.events = events
  <2>1. Whole(db)
    BY DEF IInv
  <2> QED BY <2>1, OneTable
<1>5. Whole(d) /\ d.version = db.version /\ d.events = events
  <2> DEFINE d2 == [d1 EXCEPT !.repos = repos]
  <2>1. d = d2
    OBVIOUS
  <2> HIDE DEF d1
  <2>2. Whole(d2) /\ d2.version = d1.version /\ d2.events = d1.events
    BY <1>4, OneTable
  <2> HIDE DEF d2, d
  <2> QED BY <1>4, <2>1, <2>2
<1>6. Carries(db) => Carries(d)
  BY <1>2, <1>3, <1>5 DEF Carries
<1> HIDE DEF d
<1> QED BY <1>1, <1>5, <1>6, CommitStep

LEMMA ReplacePinsStep == ASSUME IInv, NEW list, ReplacePins(list) PROVE IInv'
<1> DEFINE d == [db EXCEPT !.pins = list]
<1>1. Commit(d)
  BY DEF ReplacePins
<1>2. Whole(d) /\ d.version = db.version /\ d.events = db.events
  BY OneTable DEF IInv
<1> HIDE DEF d
<1> QED BY <1>1, <1>2, CommitStep DEF Carries

LEMMA InitInv == ASSUME Init PROVE IInv
<1>1. DOMAIN old \subseteq OldFacts
  BY DEF Init, MigrationInit
<1>2. PICK row \in OldRepo :
        db = [version |-> 0, made |-> {}, events |-> <<>>, pins |-> <<>>,
              repos |-> [r \in {old[f].repo : f \in DOMAIN old} |-> row]]
  BY DEF Init, MigrationInit
<1>3. Whole(db) /\ db.version = 0
  BY <1>2 DEF Whole, Tables
<1>4. work = db /\ boot = "down"
  BY DEF Init, MigrationInit
<1> QED BY <1>1, <1>3, <1>4 DEF IInv, VersionFits, WorkCarries, LegacyIsCarried, Steps

LEMMA InvStep == ASSUME IInv, [Next]_vars PROVE IInv'
<1>1. CASE UNCHANGED migrationVars
  BY <1>1 DEF migrationVars, IInv, VersionFits, WorkCarries, Carries, Carried, LegacyIsCarried
<1>2. CASE \E filter \in Filters : Ask(filter)
  BY <1>1, <1>2 DEF Ask
<1>3. CASE Read
  BY <1>1, <1>3 DEF Read, Count, Rows, ReadEntries, ReadPin, EndPage
<1>4. CASE Stop
  BY <1>4, RefuseStep DEF Stop, Crash
<1>5. CASE UNCHANGED vars
  BY <1>1, <1>5 DEF vars
<1> QED BY <1>2, <1>3, <1>4, <1>5, MigrateStep, PublishStep, ReplacePinsStep DEF Next

\* Whatever the tables from before hold, wherever the upgrade is cut short and begun again,
\* and whatever is collected after it: once the first version counts as applied, every
\* old row is an event of its repository and its time.
THEOREM LegacyIsKept == Spec => []LegacyIsCarried
<1>1. IInv => LegacyIsCarried
  BY DEF IInv
<1> QED BY <1>1, InitInv, InvStep, PTL DEF Spec
-----------------------------------------------------------------------------
(***************************************************************************)
(* The aggregates.  Min and Max of a set of times are chosen: that there   *)
(* is something to choose follows from < being well founded.               *)
(***************************************************************************)
LEMMA LeastOf ==
  ASSUME NEW S, S \subseteq Nat, S # {}
  PROVE  \E m \in S : \A t \in S : m <= t
<1>1. IsWellFoundedOn(OpToRel(<, Nat), Nat)
  BY NatLessThanWellFounded
<1>2. PICK m \in S : \A t \in S : ~(<<t, m>> \in OpToRel(<, Nat))
  BY <1>1, WFMin
<1>3. ASSUME NEW t \in S PROVE m <= t
  <2>1. ~(t < m)
    BY <1>2 DEF OpToRel
  <2> QED BY <2>1
<1> QED BY <1>3

LEMMA MinIsLeast ==
  ASSUME NEW S, S \subseteq Nat, S # {}
  PROVE  Min(S) \in S /\ \A t \in S : Min(S) <= t
  BY LeastOf DEF Min

\* The least upper bound of some numbers is one of them.
LEMMA MaxIsGreatest ==
  ASSUME NEW S, S \subseteq Nat, S # {}, NEW b \in Nat, \A t \in S : t <= b
  PROVE  Max(S) \in S /\ \A t \in S : t <= Max(S)
<1> DEFINE U == {u \in Nat : \A t \in S : t <= u}
<1>1. U \subseteq Nat /\ U # {}
  OBVIOUS
<1> HIDE DEF U
<1>2. PICK m \in U : \A u \in U : m <= u
  BY <1>1, LeastOf
<1> USE DEF U
<1>3. m \in S
  <2>1. SUFFICES ASSUME m \notin S PROVE FALSE
    OBVIOUS
  <2>2. m \in Nat /\ \A t \in S : t <= m /\ t # m
    BY <2>1, <1>2
  <2>3. PICK x \in S : x <= m /\ x # m
    BY <2>2
  <2>4. m - 1 \in Nat
    BY <2>2, <2>3
  <2>5. \A t \in S : t <= m - 1
    BY <2>2
  <2>6. m - 1 \in U
    BY <2>4, <2>5
  <2>7. m <= m - 1
    BY <1>2, <2>6
  <2> QED BY <2>2, <2>7
<1>4. \E x \in S : \A t \in S : x >= t
  BY <1>2, <1>3
<1>5. Max(S) \in S /\ \A t \in S : Max(S) >= t
  BY <1>4 DEF Max
<1> QED BY <1>5

\* A finite table of events has a last time: count the events off, there is no first
\* one up to which the times are without a bound.
EventsFit(e) ==
  /\ IsFiniteSet(DOMAIN e)
  /\ DOMAIN e \subseteq Facts
  /\ e \in [DOMAIN e -> [repo : Repos, time : Times]]

LEMMA TimesAreBounded ==
  ASSUME NEW e, EventsFit(e)
  PROVE  \E b \in Nat : \A f \in DOMAIN e : e[f].time <= b
<1>1. PICK n \in Nat : ExistsBijection(1..n, DOMAIN e)
  BY FS_NatBijection DEF EventsFit
<1>2. PICK g \in Bijection(1..n, DOMAIN e) : TRUE
  BY <1>1 DEF ExistsBijection
<1>3. g \in [1..n -> DOMAIN e] /\ \A f \in DOMAIN e : \E i \in 1..n : g[i] = f
  BY <1>2 DEF Bijection, Surjection
<1>4. \A i \in 1..n : e[g[i]].time \in Nat
  BY <1>3, NumbersAssumption DEF EventsFit
<1> DEFINE Bounded(m) == \E b \in Nat : \A i \in 1..m : e[g[i]].time <= b
           U == {m \in 0..n : ~Bounded(m)}
<1>5. U = {}
  <2>1. SUFFICES ASSUME U # {} PROVE FALSE
    OBVIOUS
  <2>2. U \subseteq Nat
    OBVIOUS
  <2> HIDE DEF U
  <2>3. PICK m \in U : \A u \in U : m <= u
    BY <2>1, <2>2, LeastOf
  <2> USE DEF U
  <2>4. m \in 0..n /\ ~Bounded(m)
    BY <2>3
  <2>5. Bounded(0)
    <3>1. 0 \in Nat /\ \A i \in 1..0 : e[g[i]].time <= 0
      OBVIOUS
    <3> QED BY <3>1
  <2>6. m # 0 /\ m - 1 \in 0..n /\ ~(m <= m - 1) /\ m \in 1..n
    BY <2>4, <2>5
  <2>7. Bounded(m - 1)
    BY <2>3, <2>6
  <2>8. PICK b \in Nat : \A i \in 1..(m - 1) : e[g[i]].time <= b
    BY <2>7
  <2> DEFINE t == e[g[m]].time
             c == IF t <= b THEN b ELSE t
  <2> HIDE DEF Bounded, U
  <2>a. t \in Nat
    BY <1>4, <2>6
  <2>9. c \in Nat /\ b <= c /\ t <= c
    <3> HIDE DEF t
    <3> QED BY <2>a
  <2>10. \A i \in 1..m : e[g[i]].time <= c
    <3> TAKE i \in 1..m
    <3>1. CASE i = m
      <4>1. e[g[i]].time = t
        BY <3>1
      <4> HIDE DEF c, t
      <4> QED BY <2>9, <4>1
    <3>2. CASE i # m
      <4> HIDE DEF c, t
      <4>1. i \in 1..(m - 1) /\ i \in 1..n
        BY <2>6, <3>2
      <4>2. e[g[i]].time <= b /\ e[g[i]].time \in Nat
        BY <1>4, <2>8, <4>1
      <4> QED BY <2>9, <4>2
    <3> QED BY <3>1, <3>2
  <2> HIDE DEF c, t
  <2>11. Bounded(m)
    BY <2>9, <2>10 DEF Bounded
  <2> QED BY <2>4, <2>11
<1>6. Bounded(n)
  <2>1. n \in 0..n
    OBVIOUS
  <2> HIDE DEF Bounded
  <2> QED BY <1>5, <2>1
<1>7. PICK b \in Nat : \A i \in 1..n : e[g[i]].time <= b
  BY <1>6
<1> QED BY <1>3, <1>7

\* What the aggregates of a repository say of its events: they cover them, and they are
\* exact.
Covers(row, e, r) ==
  /\ {SourceOf[f] : f \in Of(e, r)} \subseteq row.sources
  /\ \A t \in TimesOf(e, r) : row.first <= t /\ t <= row.latest

Exact(row, e, r) ==
  /\ row.sources = {SourceOf[f] : f \in Of(e, r)}
  /\ {row.first, row.latest} \subseteq TimesOf(e, r)

RepoRow == [available : BOOLEAN, sources : SUBSET Sources, first : Times, latest : Times]

\* The three columns that are computed.
Rewritten(row, S, a, b) == [row EXCEPT !.sources = S, !.first = a, !.latest = b]

LEMMA AggregateColumns ==
  ASSUME NEW row \in RepoRow, NEW S \in SUBSET Sources, NEW a \in Times, NEW b \in Times
  PROVE  /\ Rewritten(row, S, a, b) \in RepoRow
         /\ Rewritten(row, S, a, b).sources = S
         /\ Rewritten(row, S, a, b).first = a
         /\ Rewritten(row, S, a, b).latest = b
  BY DEF RepoRow, Rewritten

\* recomputeAggregateTx computes them exactly.
LEMMA AggregatedIsExact ==
  ASSUME NEW e, EventsFit(e), NEW row \in RepoRow, NEW r, Of(e, r) # {}
  PROVE  /\ Aggregated(row, e, r) \in RepoRow
         /\ Covers(Aggregated(row, e, r), e, r)
         /\ Exact(Aggregated(row, e, r), e, r)
<1> DEFINE T == TimesOf(e, r)
           S == {SourceOf[f] : f \in Of(e, r)}
<1>1. T \subseteq Times /\ T \subseteq Nat /\ T # {}
  BY NumbersAssumption DEF TimesOf, Of, EventsFit
<1>2. PICK b \in Nat : \A f \in DOMAIN e : e[f].time <= b
  BY TimesAreBounded
<1>3. \A t \in T : t <= b
  BY <1>2 DEF TimesOf, Of
<1>4. S \in SUBSET Sources
  BY FactsAssumption DEF Of, EventsFit
<1>5. Aggregated(row, e, r) = Rewritten(row, S, Min(T), Max(T))
  BY DEF Aggregated, Rewritten
<1> HIDE DEF T, S
<1>6. Min(T) \in T /\ \A t \in T : Min(T) <= t
  BY <1>1, MinIsLeast
<1>7. Max(T) \in T /\ \A t \in T : t <= Max(T)
  BY <1>1, <1>2, <1>3, MaxIsGreatest
<1> DEFINE lo == Min(T)
           hi == Max(T)
<1>a. lo \in Times /\ hi \in Times
  BY <1>1, <1>6, <1>7
<1>b. Aggregated(row, e, r) = Rewritten(row, S, lo, hi)
  BY <1>5
<1> HIDE DEF lo, hi
<1>c. /\ Rewritten(row, S, lo, hi) \in RepoRow
      /\ Rewritten(row, S, lo, hi).sources = S
      /\ Rewritten(row, S, lo, hi).first = lo
      /\ Rewritten(row, S, lo, hi).latest = hi
  BY <1>4, <1>a, AggregateColumns
<1>8. /\ Aggregated(row, e, r) \in RepoRow
      /\ Aggregated(row, e, r).sources = S
      /\ Aggregated(row, e, r).first = Min(T)
      /\ Aggregated(row, e, r).latest = Max(T)
  BY <1>b, <1>c DEF lo, hi
<1> QED BY <1>6, <1>7, <1>8 DEF Covers, Exact, T, S

ReposFit(t) == DOMAIN t \subseteq Repos /\ t \in [DOMAIN t -> RepoRow]

Fits(d) ==
  /\ Whole(d)
  /\ d.version \in 0..3
  /\ d.made \subseteq {"events", "hash", "radar"}
  /\ EventsFit(d.events)
  /\ ReposFit(d.repos)
  /\ d.pins \in SeqOf(Repos, Limit)

OldFits == old \in [DOMAIN old -> [repo : Repos, time : Times]]

\* AggregatesCoverEvents for one database and the repositories that lost a fact.
AggregatesHold(d, lost) ==
  \A r \in DOMAIN d.repos : Of(d.events, r) # {} =>
    /\ Covers(d.repos[r], d.events, r)
    /\ r \notin lost => Exact(d.repos[r], d.events, r)

CommittedHolds == db.version >= 1 => AggregatesHold(db, moved)

LEMMA AggregatesMatch == AggregatesCoverEvents <=> CommittedHolds
  BY Zenon DEF AggregatesCoverEvents, CommittedHolds, AggregatesHold, Covers, Exact

\* From the statement that computes the aggregates on, the transaction has them.
WorkHolds ==
  boot \in {"column", "radar", "record", "commit"} => AggregatesHold(work, moved)

Fitting == OldFits /\ Fits(db) /\ Fits(work) /\ moved \subseteq Repos
AInv == IInv /\ Fitting /\ CommittedHolds /\ WorkHolds

\* A write to one table leaves the others.
LEMMA OtherTables ==
  ASSUME NEW d, Whole(d), NEW v
  PROVE  /\ LET c == [d EXCEPT !.version = v]
            IN c.made = d.made /\ c.repos = d.repos /\ c.pins = d.pins
         /\ LET c == [d EXCEPT !.made = v]
            IN c.made = v /\ c.repos = d.repos /\ c.pins = d.pins
         /\ LET c == [d EXCEPT !.events = v]
            IN c.made = d.made /\ c.repos = d.repos /\ c.pins = d.pins
         /\ LET c == [d EXCEPT !.repos = v]
            IN c.made = d.made /\ c.repos = v /\ c.pins = d.pins
         /\ LET c == [d EXCEPT !.pins = v]
            IN c.made = d.made /\ c.repos = d.repos /\ c.pins = v
<1> DEFINE g == [t \in Tables |-> d[t]]
<1>0. d = g
  BY DEF Whole
<1>1. LET c == [d EXCEPT !.version = v] IN c.made = d.made /\ c.repos = d.repos /\ c.pins = d.pins
  BY <1>0 DEF Tables
<1>2. LET c == [d EXCEPT !.made = v] IN c.made = v /\ c.repos = d.repos /\ c.pins = d.pins
  BY <1>0 DEF Tables
<1>3. LET c == [d EXCEPT !.events = v] IN c.made = d.made /\ c.repos = d.repos /\ c.pins = d.pins
  BY <1>0 DEF Tables
<1>4. LET c == [d EXCEPT !.repos = v] IN c.made = d.made /\ c.repos = v /\ c.pins = d.pins
  BY <1>0 DEF Tables
<1>5. LET c == [d EXCEPT !.pins = v] IN c.made = d.made /\ c.repos = d.repos /\ c.pins = v
  BY <1>0 DEF Tables
<1> QED BY <1>1, <1>2, <1>3, <1>4, <1>5

\* One table at a time, a database stays one.
LEMMA FitsKept ==
  ASSUME NEW d, Fits(d)
  PROVE  /\ \A v \in 0..3 : Fits([d EXCEPT !.version = v])
         /\ \A v \in SUBSET {"events", "hash", "radar"} : Fits([d EXCEPT !.made = v])
         /\ \A v : EventsFit(v) => Fits([d EXCEPT !.events = v])
         /\ \A v : ReposFit(v) => Fits([d EXCEPT !.repos = v])
         /\ \A v \in SeqOf(Repos, Limit) : Fits([d EXCEPT !.pins = v])
<1>0. Whole(d)
  BY DEF Fits
<1>1. ASSUME NEW v \in 0..3 PROVE Fits([d EXCEPT !.version = v])
  <2> DEFINE c == [d EXCEPT !.version = v]
  <2>1. Whole(c) /\ c.version = v /\ c.events = d.events
    BY <1>0, OneTable
  <2>2. c.made = d.made /\ c.repos = d.repos /\ c.pins = d.pins
    BY <1>0, OtherTables
  <2> HIDE DEF c
  <2>3. Fits(c)
    BY <2>1, <2>2 DEF Fits
  <2> QED BY <2>3 DEF c
<1>2. ASSUME NEW v \in SUBSET {"events", "hash", "radar"} PROVE Fits([d EXCEPT !.made = v])
  <2> DEFINE c == [d EXCEPT !.made = v]
  <2>1. Whole(c) /\ c.version = d.version /\ c.events = d.events
    BY <1>0, OneTable
  <2>2. c.made = v /\ c.repos = d.repos /\ c.pins = d.pins
    BY <1>0, OtherTables
  <2> HIDE DEF c
  <2>3. Fits(c)
    BY <2>1, <2>2 DEF Fits
  <2> QED BY <2>3 DEF c
<1>3. ASSUME NEW v, EventsFit(v) PROVE Fits([d EXCEPT !.events = v])
  <2> DEFINE c == [d EXCEPT !.events = v]
  <2>1. Whole(c) /\ c.version = d.version /\ c.events = v
    BY <1>0, OneTable
  <2>2. c.made = d.made /\ c.repos = d.repos /\ c.pins = d.pins
    BY <1>0, OtherTables
  <2> HIDE DEF c
  <2>3. Fits(c)
    BY <1>3, <2>1, <2>2 DEF Fits
  <2> QED BY <2>3 DEF c
<1>4. ASSUME NEW v, ReposFit(v) PROVE Fits([d EXCEPT !.repos = v])
  <2> DEFINE c == [d EXCEPT !.repos = v]
  <2>1. Whole(c) /\ c.version = d.version /\ c.events = d.events
    BY <1>0, OneTable
  <2>2. c.made = d.made /\ c.repos = v /\ c.pins = d.pins
    BY <1>0, OtherTables
  <2> HIDE DEF c
  <2>3. Fits(c)
    BY <1>4, <2>1, <2>2 DEF Fits
  <2> QED BY <2>3 DEF c
<1>5. ASSUME NEW v \in SeqOf(Repos, Limit) PROVE Fits([d EXCEPT !.pins = v])
  <2> DEFINE c == [d EXCEPT !.pins = v]
  <2>1. Whole(c) /\ c.version = d.version /\ c.events = d.events
    BY <1>0, OneTable
  <2>2. c.made = d.made /\ c.repos = d.repos /\ c.pins = v
    BY <1>0, OtherTables
  <2> HIDE DEF c
  <2>3. Fits(c)
    BY <2>1, <2>2 DEF Fits
  <2> QED BY <2>3 DEF c
<1> QED BY <1>1, <1>2, <1>3, <1>4, <1>5

\* A refused start or a crash.
LEMMA RefuseFits ==
  ASSUME AInv, Refuse, UNCHANGED <<old, moved>>
  PROVE  Fitting' /\ CommittedHolds' /\ WorkHolds'
<1>1. db' = db /\ work' = db /\ boot' = "down"
  BY DEF Refuse, Kept
<1>2. CommittedHolds'
  BY <1>1 DEF AInv, CommittedHolds
<1> QED BY <1>1, <1>2 DEF AInv, Fitting, OldFits, WorkHolds

\* A statement of a migration.
LEMMA StatementFits ==
  ASSUME AInv, NEW step, NEW d, Goto(step, d), UNCHANGED <<old, moved>>, Fits(d),
         step \in {"column", "radar", "record", "commit"} => AggregatesHold(d, moved)
  PROVE  Fitting' /\ CommittedHolds' /\ WorkHolds'
<1>1. db' = db /\ work' = d /\ boot' = step
  BY DEF Goto
<1>2. CommittedHolds'
  BY <1>1 DEF AInv, CommittedHolds
<1> QED BY <1>1, <1>2 DEF AInv, Fitting, OldFits, WorkHolds

\* The rest of a database does not matter to the aggregates.
LEMMA AggregatesLook ==
  ASSUME NEW c, NEW d, NEW lost, AggregatesHold(d, lost), c.events = d.events, c.repos = d.repos
  PROVE  AggregatesHold(c, lost)
  BY Zenon DEF AggregatesHold

LEMMA MigrateFits ==
  ASSUME AInv, IInv', Migrate, UNCHANGED moved
  PROVE  Fitting' /\ CommittedHolds' /\ WorkHolds'
<1>0. Fits(work) /\ Fits(db) /\ Whole(work)
  BY DEF AInv, Fitting, Fits
<1>1. CASE Boot \/ Begin
  <2>1. db' = db /\ work' = work /\ old' = old /\ moved' = moved
        /\ boot \in {"down", "check"} /\ work = db
    BY <1>1 DEF Boot, Begin, AInv, IInv, WorkCarries
  <2>2. boot' \notin {"record", "commit"}
    BY <1>1, <1>0 DEF Boot, Begin, Fits
  <2>3. boot' \in {"column", "radar"} => db.version >= 1
    BY <2>1 DEF IInv, VersionFits
  <2>4. db.version >= 1 => AggregatesHold(db, moved)
    BY DEF AInv, CommittedHolds
  <2>5. CommittedHolds'
    BY <2>1, <2>4 DEF CommittedHolds
  <2> QED BY <2>1, <2>2, <2>3, <2>4, <2>5 DEF AInv, Fitting, OldFits, WorkHolds
<1>2. CASE MakeTables
  <2> DEFINE d == [work EXCEPT !.made = @ \cup {"events"}]
  <2>1. UNCHANGED <<old, moved>>
    BY <1>2 DEF MakeTables
  <2>2. CASE Goto("copy", d)
    <3>1. Fits(d)
      BY <1>0, FitsKept DEF Fits
    <3> HIDE DEF d
    <3> QED BY <2>1, <2>2, <3>1, StatementFits
  <2> QED BY <1>2, <2>1, <2>2, RefuseFits DEF MakeTables
<1>3. CASE CopyOldFacts
  <2>1. EventsFit(Carried)
    <3>1. DOMAIN Carried \subseteq OldFacts /\ DOMAIN Carried \subseteq DOMAIN old
      BY DEF AInv, IInv, Carried
    <3>2. IsFiniteSet(DOMAIN Carried)
      BY <3>1, FactsAssumption, FS_Subset
    <3>3. Carried \in [DOMAIN Carried -> [repo : Repos, time : Times]]
      BY DEF Carried, AInv, Fitting, OldFits
    <3> QED BY <3>1, <3>2, <3>3 DEF EventsFit, Facts
  <2> DEFINE d == [work EXCEPT !.events = Carried]
  <2>2. Fits(d)
    BY <1>0, <2>1, FitsKept
  <2>3. Goto("validate", d) /\ UNCHANGED <<old, moved>>
    BY <1>3 DEF CopyOldFacts
  <2> HIDE DEF d
  <2> QED BY <2>2, <2>3, StatementFits
<1>4. CASE Validate
  BY <1>0, <1>4, StatementFits, RefuseFits DEF Validate
<1>5. CASE AggregateOldFacts
  <2> DEFINE repos == [r \in DOMAIN work.repos |-> Aggregated(work.repos[r], work.events, r)]
             d == [work EXCEPT !.repos = repos]
  <2>1. Goto("record", d) /\ UNCHANGED <<old, moved>>
    BY <1>5 DEF AggregateOldFacts
  <2>2. \A r \in DOMAIN work.repos : work.repos[r] \in RepoRow /\ r \in Repos
    BY <1>0 DEF Fits, ReposFit
  <2>3. EventsFit(work.events)
    BY <1>0 DEF Fits
  <2>4. \A r \in DOMAIN work.repos : Of(work.events, r) # {} =>
          /\ repos[r] \in RepoRow
          /\ Covers(repos[r], work.events, r)
          /\ Exact(repos[r], work.events, r)
    BY <2>2, <2>3, AggregatedIsExact
  <2>5. \A r \in DOMAIN work.repos : repos[r] \in RepoRow
    <3> TAKE r \in DOMAIN work.repos
    <3>1. CASE Of(work.events, r) = {}
      BY <2>2, <3>1 DEF Aggregated
    <3> QED BY <2>4, <3>1
  <2>6. DOMAIN repos = DOMAIN work.repos /\ repos \in [DOMAIN repos -> RepoRow]
    BY <2>5
  <2> HIDE DEF repos
  <2>7. ReposFit(repos)
    BY <1>0, <2>6 DEF ReposFit, Fits
  <2>8. Fits(d)
    BY <1>0, <2>7, FitsKept
  <2>9. d.events = work.events /\ d.repos = repos
    BY <1>0, OneTable, OtherTables
  <2> HIDE DEF d
  <2>10. AggregatesHold(d, moved)
    BY <2>4, <2>6, <2>9 DEF AggregatesHold
  <2> QED BY <2>1, <2>8, <2>10, StatementFits
<1>6. CASE AddColumn
  <2> DEFINE d == [work EXCEPT !.made = @ \cup {"hash"}]
  <2>1. Goto("record", d) /\ UNCHANGED <<old, moved>> /\ AggregatesHold(work, moved)
    BY <1>6 DEF AddColumn, AInv, WorkHolds
  <2>2. Fits(d)
    BY <1>0, FitsKept DEF Fits
  <2>3. d.events = work.events /\ d.repos = work.repos
    BY <1>0, OneTable, OtherTables
  <2> HIDE DEF d
  <2>4. AggregatesHold(d, moved)
    BY <2>1, <2>3, AggregatesLook
  <2> QED BY <2>1, <2>2, <2>4, StatementFits
<1>7. CASE MakeRadarTables
  <2> DEFINE d == [work EXCEPT !.made = @ \cup {"radar"}]
  <2>1. UNCHANGED <<old, moved>> /\ AggregatesHold(work, moved)
    BY <1>7 DEF MakeRadarTables, AInv, WorkHolds
  <2>2. Fits(d)
    BY <1>0, FitsKept DEF Fits
  <2>3. d.events = work.events /\ d.repos = work.repos
    BY <1>0, OneTable, OtherTables
  <2>4. Goto("record", d) \/ Refuse
    BY <1>7 DEF MakeRadarTables
  <2> HIDE DEF d
  <2>5. AggregatesHold(d, moved)
    BY <2>1, <2>3, AggregatesLook
  <2> QED BY <2>1, <2>2, <2>4, <2>5, StatementFits, RefuseFits
<1>8. CASE RecordVersion
  <2> DEFINE d == [work EXCEPT !.version = work.version + 1]
  <2>1. Goto("commit", d) /\ UNCHANGED <<old, moved>> /\ AggregatesHold(work, moved)
    BY <1>8 DEF RecordVersion, AInv, WorkHolds
  <2>2. work.version + 1 \in 0..3
    BY <1>8 DEF RecordVersion, AInv, IInv, VersionFits
  <2>3. Fits(d)
    BY <1>0, <2>2, FitsKept
  <2>4. d.events = work.events /\ d.repos = work.repos
    BY <1>0, OneTable, OtherTables
  <2> HIDE DEF d
  <2>5. AggregatesHold(d, moved)
    BY <2>1, <2>4, AggregatesLook
  <2> QED BY <2>1, <2>3, <2>5, StatementFits
<1>9. CASE CommitVersion
  <2>1. db' = work /\ work' = work /\ boot' = "check" /\ old' = old /\ moved' = moved
        /\ AggregatesHold(work, moved)
    BY <1>9 DEF CommitVersion, AInv, WorkHolds
  <2>2. CommittedHolds'
    BY <2>1 DEF CommittedHolds
  <2> QED BY <1>0, <2>1, <2>2 DEF AInv, Fitting, OldFits, WorkHolds
<1> QED BY <1>1, <1>2, <1>3, <1>4, <1>5, <1>6, <1>7, <1>8, <1>9 DEF Migrate

\* A commit of the serving process.
LEMMA CommitFits ==
  ASSUME AInv, NEW d, Commit(d), Fits(d), d.version = db.version, moved' \subseteq Repos,
         AggregatesHold(db, moved) => AggregatesHold(d, moved')
  PROVE  Fitting' /\ CommittedHolds' /\ WorkHolds'
<1>1. boot = "serving" /\ boot' = "serving" /\ db' = d /\ work' = d /\ old' = old
  BY DEF Commit
<1>2. CommittedHolds'
  BY <1>1 DEF CommittedHolds, AInv
<1> QED BY <1>1, <1>2 DEF AInv, Fitting, OldFits, WorkHolds

\* One event more, or one that has moved.
LEMMA WithEvent ==
  ASSUME NEW e, EventsFit(e), NEW f \in NewFacts, NEW r \in Repos, NEW time \in Times
  PROVE  LET n == With(e, f, [repo |-> r, time |-> time])
         IN /\ EventsFit(n)
            /\ f \in Of(n, r)
            /\ \A q \in Repos \ {r} : Of(n, q) = Of(e, q) \ {f} /\ TimesOf(n, q) \subseteq TimesOf(e, q)
            /\ \A q \in Repos \ {r} : f \notin Of(e, q) => TimesOf(n, q) = TimesOf(e, q)
<1> DEFINE n == With(e, f, [repo |-> r, time |-> time])
<1>1. DOMAIN n = DOMAIN e \cup {f} /\ n[f] = [repo |-> r, time |-> time]
      /\ \A g \in DOMAIN e : g # f => n[g] = e[g]
  BY DEF With
<1>2. IsFiniteSet(DOMAIN n) /\ DOMAIN n \subseteq Facts
  BY <1>1, FS_AddElement DEF EventsFit, Facts
<1>3. n \in [DOMAIN n -> [repo : Repos, time : Times]]
  <2>1. \A g \in DOMAIN n : n[g] \in [repo : Repos, time : Times]
    BY <1>1 DEF EventsFit
  <2> QED BY <2>1 DEF With
<1>4. EventsFit(n)
  BY <1>2, <1>3 DEF EventsFit
<1> HIDE DEF n
<1>5. f \in Of(n, r)
  BY <1>1 DEF Of
<1>6. \A q \in Repos \ {r} : Of(n, q) = Of(e, q) \ {f}
  BY <1>1 DEF Of
<1>7. \A q \in Repos \ {r} : \A g \in Of(n, q) : g \in Of(e, q) /\ n[g].time = e[g].time
  <2> TAKE q \in Repos \ {r}
  <2> TAKE g \in Of(n, q)
  <2>1. g \in Of(e, q) /\ g # f
    BY <1>6
  <2> QED BY <1>1, <2>1 DEF Of
<1>8. \A q \in Repos \ {r} : TimesOf(n, q) \subseteq TimesOf(e, q)
  BY <1>7 DEF TimesOf
<1>9. ASSUME NEW q \in Repos \ {r}, f \notin Of(e, q) PROVE TimesOf(n, q) = TimesOf(e, q)
  <2>1. Of(n, q) = Of(e, q)
    BY <1>6, <1>9
  <2> QED BY <1>7, <2>1 DEF TimesOf
<1>10. /\ EventsFit(n)
       /\ f \in Of(n, r)
       /\ \A q \in Repos \ {r} : Of(n, q) = Of(e, q) \ {f} /\ TimesOf(n, q) \subseteq TimesOf(e, q)
       /\ \A q \in Repos \ {r} : f \notin Of(e, q) => TimesOf(n, q) = TimesOf(e, q)
  BY <1>4, <1>5, <1>6, <1>8, <1>9
<1> QED BY <1>10 DEF n

\* CompleteIngestItem recomputes the aggregates of the repository it has found; those of
\* another keep covering what is left to it.
LEMMA PublishFits ==
  ASSUME AInv, NEW f \in NewFacts, NEW r \in Repos, NEW time \in Times, Publish(f, r, time)
  PROVE  Fitting' /\ CommittedHolds' /\ WorkHolds'
<1> DEFINE e == db.events
           n == With(db.events, f, [repo |-> r, time |-> time])
           row == Upserted(db.repos, r, time)[r]
           new == Aggregated(row, n, r)
           upserted == Upserted(db.repos, r, time)
           repos == [upserted EXCEPT ![r] = Aggregated(@, n, r)]
           d1 == [db EXCEPT !.events = n]
           d == [db EXCEPT !.events = n, !.repos = repos]
           lost == IF f \in DOMAIN e THEN {e[f].repo} ELSE {}
<1>1. Commit(d) /\ moved' = (moved \cup lost) \ {r}
  BY DEF Publish
<1>2. Fits(db) /\ EventsFit(e) /\ ReposFit(db.repos) /\ moved \subseteq Repos
  BY DEF AInv, Fitting, Fits
<1>3. /\ EventsFit(n)
      /\ f \in Of(n, r)
      /\ \A q \in Repos \ {r} : Of(n, q) = Of(e, q) \ {f} /\ TimesOf(n, q) \subseteq TimesOf(e, q)
      /\ \A q \in Repos \ {r} : f \notin Of(e, q) => TimesOf(n, q) = TimesOf(e, q)
  BY <1>2, WithEvent
<1>4. row \in RepoRow
  <2>1. CASE r \in DOMAIN db.repos
    <3>1. row = [db.repos[r] EXCEPT !.available = TRUE] /\ db.repos[r] \in RepoRow
      BY <1>2, <2>1 DEF Upserted, With, ReposFit
    <3> QED BY <3>1 DEF RepoRow
  <2>2. CASE r \notin DOMAIN db.repos
    <3>1. row = [available |-> TRUE, sources |-> {}, first |-> time, latest |-> time]
      BY <2>2 DEF Upserted, With
    <3> QED BY <3>1 DEF RepoRow
  <2> QED BY <2>1, <2>2
<1>5. /\ DOMAIN repos = DOMAIN db.repos \cup {r}
      /\ repos[r] = new
      /\ \A q \in DOMAIN db.repos : q # r => repos[q] = db.repos[q]
  <2>1. DOMAIN upserted = DOMAIN db.repos \cup {r}
        /\ \A q \in DOMAIN db.repos : q # r => upserted[q] = db.repos[q]
    BY DEF Upserted, With
  <2> HIDE DEF upserted, n
  <2>2. repos[r] = Aggregated(upserted[r], n, r)
    BY <2>1
  <2> QED BY <2>1, <2>2 DEF upserted
<1> HIDE DEF n, row
<1>6. new \in RepoRow /\ Covers(new, n, r) /\ Exact(new, n, r)
  BY <1>3, <1>4, AggregatedIsExact
<1> HIDE DEF repos, new
<1>7. ReposFit(repos)
  <2>1. \A q \in DOMAIN repos : repos[q] \in RepoRow
    BY <1>2, <1>5, <1>6 DEF ReposFit
  <2>2. repos \in [DOMAIN repos -> RepoRow]
    BY <2>1 DEF repos, Upserted, With
  <2> QED BY <1>2, <1>5, <2>2 DEF ReposFit
<1>8. Fits(d1) /\ d1.version = db.version /\ d1.events = n
  <2>1. Whole(db)
    BY <1>2 DEF Fits
  <2>2. Fits(d1)
    BY <1>2, <1>3, FitsKept
  <2>3. d1.version = db.version /\ d1.events = n
    BY <2>1, OneTable
  <2> QED BY <2>2, <2>3
<1>9. Fits(d) /\ d.version = db.version /\ d.events = n /\ d.repos = repos
  <2> DEFINE d2 == [d1 EXCEPT !.repos = repos]
  <2>1. d = d2
    OBVIOUS
  <2>2. Whole(d1)
    BY <1>8 DEF Fits
  <2> HIDE DEF d1
  <2>3. Fits(d2)
    BY <1>7, <1>8, FitsKept
  <2>4. d2.version = d1.version /\ d2.events = d1.events
    BY <2>2, OneTable
  <2>5. d2.repos = repos
    BY <2>2, OtherTables
  <2> HIDE DEF d2, d
  <2> QED BY <1>8, <2>1, <2>3, <2>4, <2>5
<1>10. lost \subseteq Repos
  BY <1>2 DEF EventsFit
<1>11. ASSUME AggregatesHold(db, moved) PROVE AggregatesHold(d, moved')
  <2>1. SUFFICES ASSUME NEW q \in DOMAIN repos, Of(n, q) # {}
                 PROVE  Covers(repos[q], n, q) /\ (q \notin moved' => Exact(repos[q], n, q))
    BY <1>9 DEF AggregatesHold
  <2>2. CASE q = r
    BY <1>5, <1>6, <2>2
  <2>3. CASE q # r
    <3>1. q \in DOMAIN db.repos /\ repos[q] = db.repos[q] /\ q \in Repos \ {r}
      BY <1>2, <1>5, <2>3 DEF ReposFit
    <3>2. Of(n, q) = Of(e, q) \ {f} /\ TimesOf(n, q) \subseteq TimesOf(e, q)
      BY <1>3, <3>1
    <3>3. Covers(db.repos[q], e, q) /\ (q \notin moved => Exact(db.repos[q], e, q))
      BY <1>11, <2>1, <3>1, <3>2 DEF AggregatesHold
    <3>4. Covers(repos[q], n, q)
      BY <3>1, <3>2, <3>3 DEF Covers
    <3>5. ASSUME q \notin moved' PROVE Exact(repos[q], n, q)
      <4>1. q \notin moved /\ q \notin lost
        BY <1>1, <3>1, <3>5
      <4>2. f \notin Of(e, q)
        BY <4>1 DEF Of
      <4>3. Of(n, q) = Of(e, q) /\ TimesOf(n, q) = TimesOf(e, q)
        BY <1>3, <3>1, <3>2, <4>2
      <4> QED BY <3>1, <3>3, <4>1, <4>3 DEF Exact
    <3> QED BY <3>4, <3>5
  <2> QED BY <2>2, <2>3
<1>12. moved' \subseteq Repos
  BY <1>1, <1>2, <1>10
<1> HIDE DEF d, lost, e
<1> QED BY <1>1, <1>9, <1>11, <1>12, CommitFits

\* A list of pins says nothing of events.
LEMMA PinsFit ==
  ASSUME AInv, NEW list \in SeqOf(Repos, Limit + 1), ReplacePins(list)
  PROVE  Fitting' /\ CommittedHolds' /\ WorkHolds'
<1> DEFINE d == [db EXCEPT !.pins = list]
<1>1. Commit(d) /\ moved' = moved /\ Len(list) <= Limit
  BY DEF ReplacePins, Acceptable
<1>2. PICK m \in 0..(Limit + 1) : list \in [1..m -> Repos]
  BY DEF SeqOf
<1>3. m <= Limit
  BY <1>1, <1>2, PagesAssumption
<1>4. list \in SeqOf(Repos, Limit)
  <2>1. m \in 0..Limit
    BY <1>3, PagesAssumption
  <2> QED BY <1>2, <2>1 DEF SeqOf
<1>5. Fits(db) /\ Whole(db) /\ moved \subseteq Repos
  BY DEF AInv, Fitting, Fits
<1>6. Fits(d)
  BY <1>4, <1>5, FitsKept
<1>7. d.version = db.version /\ d.events = db.events
  BY <1>5, OneTable
<1>8. d.repos = db.repos
  BY <1>5, OtherTables
<1> HIDE DEF d
<1>9. AggregatesHold(db, moved) => AggregatesHold(d, moved')
  BY <1>1, <1>7, <1>8, AggregatesLook
<1> QED BY <1>1, <1>5, <1>6, <1>7, <1>9, CommitFits

\* A database from before.
LEMMA InitFits == ASSUME Init PROVE AInv
<1>1. IInv
  BY InitInv
<1>2. PICK rows \in SUBSET OldFacts : old \in [rows -> [repo : Repos, time : Times]]
  BY DEF Init, MigrationInit
<1>3. OldFits
  BY <1>2 DEF OldFits
<1>4. PICK row \in OldRepo :
        db = [version |-> 0, made |-> {}, events |-> <<>>, pins |-> <<>>,
              repos |-> [r \in {old[f].repo : f \in DOMAIN old} |-> row]]
  BY DEF Init, MigrationInit
<1>5. work = db /\ boot = "down" /\ moved = {}
  BY DEF Init, MigrationInit
<1>6. row \in RepoRow
  BY <1>4 DEF OldRepo, RepoRow
<1>7. ReposFit(db.repos)
  <2>1. db.repos = [r \in {old[f].repo : f \in DOMAIN old} |-> row]
    BY <1>4
  <2>2. {old[f].repo : f \in DOMAIN old} \subseteq Repos
    BY <1>2
  <2> QED BY <1>6, <2>1, <2>2 DEF ReposFit
<1>8. EventsFit(db.events)
  <2>1. db.events = <<>>
    BY <1>4
  <2>2. DOMAIN db.events = {}
    BY <2>1
  <2>3. db.events \in [{} -> [repo : Repos, time : Times]]
    BY <2>1
  <2> QED BY <2>2, <2>3, FS_EmptySet DEF EventsFit
<1>9. db.pins \in SeqOf(Repos, Limit)
  <2>1. db.pins = <<>> /\ 0 \in 0..Limit
    BY <1>4, PagesAssumption
  <2>2. db.pins \in [1..0 -> Repos]
    BY <2>1
  <2> QED BY <2>1, <2>2 DEF SeqOf
<1>10. Fits(db) /\ ~(db.version >= 1)
  BY <1>1, <1>4, <1>7, <1>8, <1>9 DEF Fits, IInv
<1> QED BY <1>1, <1>3, <1>5, <1>10 DEF AInv, Fitting, CommittedHolds, WorkHolds

LEMMA AStep == ASSUME AInv, [Next]_vars PROVE AInv'
<1>0. IInv'
  BY InvStep DEF AInv
<1>1. ASSUME UNCHANGED <<migrationVars, moved>> PROVE AInv'
  BY <1>0, <1>1 DEF migrationVars, AInv, Fitting, OldFits, CommittedHolds, WorkHolds
<1>2. CASE \E filter \in Filters : Ask(filter)
  BY <1>1, <1>2 DEF Ask
<1>3. CASE Read
  BY <1>1, <1>3 DEF Read, Count, Rows, ReadEntries, ReadPin, EndPage
<1>4. CASE Stop
  BY <1>0, <1>4, RefuseFits DEF Stop, Crash, AInv
<1>5. CASE UNCHANGED vars
  BY <1>1, <1>5 DEF vars
<1>6. CASE Migrate /\ UNCHANGED <<reader, moved, commits>>
  BY <1>0, <1>6, MigrateFits DEF AInv
<1>7. ASSUME NEW f \in NewFacts, NEW r \in Repos, NEW time \in Times, Publish(f, r, time) PROVE AInv'
  BY <1>0, <1>7, PublishFits DEF AInv
<1>8. ASSUME NEW list \in SeqOf(Repos, Limit + 1), ReplacePins(list) PROVE AInv'
  BY <1>0, <1>8, PinsFit DEF AInv
<1> QED BY <1>2, <1>3, <1>4, <1>5, <1>6, <1>7, <1>8 DEF Next

\* Once the first migration is through, the aggregates a list is ordered and filtered by
\* cover the events of their repository, and are exact unless one of them has moved away.
THEOREM AggregatesCover == Spec => []AggregatesCoverEvents
<1>1. AInv => AggregatesCoverEvents
  BY AggregatesMatch DEF AInv
<1> QED BY <1>1, InitFits, AStep, PTL DEF Spec
-----------------------------------------------------------------------------
(***************************************************************************)
(* The list.  What a request sees depends on one database: the operators   *)
(* of QueryRepos again, of any database.                                   *)
(***************************************************************************)
ListedIn(d, filter) ==
  {r \in DOMAIN d.repos : /\ d.repos[r].available /\ Of(d.events, r) # {}
                          /\ filter \subseteq {SourceOf[f] : f \in Of(d.events, r)}}

PositionIn(d, r) ==
  IF \E i \in DOMAIN d.pins : d.pins[i] = r THEN CHOOSE i \in DOMAIN d.pins : d.pins[i] = r ELSE 0

BeforeIn(d, q, r) ==
  \/ PositionIn(d, q) # 0 /\ PositionIn(d, r) = 0
  \/ PositionIn(d, q) # 0 /\ PositionIn(d, r) # 0 /\ PositionIn(d, q) < PositionIn(d, r)
  \/ /\ PositionIn(d, q) = 0 /\ PositionIn(d, r) = 0
     /\ \/ d.repos[q].latest > d.repos[r].latest
        \/ d.repos[q].latest = d.repos[r].latest /\ q > r

\* One of the orders in which the rows may come.
ListingOf(d, filter, list) ==
  LET N == Cardinality(ListedIn(d, filter))
  IN /\ list \in [1..N -> ListedIn(d, filter)]
     /\ \A i, j \in 1..N : i # j => list[i] # list[j]
     /\ \A i, j \in 1..N : i < j => BeforeIn(d, list[i], list[j])

LEMMA SameList ==
  /\ \A filter : Listed(filter) = ListedIn(db, filter)
  /\ \A r : Position(r) = PositionIn(db, r)
  /\ \A q, r : Before(q, r) <=> BeforeIn(db, q, r)
<1>1. \A filter : Listed(filter) = ListedIn(db, filter)
  BY DEF Listed, ListedIn, Public
<1>2. \A r : Position(r) = PositionIn(db, r)
  BY DEF Position, PositionIn
<1>3. \A r : Pinned(r) <=> PositionIn(db, r) # 0
  BY <1>2 DEF Pinned
<1>4. \A q, r : Before(q, r) <=> BeforeIn(db, q, r)
  BY <1>2, <1>3 DEF Before, BeforeIn
<1> QED BY <1>1, <1>2, <1>4

LEMMA SameListing ==
  ASSUME NEW filter, NEW list
  PROVE  list \in Listings(filter) <=> ListingOf(db, filter, list)
<1> DEFINE F == ListedIn(db, filter)
           D == 1..Cardinality(F)
<1>1. list \in Listings(filter) <=>
        /\ list \in [D -> F]
        /\ \A i, j \in D : i # j => list[i] # list[j]
        /\ \A i, j \in DOMAIN list : i < j => Before(list[i], list[j])
  BY SameList DEF Listings, SetToSeqs
<1>2. list \in [D -> F] => DOMAIN list = D
  OBVIOUS
<1>3. \A i, j : Before(list[i], list[j]) <=> BeforeIn(db, list[i], list[j])
  BY SameList
<1>4. ListingOf(db, filter, list) <=>
        /\ list \in [D -> F]
        /\ \A i, j \in D : i # j => list[i] # list[j]
        /\ \A i, j \in D : i < j => BeforeIn(db, list[i], list[j])
  BY DEF ListingOf
<1> HIDE DEF D, F
<1> QED BY <1>1, <1>2, <1>3, <1>4

\* Pins have positions.
LEMMA PositionType == ASSUME NEW d, Fits(d), NEW r PROVE PositionIn(d, r) \in 0..Limit
<1>1. PICK m \in 0..Limit : d.pins \in [1..m -> Repos]
  BY DEF Fits, SeqOf
<1>2. DOMAIN d.pins = 1..m
  BY <1>1
<1>3. CASE \E i \in DOMAIN d.pins : d.pins[i] = r
  <2>1. PositionIn(d, r) \in DOMAIN d.pins
    BY <1>3 DEF PositionIn
  <2> QED BY <1>1, <1>2, <2>1, PagesAssumption
<1>4. CASE ~\E i \in DOMAIN d.pins : d.pins[i] = r
  BY <1>4, PagesAssumption DEF PositionIn
<1> QED BY <1>3, <1>4

\* The repositories of the list are as many as a number says: each has a fact of its own,
\* and facts are finitely many.
LEMMA ListIsFinite ==
  ASSUME NEW d, Fits(d), NEW filter
  PROVE  /\ ListedIn(d, filter) \subseteq Repos /\ IsFiniteSet(ListedIn(d, filter))
         /\ Cardinality(ListedIn(d, filter)) \in Nat
<1> DEFINE F == ListedIn(d, filter)
           e == d.events
           g == [r \in F |-> CHOOSE f \in Of(e, r) : TRUE]
<1>1. F \subseteq Repos
  BY DEF Fits, ReposFit, ListedIn
<1>2. IsFiniteSet(DOMAIN e)
  BY DEF Fits, EventsFit
<1>3. \A r \in F : g[r] \in Of(e, r)
  BY DEF ListedIn
<1>4. \A r \in F : g[r] \in DOMAIN e /\ e[g[r]].repo = r
  BY <1>3 DEF Of
<1>5. g \in [F -> DOMAIN e] /\ \A q, r \in F : g[q] = g[r] => q = r
  <2>1. g = [r \in F |-> g[r]]
    OBVIOUS
  <2> HIDE DEF g, F, e
  <2> QED BY <1>4, <2>1
<1>6. g \in Injection(F, DOMAIN e)
  <2> HIDE DEF g, F, e
  <2> QED BY <1>5 DEF Injection, IsInjective
<1>7. IsFiniteSet(F)
  <2> HIDE DEF g, F, e
  <2> QED BY <1>2, <1>6, FS_Injection
<1>8. Cardinality(F) \in Nat
  <2> HIDE DEF F
  <2> QED BY <1>7, FS_CardinalityType
<1> QED BY <1>1, <1>7, <1>8

\* Two sequences of one domain have one length.
LEMMA SameEnd == ASSUME NEW m \in Nat, NEW n \in Nat, 1..m = 1..n PROVE m = n
<1>1. m < n => n \in 1..n /\ n \notin 1..m
  OBVIOUS
<1>2. n < m => m \in 1..m /\ m \notin 1..n
  OBVIOUS
<1> QED BY <1>1, <1>2

\* A listing has every repository once.
LEMMA ListingFacts ==
  ASSUME NEW d, Fits(d), NEW filter, NEW list, ListingOf(d, filter, list)
  PROVE  /\ list \in Seq(Repos) /\ Len(list) = Cardinality(ListedIn(d, filter)) /\ Len(list) \in Nat
         /\ DOMAIN list = 1..Len(list)
         /\ \A i \in 1..Len(list) : list[i] \in ListedIn(d, filter)
         /\ \A r \in ListedIn(d, filter) : \E i \in 1..Len(list) : list[i] = r
         /\ \A i, j \in 1..Len(list) : i # j => list[i] # list[j]
         /\ \A i, j \in 1..Len(list) : i < j => BeforeIn(d, list[i], list[j])
<1> DEFINE F == ListedIn(d, filter)
           N == Cardinality(F)
<1>1. F \subseteq Repos /\ IsFiniteSet(F) /\ N \in Nat
  BY ListIsFinite
<1>2. /\ list \in [1..N -> F]
      /\ \A i, j \in 1..N : i # j => list[i] # list[j]
      /\ \A i, j \in 1..N : i < j => BeforeIn(d, list[i], list[j])
  BY DEF ListingOf
<1> HIDE DEF F
<1>3. list \in Seq(Repos) /\ Len(list) = N /\ DOMAIN list = 1..N
  <2> HIDE DEF N
  <2>1. list \in [1..N -> Repos]
    BY <1>1, <1>2
  <2>2. list \in Seq(Repos)
    BY <1>1, <2>1, SeqDef
  <2>3. Len(list) \in Nat /\ DOMAIN list = 1..Len(list) /\ DOMAIN list = 1..N
    BY <2>1, <2>2, LenProperties
  <2>4. Len(list) = N
    BY <1>1, <2>3, SameEnd
  <2> QED BY <2>2, <2>3, <2>4
<1>4. list \in Injection(1..N, F)
  BY <1>2 DEF Injection, IsInjective
<1>5. Cardinality(1..N) = N
  <2> HIDE DEF N
  <2>1. Cardinality(1..N) = IF 1 > N THEN 0 ELSE N - 1 + 1
    BY <1>1, FS_Interval
  <2> QED BY <1>1, <2>1
<1>6. list \in Surjection(1..N, F)
  BY <1>1, <1>4, <1>5, FS_Injection
<1>7. \A r \in F : \E i \in 1..N : list[i] = r
  BY <1>6 DEF Surjection
<1> HIDE DEF N
<1> QED BY <1>1, <1>2, <1>3, <1>7 DEF N, F

\* Of two repositories of the list only one can come before the other.
LEMMA OneIsBefore ==
  ASSUME NEW d, Fits(d), NEW filter, NEW q \in ListedIn(d, filter), NEW r \in ListedIn(d, filter),
         BeforeIn(d, q, r), BeforeIn(d, r, q)
  PROVE  FALSE
<1>1. PositionIn(d, q) \in Nat /\ PositionIn(d, r) \in Nat
  BY PositionType, PagesAssumption
<1>2. q \in Nat /\ r \in Nat /\ q \in DOMAIN d.repos /\ r \in DOMAIN d.repos
  BY ListIsFinite, NumbersAssumption DEF ListedIn
<1>3. d.repos[q].latest \in Nat /\ d.repos[r].latest \in Nat
  BY <1>2, NumbersAssumption DEF Fits, ReposFit, RepoRow
<1> QED BY <1>1, <1>2, <1>3 DEF BeforeIn

\* The order is total enough: there is no second listing, or there would be a first place
\* where they differ, and each would have the other's repository later.
LEMMA OneListing ==
  ASSUME NEW d, Fits(d), NEW filter, NEW s, NEW t, ListingOf(d, filter, s), ListingOf(d, filter, t)
  PROVE  s = t
<1> DEFINE F == ListedIn(d, filter)
           N == Cardinality(F)
           Wrong == {i \in 1..N : s[i] # t[i]}
<1>1. /\ N \in Nat /\ s \in [1..N -> F] /\ t \in [1..N -> F]
      /\ \A i, j \in 1..N : i # j => s[i] # s[j] /\ t[i] # t[j]
      /\ \A i, j \in 1..N : i < j => BeforeIn(d, s[i], s[j]) /\ BeforeIn(d, t[i], t[j])
  BY ListIsFinite DEF ListingOf
<1>2. \A r \in F : (\E i \in 1..N : s[i] = r) /\ (\E i \in 1..N : t[i] = r)
  BY ListingFacts
<1>3. \A q, r \in F : ~(BeforeIn(d, q, r) /\ BeforeIn(d, r, q))
  BY OneIsBefore
<1> HIDE DEF N, F
<1>4. Wrong = {}
  <2>1. SUFFICES ASSUME Wrong # {} PROVE FALSE
    OBVIOUS
  <2>2. Wrong \subseteq Nat
    BY <1>1
  <2>3. PICK m \in Wrong : \A i \in Wrong : m <= i
    BY <2>1, <2>2, LeastOf
  <2>4. m \in 1..N /\ s[m] # t[m] /\ s[m] \in F /\ t[m] \in F
    BY <1>1, <2>3
  <2>5. PICK j \in 1..N : t[j] = s[m]
    BY <1>2, <2>4
  <2>6. PICK k \in 1..N : s[k] = t[m]
    BY <1>2, <2>4
  <2>7. m < j
    <3>1. j # m /\ j \in Nat /\ m \in Nat
      BY <1>1, <2>4, <2>5
    <3>2. CASE j < m
      <4>1. j \notin Wrong
        BY <2>3, <3>1, <3>2
      <4>2. s[j] = s[m]
        BY <2>5, <4>1
      <4> QED BY <1>1, <2>4, <2>5, <3>1, <4>2
    <3> QED BY <3>1, <3>2
  <2>8. m < k
    <3>1. k # m /\ k \in Nat /\ m \in Nat
      BY <1>1, <2>4, <2>6
    <3>2. CASE k < m
      <4>1. k \notin Wrong
        BY <2>3, <3>1, <3>2
      <4>2. t[k] = t[m]
        BY <2>6, <4>1
      <4> QED BY <1>1, <2>4, <2>6, <3>1, <4>2
    <3> QED BY <3>1, <3>2
  <2>9. BeforeIn(d, t[m], s[m]) /\ BeforeIn(d, s[m], t[m])
    BY <1>1, <2>4, <2>5, <2>6, <2>7, <2>8
  <2> QED BY <1>3, <2>4, <2>9
<1> QED BY <1>1, <1>4
-----------------------------------------------------------------------------
(***************************************************************************)
(* A walk through the list.                                                *)
(***************************************************************************)

Stages == {"idle", "count", "rows", "items", "pin", "done"}
Entry == UNION {[ss -> Times] : ss \in SUBSET Sources}

\* What a client and its request may be.
ReaderRow ==
  [pc : Stages, filter : Filters \cup {{}}, page : Nat, total : Nat,
   todo : Seq(Repos), seen : Seq(Item), quiet : BOOLEAN]

ReaderFits(w) ==
  /\ w \in ReaderRow
  /\ w.pc # "idle" => w.page >= 1
  /\ w.pc = "pin" => w.todo # <<>> /\ w.seen # <<>>

\* The first k entries are those of the list.
ShownOf(d, list, k, seen) ==
  \A i \in 1..k : seen[i].repo = list[i] /\ seen[i].pin = PositionIn(d, list[i])

\* Where a page ends.
EndOf(page, list) == IF page * PageSize < Len(list) THEN page * PageSize ELSE Len(list)

\* How far a walk has come in a list; `todo` is what is left of the page.
At(d, w, list) ==
  LET n == Len(w.seen)
  IN \/ /\ w.pc \in {"count", "rows"}
        /\ n = (w.page - 1) * PageSize /\ n <= Len(list)
        /\ ShownOf(d, list, n, w.seen)
     \/ /\ w.pc = "items"
        /\ n <= EndOf(w.page, list) /\ w.todo = SubSeq(list, n + 1, EndOf(w.page, list))
        /\ ShownOf(d, list, n, w.seen)
     \/ /\ w.pc = "pin"
        /\ n \in 1..EndOf(w.page, list) /\ w.todo = SubSeq(list, n, EndOf(w.page, list))
        /\ ShownOf(d, list, n - 1, w.seen) /\ w.seen[n].repo = list[n]
     \/ /\ w.pc = "done"
        /\ n = Len(list)
        /\ ShownOf(d, list, n, w.seen)

\* A walk through one database: it has just begun, or it follows its listing.
WalkOf(d, w) ==
  /\ w.pc \notin {"idle", "count"} => w.total = Cardinality(ListedIn(d, w.filter))
  /\ \/ w.pc \in {"count", "rows"} /\ w.page = 1 /\ w.seen = <<>>
     \/ \E list : ListingOf(d, w.filter, list) /\ At(d, w, list)

\* Pages are numbers apart.
LEMMA PageArithmetic ==
  ASSUME NEW p \in Nat, p >= 1
  PROVE  /\ (p - 1) * PageSize \in Nat /\ p * PageSize \in Nat
         /\ p * PageSize = (p - 1) * PageSize + PageSize
         /\ (1 - 1) * PageSize = 0
<1>1. PageSize \in Nat
  BY PagesAssumption
<1>2. p - 1 \in Nat
  OBVIOUS
<1>3. \A a, b \in Nat : a * b \in Nat
  OBVIOUS
<1>4. \A a, b \in Nat : (a + 1) * b = a * b + b
  OBVIOUS
<1>5. p = (p - 1) + 1
  OBVIOUS
<1>6. \A b \in Nat : (1 - 1) * b = 0
  OBVIOUS
<1>7. p * PageSize = (p - 1) * PageSize + PageSize
  BY <1>1, <1>2, <1>4, <1>5
<1> QED BY <1>1, <1>2, <1>3, <1>6, <1>7

\* What of a page is left to be read.
LEMMA PageLeft ==
  ASSUME NEW list \in Seq(Repos), NEW n \in Nat, NEW m \in Nat, n <= m, m <= Len(list)
  PROVE  /\ SubSeq(list, n + 1, m) \in Seq(Repos)
         /\ SubSeq(list, n + 1, m) = <<>> <=> n = m
         /\ n < m => /\ Head(SubSeq(list, n + 1, m)) = list[n + 1]
                     /\ Tail(SubSeq(list, n + 1, m)) = SubSeq(list, n + 2, m)
<1>1. Len(list) \in Nat /\ DOMAIN list = 1..Len(list) /\ list \in [1..Len(list) -> Repos]
  BY LenProperties
<1>2. \A i \in (n + 1)..m : list[i] \in Repos
  BY <1>1
<1>3. /\ SubSeq(list, n + 1, m) \in Seq(Repos)
      /\ Len(SubSeq(list, n + 1, m)) = IF n + 1 <= m THEN m - (n + 1) + 1 ELSE 0
  BY <1>2, SubSeqProperties
<1>4. CASE n = m
  <2>1. m < n + 1
    BY <1>4
  <2> QED BY <1>3, <1>4, <2>1, SubSeqEmpty
<1>5. CASE n < m
  <2>1. n + 1 \in 1..Len(list) /\ m \in (n + 1)..Len(list) /\ n + 1 + 1 = n + 2
    BY <1>1, <1>5
  <2>2. Len(SubSeq(list, n + 1, m)) # 0
    BY <1>3, <1>5
  <2>3. SubSeq(list, n + 1, m) # <<>>
    BY <2>2, EmptySeq
  <2> QED BY <1>3, <1>5, <2>1, <2>3, HeadTailOfSubSeq
<1> QED BY <1>4, <1>5

\* A page ends inside the list.
LEMMA EndFacts ==
  ASSUME NEW list \in Seq(Repos), NEW p \in Nat, p >= 1
  PROVE  /\ EndOf(p, list) \in Nat /\ EndOf(p, list) <= Len(list) /\ EndOf(p, list) <= p * PageSize
         /\ (p - 1) * PageSize <= Len(list) => (p - 1) * PageSize <= EndOf(p, list)
         /\ p * PageSize < Len(list) => EndOf(p, list) = p * PageSize
         /\ ~(p * PageSize < Len(list)) => EndOf(p, list) = Len(list)
<1> DEFINE a == (p - 1) * PageSize
           b == p * PageSize
           N == Len(list)
<1>1. a \in Nat /\ b \in Nat /\ b = a + PageSize /\ PageSize \in Nat
  BY PageArithmetic, PagesAssumption
<1>2. N \in Nat
  BY LenProperties
<1>3. EndOf(p, list) = IF b < N THEN b ELSE N
  BY DEF EndOf
<1> HIDE DEF a, b, N
<1>4. /\ EndOf(p, list) \in Nat /\ EndOf(p, list) <= N /\ EndOf(p, list) <= b
      /\ a <= N => a <= EndOf(p, list)
      /\ b < N => EndOf(p, list) = b
      /\ ~(b < N) => EndOf(p, list) = N
  BY <1>1, <1>2, <1>3
<1> QED BY <1>4 DEF a, b, N

LEMMA PageType ==
  ASSUME NEW list \in Seq(Repos), NEW p \in Nat, p >= 1
  PROVE  /\ PageOf(list, p) = SubSeq(list, (p - 1) * PageSize + 1, EndOf(p, list))
         /\ PageOf(list, p) \in Seq(Repos)
<1> DEFINE a == (p - 1) * PageSize
           m == EndOf(p, list)
<1>1. a \in Nat /\ m \in Nat /\ m <= Len(list)
  BY PageArithmetic, EndFacts
<1>2. PageOf(list, p) = SubSeq(list, a + 1, m)
  BY DEF PageOf, EndOf
<1> HIDE DEF a, m
<1>3. Len(list) \in Nat /\ list \in [1..Len(list) -> Repos]
  BY LenProperties
<1>4. \A i \in (a + 1)..m : list[i] \in Repos
  BY <1>1, <1>3
<1>5. SubSeq(list, a + 1, m) \in Seq(Repos)
  BY <1>1, <1>4, SubSeqProperties
<1> QED BY <1>2, <1>5 DEF a, m

\* What a statement changes of a reader.
Moved(w, pc, page, total, todo, seen) ==
  [w EXCEPT !.pc = pc, !.page = page, !.total = total, !.todo = todo, !.seen = seen]

LEMMA MovedFields ==
  ASSUME NEW w \in ReaderRow, NEW pc \in Stages, NEW page \in Nat, NEW total \in Nat,
         NEW todo \in Seq(Repos), NEW seen \in Seq(Item),
         NEW v, v = Moved(w, pc, page, total, todo, seen)
  PROVE  /\ v \in ReaderRow
         /\ v.pc = pc /\ v.page = page /\ v.total = total /\ v.todo = todo /\ v.seen = seen
         /\ v.filter = w.filter /\ v.quiet = w.quiet
  BY DEF Moved, ReaderRow

LEMMA ReaderFields ==
  ASSUME NEW w \in ReaderRow
  PROVE  /\ w.pc \in Stages /\ w.page \in Nat /\ w.total \in Nat
         /\ w.todo \in Seq(Repos) /\ w.seen \in Seq(Item) /\ w.quiet \in BOOLEAN
         /\ w = [w EXCEPT !.pc = w.pc]
         /\ Len(w.seen) \in Nat
<1>1. /\ w.pc \in Stages /\ w.page \in Nat /\ w.total \in Nat
      /\ w.todo \in Seq(Repos) /\ w.seen \in Seq(Item) /\ w.quiet \in BOOLEAN
      /\ w = [w EXCEPT !.pc = w.pc]
  BY DEF ReaderRow
<1> QED BY <1>1, LenProperties

\* SELECT COUNT.
LEMMA CountWalk ==
  ASSUME NEW d, Fits(d), NEW w, ReaderFits(w), w.pc = "count"
  PROVE  LET v == Moved(w, "rows", w.page, Cardinality(ListedIn(d, w.filter)), w.todo, w.seen)
         IN ReaderFits(v) /\ v.quiet = w.quiet /\ (WalkOf(d, w) => WalkOf(d, v))
<1> DEFINE v == Moved(w, "rows", w.page, Cardinality(ListedIn(d, w.filter)), w.todo, w.seen)
<1>1. /\ v \in ReaderRow
      /\ v.pc = "rows" /\ v.page = w.page /\ v.total = Cardinality(ListedIn(d, w.filter))
      /\ v.todo = w.todo /\ v.seen = w.seen /\ v.filter = w.filter /\ v.quiet = w.quiet
  <2>1. w \in ReaderRow /\ Cardinality(ListedIn(d, w.filter)) \in Nat
    BY ListIsFinite DEF ReaderFits
  <2>2. w.page \in Nat /\ w.todo \in Seq(Repos) /\ w.seen \in Seq(Item)
    BY <2>1, ReaderFields
  <2>3. "rows" \in Stages
    BY DEF Stages
  <2>4. v = Moved(w, "rows", w.page, Cardinality(ListedIn(d, w.filter)), w.todo, w.seen)
    OBVIOUS
  <2> HIDE DEF v
  <2> QED BY <2>1, <2>2, <2>3, <2>4, MovedFields
<1> HIDE DEF v
<1>2. ReaderFits(v)
  BY <1>1 DEF ReaderFits
<1>3. ASSUME WalkOf(d, w) PROVE WalkOf(d, v)
  <2>1. CASE w.page = 1 /\ w.seen = <<>>
    BY <1>1, <2>1 DEF WalkOf
  <2>2. CASE \E list : ListingOf(d, w.filter, list) /\ At(d, w, list)
    <3>1. PICK list : ListingOf(d, w.filter, list) /\ At(d, w, list)
      BY <2>2
    <3>2. At(d, v, list)
      BY <1>1, <3>1 DEF At
    <3> QED BY <1>1, <3>1, <3>2 DEF WalkOf
  <2> QED BY <1>3, <2>1, <2>2 DEF WalkOf
<1> QED BY <1>1, <1>2, <1>3 DEF v

\* SELECT ... LIMIT ? OFFSET ?: the listing is the one the walk has followed so far.
LEMMA RowsWalk ==
  ASSUME NEW d, Fits(d), NEW w, ReaderFits(w), w.pc = "rows", NEW list, ListingOf(d, w.filter, list)
  PROVE  LET v == Moved(w, "items", w.page, w.total, PageOf(list, w.page), w.seen)
         IN ReaderFits(v) /\ v.quiet = w.quiet /\ (WalkOf(d, w) => WalkOf(d, v))
<1> DEFINE todo == PageOf(list, w.page)
           v == Moved(w, "items", w.page, w.total, todo, w.seen)
<1>1. w \in ReaderRow /\ w.page \in Nat /\ w.page >= 1 /\ list \in Seq(Repos) /\ Len(list) \in Nat
  BY ReaderFields, ListingFacts DEF ReaderFits
<1>2. /\ todo = SubSeq(list, (w.page - 1) * PageSize + 1, EndOf(w.page, list))
      /\ todo \in Seq(Repos)
  BY <1>1, PageType
<1> HIDE DEF todo
<1>3. /\ v \in ReaderRow
      /\ v.pc = "items" /\ v.page = w.page /\ v.total = w.total
      /\ v.todo = todo /\ v.seen = w.seen /\ v.filter = w.filter /\ v.quiet = w.quiet
  <2>1. w.total \in Nat /\ w.seen \in Seq(Item)
    BY <1>1, ReaderFields
  <2>2. "items" \in Stages
    BY DEF Stages
  <2>3. v = Moved(w, "items", w.page, w.total, todo, w.seen)
    OBVIOUS
  <2> HIDE DEF v
  <2>4. w \in ReaderRow /\ w.page \in Nat /\ todo \in Seq(Repos)
    BY <1>1, <1>2
  <2> QED BY <2>1, <2>2, <2>3, <2>4, MovedFields
<1> HIDE DEF v
<1>4. ReaderFits(v)
  BY <1>1, <1>3 DEF ReaderFits
<1>5. ASSUME WalkOf(d, w) PROVE WalkOf(d, v)
  <2>1. /\ Len(w.seen) = (w.page - 1) * PageSize /\ Len(w.seen) <= Len(list)
        /\ ShownOf(d, list, Len(w.seen), w.seen)
    <3>1. CASE w.page = 1 /\ w.seen = <<>>
      <4>1. Len(w.seen) = 0 /\ (w.page - 1) * PageSize = 0
        BY <1>1, <3>1, EmptySeq, PageArithmetic
      <4>2. ShownOf(d, list, 0, w.seen)
        BY DEF ShownOf
      <4> QED BY <1>1, <4>1, <4>2
    <3>2. CASE \E l : ListingOf(d, w.filter, l) /\ At(d, w, l)
      <4>1. PICK l : ListingOf(d, w.filter, l) /\ At(d, w, l)
        BY <3>2
      <4>2. l = list
        BY <4>1, OneListing
      <4> QED BY <4>1, <4>2 DEF At
    <3> QED BY <1>5, <3>1, <3>2 DEF WalkOf
  <2>2. Len(w.seen) <= EndOf(w.page, list)
    BY <1>1, <2>1, EndFacts
  <2>3. At(d, v, list)
    BY <1>2, <1>3, <2>1, <2>2 DEF At
  <2> QED BY <1>3, <1>5, <2>3 DEF WalkOf
<1> QED BY <1>3, <1>4, <1>5 DEF v, todo

\* The facts of the next row.
LEMMA EntriesWalk ==
  ASSUME NEW d, Fits(d), NEW w, ReaderFits(w), w.pc = "items", w.todo # <<>>,
         NEW e \in Item, e.repo = Head(w.todo)
  PROVE  LET v == Moved(w, "pin", w.page, w.total, w.todo, Append(w.seen, e))
         IN ReaderFits(v) /\ v.quiet = w.quiet /\ (WalkOf(d, w) => WalkOf(d, v))
<1> DEFINE seen == Append(w.seen, e)
           n == Len(w.seen)
           v == Moved(w, "pin", w.page, w.total, w.todo, seen)
<1>1. w \in ReaderRow /\ w.page \in Nat /\ w.page >= 1 /\ w.seen \in Seq(Item) /\ n \in Nat
  BY ReaderFields DEF ReaderFits
<1>2. /\ seen \in Seq(Item) /\ Len(seen) = n + 1 /\ seen[n + 1] = e /\ \A i \in 1..n : seen[i] = w.seen[i]
  BY <1>1, AppendProperties
<1> HIDE DEF seen, n
<1>3. /\ v \in ReaderRow
      /\ v.pc = "pin" /\ v.page = w.page /\ v.total = w.total
      /\ v.todo = w.todo /\ v.seen = seen /\ v.filter = w.filter /\ v.quiet = w.quiet
  <2>1. w.total \in Nat /\ w.todo \in Seq(Repos)
    BY <1>1, ReaderFields
  <2>2. "pin" \in Stages
    BY DEF Stages
  <2>3. v = Moved(w, "pin", w.page, w.total, w.todo, seen)
    OBVIOUS
  <2> HIDE DEF v
  <2>4. w \in ReaderRow /\ w.page \in Nat /\ seen \in Seq(Item)
    BY <1>1, <1>2
  <2> QED BY <2>1, <2>2, <2>3, <2>4, MovedFields
<1> HIDE DEF v
<1>4. ReaderFits(v)
  <2>1. seen # <<>>
    BY <1>1, <1>2, EmptySeq
  <2> QED BY <1>1, <1>3, <2>1 DEF ReaderFits
<1>5. ASSUME WalkOf(d, w) PROVE WalkOf(d, v)
  <2>1. PICK list : ListingOf(d, w.filter, list) /\ At(d, w, list)
    BY <1>5 DEF WalkOf
  <2> DEFINE m == EndOf(w.page, list)
  <2>2. list \in Seq(Repos) /\ Len(list) \in Nat /\ m \in Nat /\ m <= Len(list)
    BY <1>1, <2>1, ListingFacts, EndFacts
  <2>3. n <= m /\ w.todo = SubSeq(list, n + 1, m) /\ ShownOf(d, list, n, w.seen)
    BY <2>1 DEF At, n
  <2> HIDE DEF m
  <2>4. n < m /\ Head(w.todo) = list[n + 1]
    BY <1>1, <2>2, <2>3, PageLeft
  <2>5. n + 1 \in 1..m /\ (n + 1) - 1 = n
    BY <1>1, <2>2, <2>4
  <2>6. ShownOf(d, list, n, seen)
    BY <1>2, <2>3 DEF ShownOf
  <2>7. At(d, v, list)
    BY <1>2, <1>3, <2>3, <2>4, <2>5, <2>6 DEF At, m
  <2> QED BY <1>3, <1>5, <2>1, <2>7 DEF WalkOf
<1> QED BY <1>3, <1>4, <1>5 DEF v, seen

\* The position of the row.
LEMMA PinWalk ==
  ASSUME NEW d, Fits(d), NEW w, ReaderFits(w), w.pc = "pin"
  PROVE  LET v == Moved(w, "items", w.page, w.total, Tail(w.todo),
                        [w.seen EXCEPT ![Len(w.seen)].pin = PositionIn(d, Head(w.todo))])
         IN ReaderFits(v) /\ v.quiet = w.quiet /\ (WalkOf(d, w) => WalkOf(d, v))
<1> DEFINE n == Len(w.seen)
           p == PositionIn(d, Head(w.todo))
           seen == [w.seen EXCEPT ![n].pin = p]
           todo == Tail(w.todo)
           v == Moved(w, "items", w.page, w.total, todo, seen)
<1>1. /\ w \in ReaderRow /\ w.page \in Nat /\ w.page >= 1 /\ w.total \in Nat
      /\ w.seen \in Seq(Item) /\ w.seen # <<>> /\ w.todo \in Seq(Repos) /\ w.todo # <<>>
  BY ReaderFields DEF ReaderFits
<1>2. p \in 0..Limit
  BY PositionType
<1>3. n \in Nat /\ n # 0 /\ n \in 1..n /\ w.seen \in [1..n -> Item]
  <2>1. n \in Nat /\ n # 0 /\ w.seen \in [1..n -> Item]
    BY <1>1, LenProperties, EmptySeq
  <2> HIDE DEF n
  <2> QED BY <2>1
<1>4. todo \in Seq(Repos)
  BY <1>1, HeadTailProperties
<1> HIDE DEF p, n, todo
<1>5. /\ seen \in [1..n -> Item]
      /\ seen[n].repo = w.seen[n].repo /\ seen[n].pin = p
      /\ \A i \in 1..n : i # n => seen[i] = w.seen[i]
  <2>1. w.seen[n] \in Item
    BY <1>3
  <2>2. [w.seen[n] EXCEPT !.pin = p] \in Item
    BY <1>2, <2>1 DEF Item
  <2>3. [w.seen[n] EXCEPT !.pin = p].repo = w.seen[n].repo /\ [w.seen[n] EXCEPT !.pin = p].pin = p
    BY <2>1 DEF Item
  <2>4. seen = [w.seen EXCEPT ![n] = [w.seen[n] EXCEPT !.pin = p]]
    BY <1>3
  <2> HIDE DEF seen
  <2>5. seen[n] = [w.seen[n] EXCEPT !.pin = p]
    BY <1>3, <2>4
  <2>6. seen \in [1..n -> Item] /\ \A i \in 1..n : i # n => seen[i] = w.seen[i]
    BY <1>3, <2>2, <2>4
  <2> QED BY <2>3, <2>5, <2>6
<1> HIDE DEF seen
<1>6. seen \in Seq(Item) /\ Len(seen) = n
  <2>1. seen \in Seq(Item)
    BY <1>3, <1>5, SeqDef
  <2>2. Len(seen) \in Nat /\ DOMAIN seen = 1..Len(seen) /\ DOMAIN seen = 1..n
    BY <1>5, <2>1, LenProperties
  <2>3. n \in Nat
    BY <1>3
  <2> HIDE DEF seen
  <2>4. Len(seen) = n
    BY <2>2, <2>3, SameEnd
  <2> QED BY <2>1, <2>4
<1>7. /\ v \in ReaderRow
      /\ v.pc = "items" /\ v.page = w.page /\ v.total = w.total
      /\ v.todo = todo /\ v.seen = seen /\ v.filter = w.filter /\ v.quiet = w.quiet
  <2>1. "items" \in Stages
    BY DEF Stages
  <2>2. v = Moved(w, "items", w.page, w.total, todo, seen)
    OBVIOUS
  <2> HIDE DEF v
  <2>3. w \in ReaderRow /\ w.page \in Nat /\ w.total \in Nat /\ todo \in Seq(Repos) /\ seen \in Seq(Item)
    BY <1>1, <1>4, <1>6
  <2> QED BY <2>1, <2>2, <2>3, MovedFields
<1> HIDE DEF v
<1>8. ReaderFits(v)
  BY <1>1, <1>7 DEF ReaderFits
<1>9. ASSUME WalkOf(d, w) PROVE WalkOf(d, v)
  <2>1. PICK list : ListingOf(d, w.filter, list) /\ At(d, w, list)
    BY <1>9 DEF WalkOf
  <2> DEFINE m == EndOf(w.page, list)
  <2>2. list \in Seq(Repos) /\ Len(list) \in Nat /\ m \in Nat /\ m <= Len(list)
    BY <1>1, <2>1, ListingFacts, EndFacts
  <2>3. /\ n \in 1..m /\ w.todo = SubSeq(list, n, m)
        /\ ShownOf(d, list, n - 1, w.seen) /\ w.seen[n].repo = list[n]
    BY <2>1 DEF At, n
  <2> HIDE DEF m
  <2>4. n - 1 \in Nat /\ n - 1 < m /\ n - 1 <= m /\ (n - 1) + 1 = n /\ (n - 1) + 2 = n + 1 /\ n <= m
    BY <1>3, <2>2, <2>3
  <2>5. Head(w.todo) = list[n] /\ todo = SubSeq(list, n + 1, m)
    <3> DEFINE k == n - 1
    <3>1. k \in Nat /\ k < m /\ k <= m /\ k + 1 = n /\ k + 2 = n + 1
      BY <2>4
    <3> HIDE DEF k
    <3>2. /\ Head(SubSeq(list, k + 1, m)) = list[k + 1]
          /\ Tail(SubSeq(list, k + 1, m)) = SubSeq(list, k + 2, m)
      BY <2>2, <3>1, PageLeft
    <3> QED BY <2>3, <3>1, <3>2 DEF todo
  <2>6. p = PositionIn(d, list[n])
    BY <2>5 DEF p
  <2>7. ShownOf(d, list, n, seen)
    <3>1. SUFFICES ASSUME NEW i \in 1..n
                   PROVE  seen[i].repo = list[i] /\ seen[i].pin = PositionIn(d, list[i])
      BY DEF ShownOf
    <3>2. CASE i = n
      BY <1>5, <2>3, <2>6, <3>2
    <3>3. CASE i # n
      <4>1. i \in 1..(n - 1)
        BY <1>3, <3>3
      <4>2. w.seen[i].repo = list[i] /\ w.seen[i].pin = PositionIn(d, list[i])
        BY <2>3, <4>1 DEF ShownOf
      <4> QED BY <1>5, <3>3, <4>2
    <3> QED BY <3>2, <3>3
  <2>8. At(d, v, list)
    BY <1>6, <1>7, <2>4, <2>5, <2>7 DEF At, m
  <2>9. w.total = Cardinality(ListedIn(d, w.filter))
    BY <1>9 DEF WalkOf
  <2> QED BY <1>7, <2>1, <2>8, <2>9 DEF WalkOf
<1> QED BY <1>7, <1>8, <1>9 DEF v, seen, todo, n, p

\* A step that changes nothing but where the walk is.
LEMMA MovedOn ==
  ASSUME NEW w, ReaderFits(w), NEW pc \in Stages, NEW page \in Nat,
         NEW v, v = Moved(w, pc, page, w.total, w.todo, w.seen)
  PROVE  /\ v \in ReaderRow
         /\ v.pc = pc /\ v.page = page /\ v.total = w.total
         /\ v.todo = w.todo /\ v.seen = w.seen /\ v.filter = w.filter /\ v.quiet = w.quiet
<1>1. w \in ReaderRow
  BY DEF ReaderFits
<1>2. w.total \in Nat /\ w.todo \in Seq(Repos) /\ w.seen \in Seq(Item)
  BY <1>1, ReaderFields
<1> QED BY <1>1, <1>2, MovedFields

\* The end of a page, and of the walk.
LEMMA EndWalk ==
  ASSUME NEW d, Fits(d), NEW w, ReaderFits(w), w.pc = "items", w.todo = <<>>
  PROVE  LET v == IF w.page * PageSize < w.total
                  THEN Moved(w, "count", w.page + 1, w.total, w.todo, w.seen)
                  ELSE Moved(w, "done", w.page, w.total, w.todo, w.seen)
         IN ReaderFits(v) /\ v.quiet = w.quiet /\ (WalkOf(d, w) => WalkOf(d, v))
<1> DEFINE n == Len(w.seen)
           more == w.page * PageSize < w.total
           pc == IF more THEN "count" ELSE "done"
           page == IF more THEN w.page + 1 ELSE w.page
           v == IF more THEN Moved(w, "count", w.page + 1, w.total, w.todo, w.seen)
                        ELSE Moved(w, "done", w.page, w.total, w.todo, w.seen)
<1>1. /\ w \in ReaderRow /\ w.page \in Nat /\ w.page >= 1 /\ w.total \in Nat
      /\ w.seen \in Seq(Item) /\ w.todo \in Seq(Repos) /\ n \in Nat
  BY ReaderFields DEF ReaderFits
<1>2. pc \in Stages /\ page \in Nat /\ page >= 1 /\ v = Moved(w, pc, page, w.total, w.todo, w.seen)
  <2>1. w.page + 1 \in Nat /\ w.page + 1 >= 1
    BY <1>1
  <2> HIDE DEF more
  <2> QED BY <1>1, <2>1 DEF Stages
<1> HIDE DEF v
<1>3. /\ v \in ReaderRow
      /\ v.pc = pc /\ v.page = page /\ v.total = w.total
      /\ v.todo = w.todo /\ v.seen = w.seen /\ v.filter = w.filter /\ v.quiet = w.quiet
  <2> HIDE DEF pc, page
  <2> QED BY <1>2, MovedOn
<1>4. ReaderFits(v)
  BY <1>2, <1>3 DEF ReaderFits
<1>5. ASSUME WalkOf(d, w) PROVE WalkOf(d, v)
  <2>1. PICK list : ListingOf(d, w.filter, list) /\ At(d, w, list)
    BY <1>5 DEF WalkOf
  <2> DEFINE m == EndOf(w.page, list)
             b == w.page * PageSize
  <2>2. /\ list \in Seq(Repos) /\ Len(list) \in Nat /\ m \in Nat /\ m <= Len(list)
        /\ b < Len(list) => m = b
        /\ ~(b < Len(list)) => m = Len(list)
    BY <1>1, <2>1, ListingFacts, EndFacts
  <2>3. n <= m /\ w.todo = SubSeq(list, n + 1, m) /\ ShownOf(d, list, n, w.seen)
    BY <2>1 DEF At
  <2>4. w.total = Cardinality(ListedIn(d, w.filter)) /\ w.total = Len(list)
    BY <1>5, <2>1, ListingFacts DEF WalkOf
  <2> HIDE DEF m, n
  <2>5. n = m
    BY <1>1, <2>2, <2>3, PageLeft
  <2>6. CASE more
    <3>1. (w.page + 1) - 1 = w.page
      BY <1>1
    <3>2. n = (v.page - 1) * PageSize /\ n <= Len(list) /\ v.pc = "count"
      BY <1>3, <2>2, <2>4, <2>5, <2>6, <3>1
    <3>3. At(d, v, list)
      BY <1>3, <2>3, <3>2 DEF At, n
    <3> QED BY <1>3, <2>1, <3>2, <3>3 DEF WalkOf
  <2>7. CASE ~more
    <3>1. n = Len(list) /\ v.pc = "done"
      BY <1>3, <2>2, <2>4, <2>5, <2>7
    <3>2. At(d, v, list)
      BY <1>3, <2>3, <3>1 DEF At, n
    <3> QED BY <1>3, <2>1, <2>4, <3>1, <3>2 DEF WalkOf
  <2> QED BY <2>6, <2>7
<1> QED BY <1>3, <1>4, <1>5 DEF v
-----------------------------------------------------------------------------
(***************************************************************************)
(* The walk as part of the whole.                                          *)
(***************************************************************************)

\* A walk is quiet for as long as it follows the database.  A process that comes up has
\* no request.
WalkHolds ==
  /\ ReaderFits(reader)
  /\ boot # "serving" => reader = Away
  /\ reader.quiet => WalkOf(db, reader)

CountersHold == crashes \in 0..MaxCrashes /\ commits \in 0..MaxCommits

CInv == AInv /\ WalkHolds /\ CountersHold

LEMMA AwayFits == ReaderFits(Away) /\ ~Away.quiet /\ Away.pc = "idle"
<1>1. <<>> \in Seq(Repos) /\ <<>> \in Seq(Item)
  BY EmptySeq
<1>2. Away.pc = "idle" /\ Away.page = 0 /\ Away.quiet = FALSE
  BY DEF Away
<1>3. Away \in ReaderRow
  BY <1>1 DEF Away, ReaderRow, Stages
<1> QED BY <1>2, <1>3 DEF ReaderFits

\* What is read of a row.
LEMMA EntriesType == ASSUME Fits(db), NEW r PROVE Entries(r) \in Entry
<1> DEFINE e == db.events
           S == {SourceOf[f] : f \in Of(e, r)}
           T(s) == {e[f].time : f \in {g \in Of(e, r) : SourceOf[g] = s}}
<1>1. EventsFit(e)
  BY DEF Fits
<1>2. S \in SUBSET Sources
  BY <1>1, FactsAssumption DEF Of, EventsFit
<1>3. \A s \in S : Max(T(s)) \in Times
  <2>1. SUFFICES ASSUME NEW s \in S PROVE Max(T(s)) \in Times
    OBVIOUS
  <2>2. T(s) \subseteq Times /\ T(s) # {}
    BY <1>1 DEF Of, EventsFit
  <2>3. PICK b \in Nat : \A f \in DOMAIN e : e[f].time <= b
    BY <1>1, TimesAreBounded
  <2>4. \A t \in T(s) : t <= b
    BY <2>3 DEF Of
  <2>5. T(s) \subseteq Nat
    BY <2>2, NumbersAssumption
  <2> HIDE DEF T
  <2>6. Max(T(s)) \in T(s)
    BY <2>2, <2>4, <2>5, MaxIsGreatest
  <2> QED BY <2>2, <2>6
<1>4. Entries(r) = [s \in S |-> Max(T(s))]
  BY DEF Entries
<1> HIDE DEF S, T
<1>5. Entries(r) \in [S -> Times]
  BY <1>3, <1>4
<1> QED BY <1>2, <1>5 DEF Entry

\* A statement of a request is one of the steps above.
LEMMA ReadFollows ==
  ASSUME Fits(db), ReaderFits(reader), Read
  PROVE  /\ ReaderFits(reader') /\ reader'.quiet = reader.quiet /\ (WalkOf(db, reader) => WalkOf(db, reader'))
         /\ reader.pc # "idle" /\ UNCHANGED <<migrationVars, moved, commits>>
<1>0. reader \in ReaderRow
  BY DEF ReaderFits
<1>1. CASE Count
  <2>1. reader' = Moved(reader, "rows", reader.page, Cardinality(ListedIn(db, reader.filter)), reader.todo, reader.seen)
    <3> DEFINE c == Cardinality(ListedIn(db, reader.filter))
    <3>1. reader' = [reader EXCEPT !.pc = "rows", !.total = c]
      BY <1>1, SameList DEF Count
    <3> HIDE DEF c
    <3>2. reader' = Moved(reader, "rows", reader.page, c, reader.todo, reader.seen)
      BY <1>0, <3>1 DEF Moved, ReaderRow
    <3> QED BY <3>2 DEF c
  <2>2. reader.pc = "count" /\ UNCHANGED <<migrationVars, moved, commits>>
    BY <1>1 DEF Count
  <2> QED BY <2>1, <2>2, CountWalk
<1>2. CASE Rows
  <2>1. PICK list \in Listings(reader.filter) :
          reader' = [reader EXCEPT !.pc = "items", !.todo = PageOf(list, reader.page)]
    BY <1>2 DEF Rows
  <2>2. reader' = Moved(reader, "items", reader.page, reader.total, PageOf(list, reader.page), reader.seen)
    <3> DEFINE c == PageOf(list, reader.page)
    <3>1. reader' = [reader EXCEPT !.pc = "items", !.todo = c]
      BY <2>1
    <3> HIDE DEF c
    <3>2. reader' = Moved(reader, "items", reader.page, reader.total, c, reader.seen)
      BY <1>0, <3>1 DEF Moved, ReaderRow
    <3> QED BY <3>2 DEF c
  <2>3. reader.pc = "rows" /\ UNCHANGED <<migrationVars, moved, commits>>
    BY <1>2 DEF Rows
  <2>4. ListingOf(db, reader.filter, list)
    BY <2>1, SameListing
  <2> QED BY <2>2, <2>3, <2>4, RowsWalk
<1>3. CASE ReadEntries
  <2> DEFINE r == Head(reader.todo)
             e == [repo |-> r, entries |-> Entries(r), pin |-> 0]
  <2>1. reader.pc = "items" /\ reader.todo # <<>> /\ UNCHANGED <<migrationVars, moved, commits>>
    BY <1>3 DEF ReadEntries
  <2>2. reader' = Moved(reader, "pin", reader.page, reader.total, reader.todo, Append(reader.seen, e))
    <3> DEFINE c == Append(reader.seen, e)
    <3>1. reader' = [reader EXCEPT !.pc = "pin", !.seen = c]
      BY <1>0, <1>3 DEF ReadEntries, ReaderRow
    <3> HIDE DEF c
    <3>2. reader' = Moved(reader, "pin", reader.page, reader.total, reader.todo, c)
      BY <1>0, <3>1 DEF Moved, ReaderRow
    <3> QED BY <3>2 DEF c
  <2>3. e \in Item /\ e.repo = r
    <3>1. r \in Repos
      BY <1>0, <2>1, ReaderFields, HeadTailProperties
    <3>2. Entries(r) \in Entry
      BY EntriesType
    <3>3. 0 \in 0..Limit
      BY PagesAssumption
    <3> HIDE DEF r
    <3> QED BY <3>1, <3>2, <3>3 DEF Item, Entry
  <2> HIDE DEF e
  <2> QED BY <2>1, <2>2, <2>3, EntriesWalk
<1>4. CASE ReadPin
  <2>1. reader.pc = "pin" /\ UNCHANGED <<migrationVars, moved, commits>>
    BY <1>4 DEF ReadPin
  <2> DEFINE n == Len(reader.seen)
             p == PositionIn(db, Head(reader.todo))
             t == Tail(reader.todo)
  <2>2. reader' = [reader EXCEPT !.pc = "items", !.todo = t, !.seen[n].pin = p]
    BY <1>0, <1>4, SameList DEF ReadPin, ReaderRow
  <2>3. reader' = Moved(reader, "items", reader.page, reader.total, t, [reader.seen EXCEPT ![n].pin = p])
    <3> HIDE DEF n, p, t
    <3>1. [reader EXCEPT !.pc = "items", !.todo = t, !.seen[n].pin = p] =
            Moved(reader, "items", reader.page, reader.total, t, [reader.seen EXCEPT ![n].pin = p])
      BY <1>0 DEF Moved, ReaderRow
    <3> QED BY <2>2, <3>1
  <2> QED BY <2>1, <2>3, PinWalk
<1>5. CASE EndPage
  <2>1. reader.pc = "items" /\ reader.todo = <<>> /\ UNCHANGED <<migrationVars, moved, commits>>
    BY <1>5 DEF EndPage
  <2>2. reader' = IF reader.page * PageSize < reader.total
                  THEN [reader EXCEPT !.pc = "count", !.page = reader.page + 1]
                  ELSE [reader EXCEPT !.pc = "done"]
    BY <1>0, <1>5 DEF EndPage, ReaderRow
  <2>3. reader' = IF reader.page * PageSize < reader.total
                  THEN Moved(reader, "count", reader.page + 1, reader.total, reader.todo, reader.seen)
                  ELSE Moved(reader, "done", reader.page, reader.total, reader.todo, reader.seen)
    BY <1>0, <2>2 DEF Moved, ReaderRow
  <2> QED BY <2>1, <2>3, EndWalk
<1> QED BY <1>1, <1>2, <1>3, <1>4, <1>5 DEF Read

\* The first page is asked for: nothing has been followed yet.
LEMMA AskWalk ==
  ASSUME NEW d, NEW filter \in Filters
  PROVE  LET v == [Away EXCEPT !.pc = "count", !.filter = filter, !.page = 1, !.quiet = TRUE]
         IN ReaderFits(v) /\ WalkOf(d, v)
<1> DEFINE v == [Away EXCEPT !.pc = "count", !.filter = filter, !.page = 1, !.quiet = TRUE]
<1>1. <<>> \in Seq(Repos) /\ <<>> \in Seq(Item)
  BY EmptySeq
<1>2. v.pc = "count" /\ v.page = 1 /\ v.seen = <<>>
  BY DEF Away
<1>3. v \in ReaderRow
  BY <1>1 DEF Away, ReaderRow, Stages
<1> HIDE DEF v
<1>4. ReaderFits(v) /\ WalkOf(d, v)
  BY <1>2, <1>3 DEF ReaderFits, WalkOf
<1> QED BY <1>4 DEF v

\* A walk a transaction falls into is not quiet any more, and as well formed as before.
LEMMA DisturbedFits ==
  ASSUME NEW w, ReaderFits(w)
  PROVE  ReaderFits([w EXCEPT !.quiet = FALSE]) /\ ~[w EXCEPT !.quiet = FALSE].quiet
<1> DEFINE v == [w EXCEPT !.quiet = FALSE]
<1>1. w \in ReaderRow
  BY DEF ReaderFits
<1>2. /\ v \in ReaderRow /\ v.quiet = FALSE
      /\ v.pc = w.pc /\ v.page = w.page /\ v.todo = w.todo /\ v.seen = w.seen
  BY <1>1 DEF ReaderRow
<1> HIDE DEF v
<1>3. ReaderFits(v) /\ ~v.quiet
  BY <1>2 DEF ReaderFits
<1> QED BY <1>3 DEF v

LEMMA InitWalk == ASSUME Init PROVE CInv
<1>1. reader = Away /\ boot = "down" /\ crashes = 0 /\ commits = 0
  BY DEF Init, MigrationInit
<1>2. CountersHold
  BY <1>1, BoundsAssumption DEF CountersHold
<1> QED BY <1>1, <1>2, AwayFits, InitFits DEF CInv, WalkHolds

LEMMA CStep == ASSUME CInv, [Next]_vars PROVE CInv'
<1>0. AInv'
  BY AStep DEF CInv
<1>1. Fits(db) /\ ReaderFits(reader)
  BY DEF CInv, AInv, Fitting, WalkHolds
<1>2. ASSUME reader' = Away PROVE WalkHolds'
  BY <1>2, AwayFits DEF WalkHolds
<1>3. ASSUME NEW d, Commit(d) PROVE WalkHolds' /\ CountersHold'
  <2>1. boot = "serving" /\ boot' = "serving" /\ reader' = [reader EXCEPT !.quiet = FALSE]
    BY <1>3 DEF Commit
  <2>2. WalkHolds'
    BY <1>1, <2>1, DisturbedFits DEF WalkHolds
  <2>3. commits' = commits + 1 /\ commits < MaxCommits /\ crashes' = crashes
    BY <1>3 DEF Commit
  <2>4. CountersHold'
    BY <2>3, BoundsAssumption DEF CInv, CountersHold
  <2> QED BY <2>2, <2>4
<1>4. CASE Migrate /\ UNCHANGED <<reader, moved, commits>>
  <2>1. boot # "serving" /\ crashes' = crashes /\ commits' = commits
    BY <1>4 DEF Migrate, Boot, Begin, MakeTables, CopyOldFacts, Validate, AggregateOldFacts, AddColumn,
                MakeRadarTables, RecordVersion, CommitVersion
  <2>2. reader' = Away
    BY <1>4, <2>1 DEF CInv, WalkHolds
  <2>3. CountersHold'
    BY <2>1 DEF CInv, CountersHold
  <2> QED BY <1>0, <1>2, <2>2, <2>3 DEF CInv
<1>5. ASSUME NEW f \in NewFacts, NEW r \in Repos, NEW time \in Times, Publish(f, r, time) PROVE CInv'
  BY <1>0, <1>3, <1>5 DEF Publish, CInv
<1>6. ASSUME NEW list \in SeqOf(Repos, Limit + 1), ReplacePins(list) PROVE CInv'
  BY <1>0, <1>3, <1>6 DEF ReplacePins, CInv
<1>7. ASSUME NEW filter \in Filters, Ask(filter) PROVE CInv'
  <2>1. /\ boot = "serving" /\ boot' = "serving" /\ crashes' = crashes /\ commits' = commits
        /\ reader' = [Away EXCEPT !.pc = "count", !.filter = filter, !.page = 1, !.quiet = TRUE]
    BY <1>7 DEF Ask, migrationVars
  <2>2. WalkHolds'
    BY <2>1, AskWalk DEF WalkHolds
  <2>3. CountersHold'
    BY <2>1 DEF CInv, CountersHold
  <2> QED BY <1>0, <2>2, <2>3 DEF CInv
<1>8. CASE Read
  <2>1. /\ ReaderFits(reader') /\ reader'.quiet = reader.quiet /\ (WalkOf(db, reader) => WalkOf(db, reader'))
        /\ reader.pc # "idle" /\ UNCHANGED <<migrationVars, moved, commits>>
    BY <1>1, <1>8, ReadFollows
  <2>2. db' = db /\ boot' = boot /\ crashes' = crashes /\ commits' = commits
    BY <2>1 DEF migrationVars
  <2>3. boot = "serving"
    BY <2>1, AwayFits DEF CInv, WalkHolds
  <2>4. WalkHolds'
    BY <2>1, <2>2, <2>3 DEF CInv, WalkHolds
  <2>5. CountersHold'
    BY <2>2 DEF CInv, CountersHold
  <2> QED BY <1>0, <2>4, <2>5 DEF CInv
<1>9. CASE Stop
  <2>1. reader' = Away /\ crashes' = crashes + 1 /\ crashes < MaxCrashes /\ commits' = commits
    BY <1>9 DEF Stop, Crash
  <2>2. CountersHold'
    BY <2>1, BoundsAssumption DEF CInv, CountersHold
  <2> QED BY <1>0, <1>2, <2>1, <2>2 DEF CInv
<1>10. CASE UNCHANGED vars
  BY <1>0, <1>10 DEF vars, migrationVars, CInv, WalkHolds, CountersHold
<1> QED BY <1>4, <1>5, <1>6, <1>7, <1>8, <1>9, <1>10 DEF Next

\* A client who pages through the list while nothing is committed sees every repository of
\* its filter once, in the order of the list, and as many as each page has told it.
THEOREM QuietWalks == Spec => []QuietWalkListsEachOnce
<1>1. ASSUME CInv, reader.pc = "done", reader.quiet
      PROVE  /\ {reader.seen[i].repo : i \in DOMAIN reader.seen} = Listed(reader.filter)
             /\ Len(reader.seen) = Cardinality(Listed(reader.filter))
             /\ Len(reader.seen) = reader.total
             /\ \A i, j \in DOMAIN reader.seen : i < j =>
                  /\ reader.seen[j].pin # 0 => reader.seen[i].pin \in 1..(reader.seen[j].pin - 1)
                  /\ reader.seen[i].pin = 0 =>
                       db.repos[reader.seen[i].repo].latest >= db.repos[reader.seen[j].repo].latest
  <2> DEFINE seen == reader.seen
             F == ListedIn(db, reader.filter)
  <2>1. Fits(db) /\ ReaderFits(reader) /\ WalkOf(db, reader)
    BY <1>1 DEF CInv, AInv, Fitting, WalkHolds
  <2>2. PICK list : ListingOf(db, reader.filter, list) /\ At(db, reader, list)
    BY <1>1, <2>1 DEF WalkOf
  <2>3. /\ Len(seen) = Len(list) /\ ShownOf(db, list, Len(seen), seen)
        /\ reader.total = Cardinality(F)
    BY <1>1, <2>1, <2>2 DEF At, WalkOf
  <2>4. /\ Len(list) = Cardinality(F) /\ Len(list) \in Nat
        /\ \A i \in 1..Len(list) : list[i] \in F
        /\ \A r \in F : \E i \in 1..Len(list) : list[i] = r
        /\ \A i, j \in 1..Len(list) : i < j => BeforeIn(db, list[i], list[j])
    BY <2>1, <2>2, ListingFacts
  <2>5. DOMAIN seen = 1..Len(seen)
    <3>1. seen \in Seq(Item)
      BY <2>1, ReaderFields DEF ReaderFits
    <3> QED BY <3>1, LenProperties
  <2>6. Listed(reader.filter) = F
    BY SameList
  <2> DEFINE N == Len(list)
  <2>7. /\ Len(seen) = N /\ DOMAIN seen = 1..N /\ N \in Nat /\ N = Cardinality(F)
        /\ \A i \in 1..N : seen[i].repo = list[i] /\ seen[i].pin = PositionIn(db, list[i])
    BY <2>3, <2>4, <2>5 DEF ShownOf
  <2>8. \A i \in 1..N : PositionIn(db, list[i]) \in Nat
    BY <2>1, PositionType, PagesAssumption
  <2>9. \A i \in 1..N : db.repos[list[i]].latest \in Nat
    BY <2>1, <2>4, NumbersAssumption DEF ListedIn, Fits, ReposFit, RepoRow
  <2> HIDE DEF N, F, seen
  <2>10. {seen[i].repo : i \in DOMAIN seen} = F
    BY <2>4, <2>7 DEF N
  <2>11. ASSUME NEW i \in 1..N, NEW j \in 1..N, i < j
         PROVE  /\ seen[j].pin # 0 => seen[i].pin \in 1..(seen[j].pin - 1)
                /\ seen[i].pin = 0 => db.repos[seen[i].repo].latest >= db.repos[seen[j].repo].latest
    <3>1. BeforeIn(db, list[i], list[j])
      BY <2>4, <2>11 DEF N
    <3> DEFINE p == PositionIn(db, list[i])
               q == PositionIn(db, list[j])
    <3>2. p \in Nat /\ q \in Nat /\ seen[i].pin = p /\ seen[j].pin = q
      BY <2>7, <2>8
    <3>3. q # 0 => p # 0 /\ p < q
      BY <3>1 DEF BeforeIn
    <3>4. p = 0 => \/ db.repos[list[i]].latest > db.repos[list[j]].latest
                   \/ db.repos[list[i]].latest = db.repos[list[j]].latest
      BY <3>1 DEF BeforeIn
    <3> HIDE DEF p, q
    <3>5. q # 0 => p \in 1..(q - 1)
      BY <3>2, <3>3
    <3>6. p = 0 => db.repos[list[i]].latest >= db.repos[list[j]].latest
      BY <2>9, <3>4
    <3> QED BY <2>7, <3>2, <3>5, <3>6
  <2> QED BY <2>3, <2>4, <2>6, <2>7, <2>10, <2>11 DEF seen, N, F
<1>2. CInv => QuietWalkListsEachOnce
  BY <1>1 DEF QuietWalkListsEachOnce
<1> QED BY <1>2, InitWalk, CStep, PTL DEF Spec

\* The database that is committed, the one a transaction sees, and a request have their types.
THEOREM TypesHold == Spec => []TypeOK
<1>1. ASSUME NEW d, Fits(d) PROVE d \in Database
  <2> DEFINE E == UNION {[facts -> [repo : Repos, time : Times]] : facts \in SUBSET Facts}
             R == UNION {[rs -> RepoRow] : rs \in SUBSET Repos}
  <2>1. d.events \in E
    BY <1>1 DEF Fits, EventsFit
  <2>2. d.repos \in R
    BY <1>1 DEF Fits, ReposFit
  <2>3. /\ d.version \in 0..3 /\ d.made \in SUBSET {"events", "hash", "radar"}
        /\ d.pins \in SeqOf(Repos, Limit) /\ d = [t \in Tables |-> d[t]]
    BY <1>1 DEF Fits, Whole
  <2> HIDE DEF E, R
  <2>4. d \in [version : 0..3, made : SUBSET {"events", "hash", "radar"}, events : E, repos : R,
               pins : SeqOf(Repos, Limit)]
    BY <2>1, <2>2, <2>3 DEF Tables
  <2> QED BY <2>4 DEF Database, RepoRow, E, R
<1>2. ASSUME CInv PROVE TypeOK
  <2>1. db \in Database /\ work \in Database /\ moved \subseteq Repos
    BY <1>1, <1>2 DEF CInv, AInv, Fitting
  <2>2. boot \in Steps /\ (boot \in {"down", "check", "serving"} => work = db)
    BY <1>2 DEF CInv, AInv, IInv, WorkCarries
  <2>3. reader.todo \in Seq(Repos) /\ reader.seen \in Seq(Item) /\ reader.total \in Nat
    BY <1>2, ReaderFields DEF CInv, WalkHolds, ReaderFits
  <2> QED BY <1>2, <2>1, <2>2, <2>3 DEF TypeOK, CInv, CountersHold
<1> QED BY <1>2, InitWalk, CStep, PTL DEF Spec
=============================================================================
