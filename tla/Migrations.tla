----------------------------- MODULE Migrations -----------------------------
(***************************************************************************)
(* NewSQLiteStore: what a process does to the database before it serves.   *)
(* Three migrations, each in one transaction with its version row.  The    *)
(* first copies the facts of three old tables into repo_source_events.     *)
(*                                                                         *)
(* A fact is known by its source and external_key, and tells that a        *)
(* repository was mentioned at a time.                                     *)
(***************************************************************************)
EXTENDS Naturals, FiniteSets, FiniteSetsExt

CONSTANTS
  Sources,      \* source codes; all built-in sources are enabled
  Repos,        \* GitHub ids
  Times,        \* times a fact can have
  OldFacts,     \* rows the old tables may have
  NewFacts,     \* external keys of candidates; no old row gets one of these
  SourceOf,     \* the source of a fact
  MaxCrashes    \* bound: ends of the process

Facts == OldFacts \cup NewFacts

ASSUME NumbersAssumption == Repos \subseteq Nat /\ Times \subseteq Nat
ASSUME FactsAssumption ==
  IsFiniteSet(OldFacts) /\ OldFacts \cap NewFacts = {} /\ SourceOf \in [Facts -> Sources]

VARIABLES
  old,       \* weekly_extras, zread_events and discovery_submissions, never written
  unjoined,  \* the rows of weekly_extras whose issue is not in weekly_issues
  db,        \* what is committed
  work,      \* the database as the process sees it: db, or db and an open transaction
  boot,      \* where the process is
  crashes

migrationVars == <<old, unjoined, db, work, boot, crashes>>

\* github_repos before the migration: what its aggregates say need not be true.
OldRepo == {[available |-> a, sources |-> {}, first |-> t, latest |-> t] : a \in BOOLEAN, t \in Times}

MigrationInit ==
  /\ \E rows \in SUBSET OldFacts :
       /\ old \in [rows -> [repo : Repos, time : Times]]
       /\ unjoined \in SUBSET {f \in rows : SourceOf[f] = "weekly"}
  /\ \E row \in OldRepo :
       db = [version |-> 0, made |-> {}, events |-> <<>>, pins |-> <<>>,
             repos |-> [r \in {old[f].repo : f \in DOMAIN old} |-> row]]
  /\ work = db
  /\ boot = "down"
  /\ crashes = 0
-----------------------------------------------------------------------------
(***************************************************************************)
(* What a transaction leaves.                                              *)
(***************************************************************************)

\* A fault to be noticed: every statement is committed by itself.
KeptPartly(stored, seen) == seen
Kept(stored, seen) == stored

\* CREATE TABLE without IF NOT EXISTS.
Clean(d, table) == table \notin d.made

\* The old rows as events: those of the weekly are joined with their issue.
Carried == [f \in DOMAIN old \ unjoined |-> old[f]]

CountOf(facts, s) == Cardinality({f \in facts : SourceOf[f] = s})

\* A fault to be noticed: one source that is complete excuses the others.
MismatchEverywhere(events) ==
  \A s \in Sources : CountOf(DOMAIN events, s) < CountOf(DOMAIN old, s)

\* validateLegacyBackfill.
Mismatch(events) ==
  \E s \in Sources : CountOf(DOMAIN events, s) < CountOf(DOMAIN old, s)

Of(events, r) == {f \in DOMAIN events : events[f].repo = r}
TimesOf(events, r) == {events[f].time : f \in Of(events, r)}

\* A fault to be noticed: the window is only ever widened.
Widened(row, events, r) ==
  [row EXCEPT !.sources = {SourceOf[f] : f \in Of(events, r)},
              !.first = Min(TimesOf(events, r) \cup {row.first}),
              !.latest = Max(TimesOf(events, r) \cup {row.latest})]

\* source_types_json, first_event_at and latest_event_at from the events.
Aggregated(row, events, r) ==
  IF Of(events, r) = {} THEN row
  ELSE [row EXCEPT !.sources = {SourceOf[f] : f \in Of(events, r)},
                   !.first = Min(TimesOf(events, r)),
                   !.latest = Max(TimesOf(events, r))]
-----------------------------------------------------------------------------
(***************************************************************************)
(* runMigrations.                                                          *)
(***************************************************************************)

\* The process starts; the tables of the baseline are made if they are missing.
Boot ==
  /\ boot = "down"
  /\ boot' = "check"
  /\ UNCHANGED <<old, unjoined, db, work, crashes>>

\* The first version without a row is begun; with none left the server comes up.
Begin ==
  /\ boot = "check"
  /\ boot' = <<"tables", "column", "radar", "serving">>[db.version + 1]
  /\ UNCHANGED <<old, unjoined, db, work, crashes>>

\* An error: rolled back, and New fails.
Refuse ==
  /\ work' = Kept(db, work)
  /\ db' = Kept(db, work)
  /\ boot' = "down"

Goto(step, d) == boot' = step /\ work' = d /\ UNCHANGED db

\* migrateMultiSourceFoundation, statement by statement.
MakeTables ==
  /\ boot = "tables"
  /\ IF Clean(work, "events")
     THEN Goto("copy", [work EXCEPT !.made = @ \cup {"events"}])
     ELSE Refuse
  /\ UNCHANGED <<old, unjoined, crashes>>

CopyOldFacts ==
  /\ boot = "copy"
  /\ Goto("validate", [work EXCEPT !.events = Carried])
  /\ UNCHANGED <<old, unjoined, crashes>>

Validate ==
  /\ boot = "validate"
  /\ IF Mismatch(work.events) THEN Refuse ELSE Goto("aggregate", work)
  /\ UNCHANGED <<old, unjoined, crashes>>

AggregateOldFacts ==
  /\ boot = "aggregate"
  /\ Goto("record", [work EXCEPT !.repos =
       [r \in DOMAIN work.repos |-> Aggregated(work.repos[r], work.events, r)]])
  /\ UNCHANGED <<old, unjoined, crashes>>

\* migrateWeeklyIssueContentHash looks first, migrateDailyRadar does not.
AddColumn ==
  /\ boot = "column"
  /\ Goto("record", [work EXCEPT !.made = @ \cup {"hash"}])
  /\ UNCHANGED <<old, unjoined, crashes>>

MakeRadarTables ==
  /\ boot = "radar"
  /\ IF Clean(work, "radar")
     THEN Goto("record", [work EXCEPT !.made = @ \cup {"radar"}])
     ELSE Refuse
  /\ UNCHANGED <<old, unjoined, crashes>>

RecordVersion ==
  /\ boot = "record"
  /\ Goto("commit", [work EXCEPT !.version = @ + 1])
  /\ UNCHANGED <<old, unjoined, crashes>>

CommitVersion ==
  /\ boot = "commit"
  /\ db' = work
  /\ boot' = "check"
  /\ UNCHANGED <<old, unjoined, work, crashes>>

\* The process ends, wherever it is.
Crash ==
  /\ boot # "down"
  /\ crashes < MaxCrashes
  /\ crashes' = crashes + 1
  /\ Refuse
  /\ UNCHANGED <<old, unjoined>>

Migrate ==
  \/ Boot
  \/ Begin
  \/ MakeTables
  \/ CopyOldFacts
  \/ Validate
  \/ AggregateOldFacts
  \/ AddColumn
  \/ MakeRadarTables
  \/ RecordVersion
  \/ CommitVersion
-----------------------------------------------------------------------------
\* No old fact is lost by an upgrade: once the first version counts as applied, each
\* row of the old tables is an event, of its repository and its time.  A database of
\* which rows could not be carried over is refused, as often as it is tried.
LegacyIsCarried ==
  db.version >= 1 => \A f \in DOMAIN old : f \in DOMAIN db.events /\ db.events[f] = old[f]

\* A database whose rows can all be carried over is served in the end, wherever the
\* earlier attempts were cut short.
UpgradeFinishes == unjoined = {} => <>[](boot = "serving")
=============================================================================
