------------------------------ MODULE Catalog -------------------------------
(***************************************************************************)
(* The catalogue behind GET /api/v1/repos once the migrations are through: *)
(* facts and their aggregates, the admin's pins, and a client who pages    *)
(* through the list.  A write is one transaction and a read several        *)
(* statements, all on the one connection of the process.                   *)
(*                                                                         *)
(* Only the default order, by latest_event_at, is modelled: the others put *)
(* another column in its place.                                            *)
(***************************************************************************)
EXTENDS Migrations, Sequences, SequencesExt

CONSTANTS
  Limit,       \* maxWeeklyPins
  PageSize,
  Filters,     \* sets of sources the client may ask for
  MaxCommits   \* bound: transactions while serving

ASSUME PagesAssumption == Limit \in Nat /\ PageSize \in Nat \ {0}
ASSUME BoundsAssumption == MaxCrashes \in Nat /\ MaxCommits \in Nat

VARIABLES
  reader,      \* a client and the request it waits for
  moved,       \* history: repositories that lost a fact since their aggregates were computed
  commits

vars == <<migrationVars, reader, moved, commits>>

Away == [pc |-> "idle", filter |-> {}, page |-> 0, total |-> 0, todo |-> <<>>, seen |-> <<>>, quiet |-> FALSE]

Init ==
  /\ MigrationInit
  /\ reader = Away
  /\ moved = {}
  /\ commits = 0

\* A transaction of the serving process.  A walk it falls into is no longer quiet.
Commit(d) ==
  /\ boot = "serving"
  /\ commits < MaxCommits
  /\ commits' = commits + 1
  /\ db' = d
  /\ work' = d
  /\ reader' = [reader EXCEPT !.quiet = FALSE]
  /\ UNCHANGED <<old, unjoined, boot, crashes>>
-----------------------------------------------------------------------------
(***************************************************************************)
(* Writers.                                                                *)
(***************************************************************************)

With(f, x, y) == [z \in DOMAIN f \cup {x} |-> IF z = x THEN y ELSE f[z]]

\* upsertGitHubRepo: the aggregates of a known repository are left alone.
Upserted(repos, r, time) ==
  With(repos, r,
       IF r \in DOMAIN repos THEN [repos[r] EXCEPT !.available = TRUE]
       ELSE [available |-> TRUE, sources |-> {}, first |-> time, latest |-> time])

\* CompleteIngestItem: a candidate's name has led to a repository, perhaps to another
\* than last time.  Only the aggregates of the new one are computed.
Publish(f, r, time) ==
  LET events == With(db.events, f, [repo |-> r, time |-> time])
      repos  == Upserted(db.repos, r, time)
  IN /\ Commit([db EXCEPT !.events = events,
                          !.repos = [repos EXCEPT ![r] = Aggregated(@, events, r)]])
     /\ moved' = (moved \cup IF f \in DOMAIN db.events THEN {db.events[f].repo} ELSE {}) \ {r}

\* hasAnySourceSQL and is_available=1.
Public(r) == r \in DOMAIN db.repos /\ db.repos[r].available /\ Of(db.events, r) # {}

\* A fault to be noticed: no limit.
AcceptableAnyLength(list) ==
  /\ IsInjective(list)
  /\ \A i \in DOMAIN list : Public(list[i])

Acceptable(list) ==
  /\ Len(list) <= Limit
  /\ IsInjective(list)
  /\ \A i \in DOMAIN list : Public(list[i])

\* ReplaceWeeklyPins; a list that is refused changes nothing.
ReplacePins(list) ==
  /\ Acceptable(list)
  /\ Commit([db EXCEPT !.pins = list])
  /\ UNCHANGED moved

Stop ==
  /\ Crash
  /\ reader' = Away
  /\ UNCHANGED <<moved, commits>>
-----------------------------------------------------------------------------
(***************************************************************************)
(* QueryRepos and its client.                                              *)
(***************************************************************************)

\* buildRepoWhere: each of the sources asked for.
Listed(filter) ==
  {r \in DOMAIN db.repos : Public(r) /\ filter \subseteq {SourceOf[f] : f \in Of(db.events, r)}}

Position(r) == IF \E i \in DOMAIN db.pins : db.pins[i] = r
               THEN CHOOSE i \in DOMAIN db.pins : db.pins[i] = r ELSE 0

Pinned(r) == Position(r) # 0

\* A fault to be noticed: repositories of one time in no particular order.
BeforeOrTied(q, r) ==
  \/ Pinned(q) /\ ~Pinned(r)
  \/ Pinned(q) /\ Pinned(r) /\ Position(q) < Position(r)
  \/ ~Pinned(q) /\ ~Pinned(r) /\ db.repos[q].latest >= db.repos[r].latest

\* repoOrderBy.
Before(q, r) ==
  \/ Pinned(q) /\ ~Pinned(r)
  \/ Pinned(q) /\ Pinned(r) /\ Position(q) < Position(r)
  \/ /\ ~Pinned(q) /\ ~Pinned(r)
     /\ \/ db.repos[q].latest > db.repos[r].latest
        \/ db.repos[q].latest = db.repos[r].latest /\ q > r

\* The orders in which SQLite may return the rows.
Listings(filter) ==
  {s \in SetToSeqs(Listed(filter)) : \A i, j \in DOMAIN s : i < j => Before(s[i], s[j])}

Ask(filter) ==
  /\ boot = "serving"
  /\ reader.pc \in {"idle", "done"}
  /\ reader' = [Away EXCEPT !.pc = "count", !.filter = filter, !.page = 1, !.quiet = TRUE]
  /\ UNCHANGED <<migrationVars, moved, commits>>

Count ==
  /\ reader.pc = "count"
  /\ reader' = [reader EXCEPT !.pc = "rows", !.total = Cardinality(Listed(reader.filter))]
  /\ UNCHANGED <<migrationVars, moved, commits>>

\* LIMIT and OFFSET.
PageOf(list, n) == SubSeq(list, (n - 1) * PageSize + 1, IF n * PageSize < Len(list) THEN n * PageSize ELSE Len(list))

Rows ==
  /\ reader.pc = "rows"
  /\ \E list \in Listings(reader.filter) :
       reader' = [reader EXCEPT !.pc = "items", !.todo = PageOf(list, reader.page)]
  /\ UNCHANGED <<migrationVars, moved, commits>>

\* The latest fact of each source.  The four statements that ask for them are one here.
Entries(r) ==
  [s \in {SourceOf[f] : f \in Of(db.events, r)} |->
     Max({db.events[f].time : f \in {g \in Of(db.events, r) : SourceOf[g] = s}})]

\* feedItem of the next row, first its facts ...
ReadEntries ==
  /\ reader.pc = "items"
  /\ reader.todo # <<>>
  /\ reader' = [reader EXCEPT !.pc = "pin",
       !.seen = Append(@, [repo |-> Head(reader.todo), entries |-> Entries(Head(reader.todo)), pin |-> 0])]
  /\ UNCHANGED <<migrationVars, moved, commits>>

\* ... then its position among the pins.
ReadPin ==
  /\ reader.pc = "pin"
  /\ reader' = [reader EXCEPT !.pc = "items", !.todo = Tail(@),
       !.seen[Len(reader.seen)].pin = Position(Head(reader.todo))]
  /\ UNCHANGED <<migrationVars, moved, commits>>

\* HandleListV1: the client asks for the next page as long as it is told of one.
EndPage ==
  /\ reader.pc = "items"
  /\ reader.todo = <<>>
  /\ reader' = IF reader.page * PageSize < reader.total
               THEN [reader EXCEPT !.pc = "count", !.page = @ + 1]
               ELSE [reader EXCEPT !.pc = "done"]
  /\ UNCHANGED <<migrationVars, moved, commits>>
-----------------------------------------------------------------------------
Read == Count \/ Rows \/ ReadEntries \/ ReadPin \/ EndPage

Next ==
  \/ Migrate /\ UNCHANGED <<reader, moved, commits>>
  \/ \E f \in NewFacts, r \in Repos, time \in Times : Publish(f, r, time)
  \/ \E list \in SeqOf(Repos, Limit + 1) : ReplacePins(list)
  \/ \E filter \in Filters : Ask(filter)
  \/ Read
  \/ Stop

Spec == Init /\ [][Next]_vars

\* Whoever started the process starts it again.
Fairness == WF_vars(Migrate /\ UNCHANGED <<reader, moved, commits>>)

FairSpec == Spec /\ Fairness
-----------------------------------------------------------------------------
Steps == {"down", "check", "tables", "copy", "validate", "aggregate", "column", "radar",
          "record", "commit", "serving"}

Database ==
  [version : 0..3, made : SUBSET {"events", "hash", "radar"},
   events : UNION {[facts -> [repo : Repos, time : Times]] : facts \in SUBSET Facts},
   repos : UNION {[rs -> [available : BOOLEAN, sources : SUBSET Sources, first : Times, latest : Times]]
                  : rs \in SUBSET Repos},
   pins : SeqOf(Repos, Limit)]

Item == [repo : Repos, entries : UNION {[ss -> Times] : ss \in SUBSET Sources}, pin : 0..Limit]

TypeOK ==
  /\ db \in Database
  /\ work \in Database
  /\ boot \in Steps
  /\ boot \in {"down", "check", "serving"} => work = db
  /\ reader.todo \in Seq(Repos)
  /\ reader.seen \in Seq(Item)
  /\ reader.total \in Nat
  /\ moved \subseteq Repos
  /\ crashes \in 0..MaxCrashes
  /\ commits \in 0..MaxCommits

\* The aggregates, by which the list is ordered and filtered, cover the facts of a
\* repository; and they are exact, unless a fact has moved away from it since: the
\* repository that loses a fact keeps the source and the time until it is published
\* again.
AggregatesCoverEvents ==
  db.version >= 1 => \A r \in DOMAIN db.repos : Of(db.events, r) # {} =>
    LET row == db.repos[r]
        sources == {SourceOf[f] : f \in Of(db.events, r)}
        times == TimesOf(db.events, r)
    IN /\ sources \subseteq row.sources
       /\ \A t \in times : row.first <= t /\ t <= row.latest
       /\ r \notin moved => row.sources = sources /\ {row.first, row.latest} \subseteq times

\* A client who follows NextPage while nothing is committed sees every public
\* repository of the sources it asks for once, the pinned ones first and at the
\* positions they are shown with, and as many as every page has told it.
QuietWalkListsEachOnce ==
  reader.pc = "done" /\ reader.quiet =>
    LET seen == reader.seen
    IN /\ {seen[i].repo : i \in DOMAIN seen} = Listed(reader.filter)
       /\ Len(seen) = Cardinality(Listed(reader.filter))
       /\ Len(seen) = reader.total
       /\ \A i, j \in DOMAIN seen : i < j =>
            /\ seen[j].pin # 0 => seen[i].pin \in 1..(seen[j].pin - 1)
            /\ seen[i].pin = 0 => db.repos[seen[i].repo].latest >= db.repos[seen[j].repo].latest
=============================================================================
